--------------------------- MODULE SupervisorSafety ---------------------------
(***************************************************************************)
(* Safety theorems about Supervisor.  Each invariant is shown to be kept   *)
(* by every action, given the type facts TInv of SupervisorProofs.         *)
(***************************************************************************)
EXTENDS SupervisorProofs

USE DEF Pc, StopPc, PassPc, DeadPc, Reason, Stopping, Job

(* Actions that leave the workers' map and the breakers as they are. *)
LEMMA BreakersKept ==
    ASSUME Next,
           ~(Remove \/ Exit \/ Boot \/ Crash),
           \A q, r \in SUBSET Camera : ~BeginPass(q, r),
           \A c \in Camera : ~(Reap(c) \/ Sweep(c) \/ Restart(c) \/ Drain(c)),
           \A c \in Camera, new \in SUBSET Slot :
              /\ ~StartFail(c, new)
              /\ \A s \in Slot, t \in Thread : ~StartOk(c, s, t, new)
    PROVE  UNCHANGED <<managed, breaker, stateFile>> \/ WriteSnapshot
<1>1. CASE EnvNext
  BY <1>1 DEF EnvNext, Unplug, Plug, AppOpen, AppClose, ForeignCreate,
              ExternalClean, supVars
<1>2. CASE WorkerNext
  BY <1>2 DEF WorkerNext, WorkerEnter, WorkerOpenTarget, WorkerOpenSource,
              WorkerBeat, WorkerFail, WorkerExit, WorkerPanic, HeartbeatAges,
              WorkerOnly, supVars
<1>3. CASE SigInt
  BY <1>3 DEF SigInt
<1>4. CASE SupStep
  BY <1>4 DEF SupStep, Join, JoinTimeout, Release, FindStale, FindHolders,
              Discover, FindUnplugged, BeginStarts, Keep, Backoff, TurnDone,
              BeginDrain
<1> QED BY <1>1, <1>2, <1>3, <1>4 DEF Next

BreakerInv == ManagedIsClean /\ SnapshotDisjoint

(* One lemma per group of actions; the type facts say that the camera      *)
(* being stopped has left the map before its failure is recorded.          *)
LEMMA BreakerInvNext == TInv /\ BreakerInv /\ [Next]_vars => BreakerInv'
<1> SUFFICES ASSUME TInv, BreakerInv, [Next]_vars PROVE BreakerInv'
  OBVIOUS
<1> USE DEF BreakerInv, ManagedIsClean, Managed, TInv, TypeOK
<1>1. CASE UNCHANGED vars
  BY <1>1 DEF vars, supVars, SnapshotDisjoint
<1>2. CASE Remove
  <2>1. cur \in Stopping /\ managed[cur.cam] = None
    BY <1>2 DEF Remove, CurOK
  <2>2. UNCHANGED <<managed, stateFile>>
        /\ \A c \in Camera \ {cur.cam} : breaker'[c] = breaker[c]
    BY <1>2, <2>1 DEF Remove
  <2> QED BY <2>1, <2>2 DEF SnapshotDisjoint
<1>3. ASSUME NEW q \in SUBSET Camera, NEW r \in SUBSET Camera, BeginPass(q, r)
      PROVE  BreakerInv'
  <2>1. ASSUME NEW c \in Camera, managed'[c] # None PROVE breaker'[c] = Clean
    <3>1. breaker[c] = Clean /\ c \in Camera
      BY <1>3, <2>1 DEF BeginPass
    <3>2. breaker'[c] = [Clean EXCEPT !.quar = @ /\ c \notin q,
                                      !.retry = @ /\ c \notin r]
      BY <1>3, <3>1 DEF BeginPass, Expire
    <3> QED BY <3>2 DEF Clean
  <2> QED BY <1>3, <2>1 DEF BeginPass, SnapshotDisjoint
<1>4. ASSUME NEW c \in Camera, Reap(c) \/ Sweep(c) \/ Restart(c) \/ Drain(c)
      PROVE  BreakerInv'
  BY <1>4 DEF Reap, Sweep, Restart, Drain, BeginStop, SnapshotDisjoint
<1>5. ASSUME NEW c \in Camera, NEW new \in SUBSET Slot, StartFail(c, new)
      PROVE  BreakerInv'
  BY <1>5, TurnNode DEF StartFail, TurnDone, SnapshotDisjoint
<1>6. ASSUME NEW c \in Camera, NEW s \in Slot, NEW t \in Thread,
             NEW new \in SUBSET Slot, StartOk(c, s, t, new)
      PROVE  BreakerInv'
  BY <1>6 DEF StartOk, TurnDone, SnapshotDisjoint
<1>7. CASE WriteSnapshot
  <2>1. ManagedIsClean'
    BY <1>7 DEF WriteSnapshot
  <2>2. \A c \in Camera : managed[c] # None => ~IsQuarantined(breaker[c])
    BY DEF IsQuarantined, Clean
  <2> QED BY <1>7, <2>1, <2>2 DEF WriteSnapshot, SnapshotDisjoint
<1>8. CASE Exit \/ Boot \/ Crash
  BY <1>8 DEF Exit, Boot, Crash, ProcessGone, SnapshotDisjoint
<1>9. CASE UNCHANGED <<managed, breaker, stateFile>>
  BY <1>9 DEF SnapshotDisjoint
<1> QED
  BY <1>1, <1>2, <1>3, <1>4, <1>5, <1>6, <1>7, <1>8, <1>9, BreakersKept

LEMMA BreakerInvInit == Init => BreakerInv
BY DEF Init, BreakerInv, ManagedIsClean, Managed, SnapshotDisjoint

(* A camera with a shim has an empty breaker: whatever order reaps, sweeps, *)
(* restarts and starts come in, the map of workers and the map of breaker  *)
(* states stay in step.                                                    *)
THEOREM ManagedAlwaysClean == Spec => []ManagedIsClean
<1>1. BreakerInv => ManagedIsClean
  BY DEF BreakerInv
<1> QED
  BY <1>1, BreakerInvInit, BreakerInvNext, TInvAlways, PTL DEF Spec

(* No state file ever names a camera both managed and quarantined. *)
THEOREM SnapshotAlwaysDisjoint == Spec => []SnapshotDisjoint
<1>1. BreakerInv => SnapshotDisjoint
  BY DEF BreakerInv
<1> QED
  BY <1>1, BreakerInvInit, BreakerInvNext, TInvAlways, PTL DEF Spec

-----------------------------------------------------------------------------
(* The start loop.  The cameras it has passed are served, and what it does *)
(* to one camera, a restart included, does not undo another.               *)

Served(c) == IF Managed(c) THEN managed[c].node = cand[c]
                           ELSE ~CanStart(breaker[c])

InLoop == pc \in {"start", "create"} \/ (pc \in StopPc /\ cur.why = "restart")

PassInv ==
    /\ InLoop => \A c \in Camera \ todo : cand[c] # None => Served(c)
    /\ pc = "wait" => \A c \in Camera : cand[c] # None => Served(c)

LEMMA PassInvNext == TInv /\ PassInv /\ [Next]_vars => PassInv'
<1> SUFFICES ASSUME TInv, PassInv, [Next]_vars PROVE PassInv'
  OBVIOUS
<1> USE DEF PassInv, InLoop, Served, Managed
<1>1. CASE /\ UNCHANGED <<managed, cand, breaker, todo, cur>>
           /\ pc' = pc \/ (pc \in StopPc /\ pc' \in StopPc)
  BY <1>1
<1>2. CASE pc' \notin {"start", "create", "wait"} \cup StopPc
  BY <1>2
<1>3. CASE EnvNext \/ WorkerNext \/ SigInt
  <2>1. UNCHANGED supVars
        \/ UNCHANGED <<pc, todo, cur, skip, cand, managed, breaker, stateFile>>
    BY <1>3 DEF EnvNext, Unplug, Plug, AppOpen, AppClose, ForeignCreate,
         ExternalClean, WorkerNext, WorkerEnter,
         WorkerOpenTarget, WorkerOpenSource, WorkerBeat, WorkerFail, WorkerExit,
         WorkerPanic, HeartbeatAges, WorkerOnly, SigInt
  <2> QED BY <1>1, <2>1 DEF supVars
<1>4. CASE Join \/ JoinTimeout \/ Release
  <2>1. /\ UNCHANGED <<managed, cand, breaker, todo, cur>>
        /\ pc \in StopPc /\ pc' \in StopPc
    BY <1>4 DEF Join, JoinTimeout, Release
  <2> QED BY <1>1, <2>1
<1>5. CASE Remove
  <2>1. /\ cur \in Stopping /\ pc \in StopPc
        /\ cur.why = "restart" => cur.cam \in todo
    BY <1>5 DEF Remove, TInv, TypeOK, CurOK, StartTodo
  <2>2. /\ UNCHANGED <<managed, cand, todo>>
        /\ \A c \in Camera \ {cur.cam} : breaker'[c] = breaker[c]
        /\ pc' = IF cur.why = "restart" THEN "create" ELSE cur.why
    BY <1>5, <2>1 DEF Remove, TInv, TypeOK
  <2>3. CASE cur.why = "restart"
    BY <2>1, <2>2, <2>3
  <2>4. CASE cur.why # "restart"
    BY <1>2, <2>1, <2>2, <2>4
  <2> QED BY <2>3, <2>4
<1>6. ASSUME NEW c \in Camera, Restart(c) PROVE PassInv'
  <2>1. /\ pc = "start" /\ c \in todo /\ UNCHANGED <<todo, cand, breaker>>
        /\ BeginStop(c, "restart")
    BY <1>6 DEF Restart
  <2>2. /\ pc' = "join" /\ \A d \in Camera \ {c} : managed'[d] = managed[d]
    BY <2>1 DEF BeginStop, TInv, TypeOK
  <2> QED BY <2>1, <2>2
<1>7. ASSUME NEW c \in Camera, Reap(c) \/ Sweep(c) \/ Drain(c) PROVE PassInv'
  <2>1. PICK why \in Reason \ {"restart"} : BeginStop(c, why)
    BY <1>7 DEF Reap, Sweep, Drain
  <2>2. pc' = "join" /\ cur'.why # "restart"
    BY <2>1 DEF BeginStop
  <2> QED BY <2>2
<1>8. CASE BeginStarts
  BY <1>8 DEF BeginStarts
<1>9. ASSUME NEW c \in Camera, Keep(c) PROVE PassInv'
  BY <1>9 DEF Keep, SourceStale
<1>10. ASSUME NEW c \in Camera, Backoff(c) PROVE PassInv'
  <2>1. ~Managed(c) /\ InLoop
    BY <1>10, TurnNode DEF Backoff, Turn
  <2> QED BY <1>10, <2>1 DEF Backoff, TurnDone
<1>11. ASSUME NEW c \in Camera, NEW new \in SUBSET Slot, StartFail(c, new)
       PROVE  PassInv'
  <2>1. ~Managed(c) /\ InLoop
    BY <1>11, TurnNode DEF StartFail, Turn
  <2>2. /\ managed' = managed /\ cand' = cand /\ pc' = "start"
        /\ todo' = todo \ {c}
        /\ breaker' = [breaker EXCEPT ![c] = RecordFailure(@)]
    BY <1>11 DEF StartFail, TurnDone
  <2>3. ~CanStart(breaker'[c])
    BY <2>2 DEF CanStart, RecordFailure, TInv, TypeOK
  <2> QED BY <2>1, <2>2, <2>3 DEF TInv, TypeOK
<1>12. ASSUME NEW c \in Camera, NEW s \in Slot, NEW t \in Thread,
              NEW new \in SUBSET Slot, StartOk(c, s, t, new)
       PROVE  PassInv'
  <2>1. cand[c] \in Node /\ InLoop
    BY <1>12, TurnNode DEF StartOk, Turn
  <2>2. [thread |-> t, node |-> cand[c], slot |-> s] \in Job
    BY <2>1
  <2>3. managed'[c] # None /\ managed'[c].node = cand[c]
    BY <1>12, <2>2, NoneAssumption DEF StartOk, TInv, TypeOK
  <2>4. /\ cand' = cand /\ pc' = "start" /\ todo' = todo \ {c}
        /\ \A d \in Camera \ {c} : /\ managed'[d] = managed[d]
                                   /\ breaker'[d] = breaker[d]
    BY <1>12 DEF StartOk, TurnDone, TInv, TypeOK
  <2> QED BY <2>1, <2>3, <2>4
<1>13. CASE WriteSnapshot
  BY <1>13 DEF WriteSnapshot
<1>14. CASE FindStale \/ BeginDrain \/ Exit \/ Boot \/ Crash
  BY <1>2, <1>14 DEF FindStale, BeginDrain, Exit, Boot, Crash
<1>15. CASE \/ \E q, r \in SUBSET Camera : BeginPass(q, r)
            \/ \E others \in SUBSET Node : FindHolders(others)
            \/ \E missed \in SUBSET Camera :
                  Discover(missed) \/ FindUnplugged(missed)
  BY <1>2, <1>15 DEF BeginPass, FindHolders, Discover, FindUnplugged
<1>16. CASE UNCHANGED vars
  BY <1>1, <1>16 DEF vars, supVars
<1> QED
  BY <1>3, <1>4, <1>5, <1>6, <1>7, <1>8, <1>9, <1>10, <1>11, <1>12, <1>13,
     <1>14, <1>15, <1>16 DEF Next, SupStep

(* When a pass of reconcile ends, no camera it discovered has fallen       *)
(* through: each is served from the path found, or held back by a deadline. *)
THEOREM PassAlwaysConverges == Spec => []PassConverges
<1>1. Init => PassInv
  BY DEF Init, PassInv, InLoop
<1>2. PassInv => PassConverges
  BY DEF PassInv, PassConverges, Served
<1> QED
  BY <1>1, <1>2, PassInvNext, TInvAlways, PTL DEF Spec
=============================================================================
