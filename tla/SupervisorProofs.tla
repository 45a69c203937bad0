--------------------------- MODULE SupervisorProofs ---------------------------
(***************************************************************************)
(* Theorems about Supervisor, for any cameras, nodes, slots and threads.   *)
(***************************************************************************)
EXTENDS Supervisor, TLAPS

(* stop_managed is at work, or has just returned to a restart, exactly     *)
(* when there is a camera it works on, and that camera has left the map.   *)
CurOK ==
    /\ cur # None <=> pc \in StopPc \cup {"create"}
    /\ cur # None => ~Managed(cur.cam)

(* A thread that runs has its two paths; one that has ended holds nothing. *)
WorkerPaths ==
    \A t \in Thread :
        /\ worker[t].phase # "done" => worker[t].src \in Node
        /\ worker[t].phase # "done" => worker[t].tgt \in Slot
        /\ worker[t].phase = "done" => worker[t].fds = "none"

(* The start loop, a restart inside it included, visits candidates only.   *)
StartTodo ==
    /\ pc = "create" => cur.why = "restart"
    /\ cur # None => (cur.why = "restart" => cur.cam \in todo)
    /\ pc = "start" => \A c \in todo : cand[c] # None
    /\ cur # None => (cur.why = "restart" => \A c \in todo : cand[c] # None)

TInv == TypeOK /\ CurOK /\ WorkerPaths /\ StartTodo

USE DEF Pc, StopPc, PassPc, DeadPc, Reason, Stopping, Job

(* The breaker's operations keep its type. *)
LEMMA BreakerType ==
    /\ Clean \in Breaker
    /\ \A b \in Breaker : RecordFailure(b) \in Breaker
    /\ \A b \in Breaker, q, r \in BOOLEAN :
         [b EXCEPT !.quar = q, !.retry = r] \in Breaker
<1>1. Clean \in Breaker
  BY BreakerAssumption DEF Clean, Breaker
<1>2. ASSUME NEW b \in Breaker PROVE RecordFailure(b) \in Breaker
  BY BreakerAssumption DEF RecordFailure, Increment, Breaker
<1>3. ASSUME NEW b \in Breaker, NEW q \in BOOLEAN, NEW r \in BOOLEAN
      PROVE  [b EXCEPT !.quar = q, !.retry = r] \in Breaker
  BY DEF Breaker
<1> QED BY <1>1, <1>2, <1>3

LEMMA IdleType == Idle \in WorkerState
BY DEF Idle, WorkerState

(* So do the changes a step makes to a worker. *)
LEMMA WorkerUpdate ==
    ASSUME NEW w \in WorkerState
    PROVE  /\ [w EXCEPT !.phase = "live", !.run = TRUE] \in WorkerState
           /\ [w EXCEPT !.run = FALSE] \in WorkerState
           /\ [w EXCEPT !.fds = "target", !.fresh = TRUE] \in WorkerState
           /\ [w EXCEPT !.fds = "both"] \in WorkerState
           /\ [w EXCEPT !.fresh = TRUE] \in WorkerState
           /\ [w EXCEPT !.fresh = FALSE] \in WorkerState
           /\ \A f \in {w.fresh, TRUE} :
                [w EXCEPT !.fds = "none", !.fresh = f] \in WorkerState
BY DEF WorkerState

(* None of them touches a path, and only the first the phase. *)
LEMMA WorkerFields ==
    ASSUME NEW w \in WorkerState
    PROVE  /\ [w EXCEPT !.phase = "live", !.run = TRUE].phase = "live"
           /\ [w EXCEPT !.phase = "live", !.run = TRUE].src = w.src
           /\ [w EXCEPT !.phase = "live", !.run = TRUE].tgt = w.tgt
           /\ [w EXCEPT !.fds = "target", !.fresh = TRUE].phase = w.phase
           /\ [w EXCEPT !.fds = "target", !.fresh = TRUE].src = w.src
           /\ [w EXCEPT !.fds = "target", !.fresh = TRUE].tgt = w.tgt
           /\ [w EXCEPT !.fds = "both"].phase = w.phase
           /\ [w EXCEPT !.fds = "both"].src = w.src
           /\ [w EXCEPT !.fds = "both"].tgt = w.tgt
           /\ \A b \in BOOLEAN : /\ [w EXCEPT !.fresh = b].phase = w.phase
                                /\ [w EXCEPT !.fresh = b].src = w.src
                                /\ [w EXCEPT !.fresh = b].tgt = w.tgt
                                /\ [w EXCEPT !.fresh = b].fds = w.fds
BY DEF WorkerState

LEMMA InitType == Init => TInv
<1> SUFFICES ASSUME Init PROVE TInv
  OBVIOUS
<1>1. TypeOK
  BY BreakerType, IdleType DEF Init, TypeOK
<1>2. WorkerPaths
  BY DEF Init, WorkerPaths, Idle
<1> QED
  BY <1>1, <1>2 DEF Init, TInv, CurOK, StartTodo

(* Nothing outside the process touches the supervisor or its workers. *)
LEMMA EnvType == TInv /\ EnvNext => TInv'
<1> SUFFICES ASSUME TInv, EnvNext PROVE TInv'
  OBVIOUS
<1> USE DEF TInv, TypeOK
<1>1. TypeOK' /\ UNCHANGED <<supVars, worker>>
  <2>1. ASSUME NEW c \in Camera, Unplug(c)
        PROVE  TypeOK' /\ UNCHANGED <<supVars, worker>>
    BY <2>1 DEF Unplug, supVars
  <2>2. ASSUME NEW c \in Camera, NEW n \in Node, Plug(c, n)
        PROVE  TypeOK' /\ UNCHANGED <<supVars, worker>>
    BY <2>2 DEF Plug, supVars
  <2>3. ASSUME NEW s \in Slot, \/ AppOpen(s) \/ AppClose(s)
                               \/ \E k \in OtherCard : ForeignCreate(s, k)
                               \/ ExternalClean(s)
        PROVE  TypeOK' /\ UNCHANGED <<supVars, worker>>
    BY <2>3 DEF AppOpen, AppClose, ForeignCreate, ExternalClean, supVars
  <2> QED BY <2>1, <2>2, <2>3 DEF EnvNext
<1> QED
  BY <1>1 DEF CurOK, Managed, WorkerPaths, StartTodo, supVars

LEMMA WorkerType == TInv /\ WorkerNext => TInv'
<1> SUFFICES ASSUME TInv, NEW t \in Thread,
                    \/ WorkerEnter(t) \/ WorkerOpenTarget(t)
                    \/ WorkerOpenSource(t) \/ WorkerBeat(t) \/ WorkerFail(t)
                    \/ WorkerExit(t) \/ WorkerPanic(t) \/ HeartbeatAges(t)
             PROVE  TInv'
  BY DEF WorkerNext
<1>1. PICK w \in WorkerState :
        /\ worker' = [worker EXCEPT ![t] = w]
        /\ w.phase # "done" => /\ w.src = worker[t].src /\ w.tgt = worker[t].tgt
                               /\ worker[t].phase # "done"
        /\ w.phase = "done" => w.fds = "none"
  <2> DEFINE ok(w) ==
        /\ worker' = [worker EXCEPT ![t] = w]
        /\ w \in WorkerState
        /\ w.phase # "done" => /\ w.src = worker[t].src /\ w.tgt = worker[t].tgt
                               /\ worker[t].phase # "done"
        /\ w.phase = "done" => w.fds = "none"
  <2>0. worker[t] \in WorkerState
    BY DEF TInv, TypeOK
  <2> USE WorkerUpdate, WorkerFields, <2>0
  <2>1. CASE WorkerEnter(t)
    <3>1. ok([worker[t] EXCEPT !.phase = "live", !.run = TRUE])
      BY <2>1 DEF WorkerEnter
    <3> QED BY <3>1
  <2>2. CASE WorkerOpenTarget(t)
    <3>1. ok([worker[t] EXCEPT !.fds = "target", !.fresh = TRUE])
      BY <2>2 DEF WorkerOpenTarget
    <3> QED BY <3>1
  <2>3. CASE WorkerOpenSource(t)
    <3>1. ok([worker[t] EXCEPT !.fds = "both"])
      BY <2>3 DEF WorkerOpenSource
    <3> QED BY <3>1
  <2>4. CASE WorkerBeat(t)
    <3>1. ok([worker[t] EXCEPT !.fresh = TRUE])
      BY <2>4 DEF WorkerBeat
    <3> QED BY <3>1
  <2>5. CASE WorkerFail(t)
    <3>1. PICK f \in {worker[t].fresh, TRUE} :
            worker' = [worker EXCEPT
                         ![t] = [@ EXCEPT !.fds = "none", !.fresh = f]]
      BY <2>5 DEF WorkerFail
    <3>2. [worker[t] EXCEPT !.fds = "none", !.fresh = f] \in WorkerState
      OBVIOUS
    <3>3. ok([worker[t] EXCEPT !.fds = "none", !.fresh = f])
      BY <2>5, <3>1, <3>2 DEF WorkerFail, WorkerState
    <3> QED BY <3>3
  <2>6. CASE WorkerExit(t) \/ WorkerPanic(t)
    <3>1. ok(Idle)
      BY <2>6, IdleType DEF WorkerExit, WorkerPanic, Idle
    <3> QED BY <3>1
  <2>7. CASE HeartbeatAges(t)
    <3>1. ok([worker[t] EXCEPT !.fresh = FALSE])
      BY <2>7 DEF HeartbeatAges
    <3> QED BY <3>1
  <2> QED BY <2>1, <2>2, <2>3, <2>4, <2>5, <2>6, <2>7
<1>2. UNCHANGED <<supVars, envVars>>
  BY DEF WorkerEnter, WorkerOpenTarget, WorkerOpenSource, WorkerBeat,
         WorkerFail, WorkerExit, WorkerPanic, HeartbeatAges, WorkerOnly
<1>3. worker' \in [Thread -> WorkerState]
  BY <1>1 DEF TInv, TypeOK
<1>4. WorkerPaths'
  BY <1>1 DEF TInv, TypeOK, WorkerPaths
<1> QED
  BY <1>2, <1>3, <1>4 DEF TInv, TypeOK, CurOK, Managed, StartTodo, supVars, envVars

(* The common part of the five calls of stop_managed. *)
LEMMA BeginStopType ==
    ASSUME TInv, NEW c \in Camera, NEW why \in Reason, BeginStop(c, why)
    PROVE  /\ managed' \in [Camera -> Job \cup {None}]
           /\ worker' \in [Thread -> WorkerState]
           /\ cur' = [cam |-> c, thread |-> managed[c].thread,
                      slot |-> managed[c].slot, why |-> why]
           /\ cur' \in Stopping /\ pc' = "join"
           /\ CurOK' /\ WorkerPaths'
<1>1. managed[c] \in Job /\ managed[c].thread \in Thread
  BY DEF BeginStop, TInv, TypeOK, Managed
<1>2. managed' \in [Camera -> Job \cup {None}] /\ managed'[c] = None
  BY DEF BeginStop, TInv, TypeOK
<1>3. PICK w \in WorkerState :
        /\ worker' = [worker EXCEPT ![managed[c].thread] = w]
        /\ w.phase = worker[managed[c].thread].phase
        /\ w.src = worker[managed[c].thread].src
        /\ w.tgt = worker[managed[c].thread].tgt
        /\ w.fds = worker[managed[c].thread].fds
  <2>1. worker[managed[c].thread] \in WorkerState
    BY <1>1 DEF TInv, TypeOK
  <2>2. [worker[managed[c].thread] EXCEPT !.run = FALSE] \in WorkerState
    BY <2>1, WorkerUpdate
  <2> QED BY <2>1, <2>2 DEF BeginStop, WorkerState
<1>4. worker' \in [Thread -> WorkerState]
  BY <1>1, <1>3 DEF TInv, TypeOK
<1>5. WorkerPaths'
  BY <1>1, <1>3 DEF TInv, TypeOK, WorkerPaths
<1>6. cur' \in Stopping /\ cur'.cam = c /\ pc' = "join"
  BY <1>1 DEF BeginStop
<1>7. cur' # None
  BY <1>6, NoneAssumption
<1> QED
  BY <1>2, <1>4, <1>5, <1>6, <1>7 DEF CurOK, Managed, BeginStop

(* What /proc shows the workers holding are camera nodes. *)
LEMMA HeldSources == TInv => HeldByWorkers \subseteq Node
<1> SUFFICES ASSUME TInv, NEW t \in Thread, worker[t].fds = "both"
             PROVE  worker[t].src \in Node
  BY DEF HeldByWorkers
<1> QED BY DEF TInv, TypeOK, WorkerState, WorkerPaths

(* A camera whose turn it is to be started is a candidate with a node. *)
LEMMA TurnNode ==
    ASSUME TInv, NEW c \in Camera, Turn(c)
    PROVE  /\ cand[c] \in Node /\ ~Managed(c)
           /\ pc = "start" => cur = None
           /\ \A d \in todo : cand[d] # None
BY DEF TInv, TypeOK, CurOK, StartTodo, Turn

(* What the end of a turn in the start loop keeps, however it went. *)
LEMMA TurnDoneType ==
    ASSUME TInv, NEW c \in Camera, Turn(c), TurnDone(c)
    PROVE  /\ pc' \in Pc /\ todo' \subseteq Camera /\ cur' = None
           /\ CurOK' /\ StartTodo'
BY TurnNode DEF TurnDone, TInv, TypeOK, CurOK, StartTodo

(* What a creation adds are devices, and it takes none away. *)
LEMMA MadeDevices ==
    ASSUME TInv, NEW c \in Camera, NEW new \in SUBSET Slot
    PROVE  /\ Made(c, new) \in [Slot -> Card \cup OtherCard \cup {Free}]
           /\ \A s \in Slot : dev[s] # Free => Made(c, new)[s] # Free
BY SupervisorAssumption DEF Made, TInv, TypeOK

LEMMA SupType == TInv /\ SupStep => TInv'
<1> SUFFICES ASSUME TInv, SupStep PROVE TInv'
  OBVIOUS
<1>1. CASE Join \/ JoinTimeout
  BY <1>1 DEF Join, JoinTimeout, TInv, TypeOK, CurOK, Managed, WorkerPaths,
              StartTodo, envVars
<1>2. CASE Release
  BY <1>2 DEF Release, TInv, TypeOK, CurOK, Managed, WorkerPaths, StartTodo
<1>3. CASE Remove
  <2> USE <1>3 DEF Remove
  <2>1. cur \in Stopping
    BY DEF TInv, TypeOK, CurOK
  <2>2. dev' \in [Slot -> Card \cup OtherCard \cup {Free}]
    BY <2>1 DEF TInv, TypeOK
  <2>3. breaker' \in [Camera -> Breaker]
    BY <2>1, BreakerType DEF TInv, TypeOK, AfterStop
  <2>4. pc' \in Pc /\ cur' \in Stopping \cup {None} /\ CurOK'
    BY <2>1 DEF TInv, CurOK, Managed
  <2>5. StartTodo'
    BY <2>1 DEF TInv, CurOK, StartTodo
  <2> QED BY <2>2, <2>3, <2>4, <2>5 DEF TInv, TypeOK, WorkerPaths
<1>4. ASSUME NEW q \in SUBSET Camera, NEW r \in SUBSET Camera, BeginPass(q, r)
      PROVE  TInv'
  <2>1. breaker' \in [Camera -> Breaker]
    BY <1>4, BreakerType DEF BeginPass, Expire, TInv, TypeOK
  <2> QED
    BY <1>4, <2>1 DEF BeginPass, TInv, TypeOK, CurOK, Managed, WorkerPaths,
                      StartTodo, envVars
<1>5. CASE \/ \E missed \in SUBSET Camera : FindUnplugged(missed)
           \/ FindStale \/ BeginStarts \/ WriteSnapshot \/ BeginDrain
  BY <1>5 DEF FindStale, FindUnplugged, BeginStarts, WriteSnapshot, BeginDrain,
              Snapshot, TInv, TypeOK, CurOK, Managed, WorkerPaths, StartTodo,
              envVars
<1>6. ASSUME NEW others \in SUBSET Node, FindHolders(others) PROVE TInv'
  <2>1. skip' \subseteq Node
    BY <1>6, HeldSources DEF FindHolders, TInv, TypeOK
  <2> QED
    BY <1>6, <2>1 DEF FindHolders, TInv, TypeOK, CurOK, Managed, WorkerPaths,
                      StartTodo, envVars
<1>7. ASSUME NEW missed \in SUBSET Camera, Discover(missed) PROVE TInv'
  BY <1>7 DEF Discover, TInv, TypeOK, CurOK, Managed, WorkerPaths, StartTodo,
              envVars
<1>8. ASSUME NEW c \in Camera, \/ Reap(c) \/ Sweep(c) \/ Restart(c) \/ Drain(c)
      PROVE  TInv'
  <2>1. PICK why \in Reason :
          /\ BeginStop(c, why)
          /\ why = "restart" => /\ pc = "start" /\ todo' = todo /\ c \in todo
    BY <1>8 DEF Reap, Sweep, Restart, Drain
  <2>2. todo' \subseteq Camera
        /\ UNCHANGED <<shutdown, skip, cand, breaker, stateFile, envVars>>
    BY <1>8 DEF Reap, Sweep, Restart, Drain, TInv, TypeOK
  <2>3. /\ managed' \in [Camera -> Job \cup {None}]
        /\ worker' \in [Thread -> WorkerState]
        /\ cur' \in Stopping /\ cur'.why = why /\ cur'.cam = c
        /\ pc' = "join" /\ CurOK' /\ WorkerPaths'
    BY <2>1, BeginStopType
  <2>4. StartTodo'
    BY <2>1, <2>2, <2>3 DEF TInv, StartTodo
  <2> QED BY <2>2, <2>3, <2>4 DEF TInv, TypeOK, envVars
<1>9. ASSUME NEW c \in Camera, Keep(c) PROVE TInv'
  BY <1>9 DEF Keep, TInv, TypeOK, CurOK, Managed, WorkerPaths, StartTodo, envVars
<1>10. ASSUME NEW c \in Camera, Backoff(c) PROVE TInv'
  BY <1>10, TurnDoneType DEF Backoff, TurnDone, TInv, TypeOK, WorkerPaths
<1>11. ASSUME NEW c \in Camera, NEW new \in SUBSET Slot, StartFail(c, new)
       PROVE  TInv'
  <2>1. breaker' \in [Camera -> Breaker]
    BY <1>11, BreakerType DEF StartFail, TInv, TypeOK
  <2> QED
    BY <1>11, <2>1, TurnDoneType, MadeDevices
       DEF StartFail, TurnDone, TInv, TypeOK, WorkerPaths
<1>12. ASSUME NEW c \in Camera, NEW s \in Slot, NEW t \in Thread,
              NEW made \in SUBSET Slot, StartOk(c, s, t, made)
       PROVE  TInv'
  <2>1. cand[c] \in Node
    BY <1>12, TurnNode DEF StartOk
  <2>2. breaker' \in [Camera -> Breaker]
    BY <1>12, BreakerType DEF StartOk, TInv, TypeOK
  <2>3. PICK new \in WorkerState :
          /\ worker' = [worker EXCEPT ![t] = new]
          /\ new.phase # "done" /\ new.src \in Node /\ new.tgt \in Slot
    <3> DEFINE new ==
          [phase |-> IF "late_entry" \in Disturbances THEN "spawned" ELSE "live",
           run |-> TRUE, src |-> cand[c], tgt |-> s, fds |-> "none",
           fresh |-> TRUE]
    <3>1. new \in WorkerState
      BY <2>1 DEF WorkerState
    <3>2. new.phase # "done" /\ new.src \in Node /\ new.tgt \in Slot
      BY <2>1
    <3>3. worker' = [worker EXCEPT ![t] = new]
      BY <1>12 DEF StartOk
    <3> HIDE DEF new
    <3> QED BY <3>1, <3>2, <3>3
  <2>4. worker' \in [Thread -> WorkerState] /\ WorkerPaths'
    BY <2>3 DEF TInv, TypeOK, WorkerPaths
  <2>5. managed' \in [Camera -> Job \cup {None}]
    BY <1>12, <2>1 DEF StartOk, TInv, TypeOK
  <2>6. dev' \in [Slot -> Card \cup OtherCard \cup {Free}]
    BY <1>12, MadeDevices DEF StartOk
  <2>7. /\ pc' \in Pc /\ todo' \subseteq Camera /\ cur' = None
        /\ CurOK' /\ StartTodo'
    BY <1>12, TurnDoneType DEF StartOk
  <2> QED
    BY <1>12, <2>2, <2>4, <2>5, <2>6, <2>7 DEF StartOk, TurnDone, TInv, TypeOK
<1>13. CASE Exit
  BY <1>13, BreakerType, IdleType
     DEF Exit, ProcessGone, TInv, TypeOK, CurOK, Managed, WorkerPaths, StartTodo,
         Idle, envVars
<1> QED
  BY <1>1, <1>2, <1>3, <1>4, <1>5, <1>6, <1>7, <1>8, <1>9, <1>10, <1>11, <1>12,
     <1>13 DEF SupStep

LEMMA ProcessType == TInv /\ (Boot \/ SigInt \/ Crash) => TInv'
<1> SUFFICES ASSUME TInv, Boot \/ SigInt \/ Crash PROVE TInv'
  OBVIOUS
<1> USE DEF TInv, TypeOK, CurOK, Managed, WorkerPaths, StartTodo
<1>1. CASE Boot
  BY <1>1, BreakerType DEF Boot
<1>2. CASE SigInt
  BY <1>2 DEF SigInt, envVars
<1>3. CASE Crash
  BY <1>3, BreakerType, IdleType DEF Crash, ProcessGone, Idle, envVars
<1> QED BY <1>1, <1>2, <1>3

LEMMA NextType == TInv /\ [Next]_vars => TInv'
<1>1. TInv /\ UNCHANGED vars => TInv'
  BY DEF TInv, TypeOK, CurOK, Managed, WorkerPaths, StartTodo, vars, supVars,
         envVars
<1> QED
  BY <1>1, EnvType, WorkerType, SupType, ProcessType DEF Next

LEMMA TInvAlways == Spec => []TInv
BY InitType, NextType, PTL DEF Spec

(* Every reachable state of the service is well typed. *)
THEOREM TypeCorrect == Spec => []TypeOK
<1>1. TInv => TypeOK
  BY DEF TInv
<1> QED BY <1>1, TInvAlways, PTL

-----------------------------------------------------------------------------
(* What ShimWorker promises about a thread (WorkerContract), held against   *)
(* what this model makes of it.  Worker t, started on node n for loopback   *)
(* s, as WorkerContract sees it:                                           *)
Promise(t, n, s) == INSTANCE WorkerContract WITH
    phase <- worker[t].phase, run <- worker[t].run, fds <- worker[t].fds,
    fresh <- worker[t].fresh,
    plugged <- \E c \in Camera : node[c] = n, loopback <- dev[s] # Free

Alive(t, n, s) ==
    worker[t].phase # "done" /\ worker[t].src = n /\ worker[t].tgt = s

(* Thread t does something, and nothing else changes.  Of a thread that    *)
(* ends nothing is remembered.                                             *)
OnlyThread(t) ==
    /\ WorkerOnly
    /\ \E w \in WorkerState :
          /\ worker' = [worker EXCEPT ![t] = w]
          /\ IF w.phase = "done"
               THEN w = Idle
               ELSE w.src = worker[t].src /\ w.tgt = worker[t].tgt

(* What a step leaves alone and what it sets makes up the whole record.    *)
LEMMA SameRecord ==
    ASSUME NEW w \in WorkerState, NEW v \in WorkerState,
           v.src = w.src, v.tgt = w.tgt
    PROVE  /\ /\ v.phase = "live" /\ v.run = TRUE /\ v.fds = w.fds
              /\ v.fresh = w.fresh
              => v = [w EXCEPT !.phase = "live", !.run = TRUE]
           /\ /\ v.fds = "target" /\ v.fresh = TRUE /\ v.phase = w.phase
              /\ v.run = w.run
              => v = [w EXCEPT !.fds = "target", !.fresh = TRUE]
           /\ v.fds = "none" /\ v.phase = w.phase /\ v.run = w.run
              => v = [w EXCEPT !.fds = "none", !.fresh = v.fresh]
<1> /\ v = [phase |-> v.phase, run |-> v.run, src |-> v.src, tgt |-> v.tgt,
            fds |-> v.fds, fresh |-> v.fresh]
    /\ w = [phase |-> w.phase, run |-> w.run, src |-> w.src, tgt |-> w.tgt,
            fds |-> w.fds, fresh |-> w.fresh]
  BY DEF WorkerState
<1> QED BY Zenon

(* And the other way round: what an EXCEPT leaves of a worker's record.    *)
LEMMA ChangedRecord ==
    ASSUME NEW w \in WorkerState
    PROVE  /\ LET v == [w EXCEPT !.phase = "live", !.run = TRUE]
              IN  v.phase = "live" /\ v.run = TRUE /\ v.fds = w.fds
                  /\ v.fresh = w.fresh
           /\ LET v == [w EXCEPT !.fds = "target", !.fresh = TRUE]
              IN  v.phase = w.phase /\ v.run = w.run /\ v.fds = "target"
                  /\ v.fresh = TRUE
           /\ LET v == [w EXCEPT !.fds = "both"]
              IN  v.phase = w.phase /\ v.run = w.run /\ v.fds = "both"
                  /\ v.fresh = w.fresh
           /\ \A f : LET v == [w EXCEPT !.fresh = f]
                     IN  v.phase = w.phase /\ v.run = w.run
                         /\ v.fds = w.fds /\ v.fresh = f
           /\ \A f : LET v == [w EXCEPT !.fds = "none", !.fresh = f]
                     IN  v.phase = w.phase /\ v.run = w.run
                         /\ v.fds = "none" /\ v.fresh = f
           /\ LET v == [w EXCEPT !.run = FALSE]
              IN  v.phase = w.phase /\ v.run = FALSE /\ v.fds = w.fds
                  /\ v.fresh = w.fresh
<1> w = [phase |-> w.phase, run |-> w.run, src |-> w.src, tgt |-> w.tgt,
         fds |-> w.fds, fresh |-> w.fresh]
  BY DEF WorkerState
<1> QED BY Zenon

(* Whatever the contract lets a worker do, a worker of this model may do   *)
(* (where stalls and panics are admitted).  With the worker of ShimWorker, *)
(* which keeps the contract, what holds here holds of shim.rs.             *)
THEOREM ContractIsCovered ==
    ASSUME TypeOK, {"stall", "panic"} \subseteq Disturbances,
           NEW t \in Thread, NEW n, NEW s, Alive(t, n, s),
           Promise(t, n, s)!Work, OnlyThread(t)
    PROVE  WorkerNext
<1>1. PICK w \in WorkerState :
         /\ worker' = [worker EXCEPT ![t] = w]
         /\ IF w.phase = "done" THEN w = Idle ELSE w.src = n /\ w.tgt = s
  BY DEF OnlyThread, Alive
<1>2. worker'[t] = w /\ worker[t] \in WorkerState /\ WorkerOnly
  BY <1>1 DEF TypeOK, OnlyThread
<1> USE DEF Alive
<1>3. CASE Promise(t, n, s)!Enter
  <2>1. w = [worker[t] EXCEPT !.phase = "live", !.run = TRUE]
    <3>1. /\ w.phase = "live" /\ w.run = TRUE /\ w.src = worker[t].src
          /\ w.tgt = worker[t].tgt /\ w.fds = worker[t].fds
          /\ w.fresh = worker[t].fresh
      BY <1>1, <1>2, <1>3 DEF Promise!Enter
    <3> QED BY <1>2, <3>1, SameRecord
  <2>2. WorkerEnter(t)
    BY <1>1, <1>2, <1>3, <2>1 DEF Promise!Enter, WorkerEnter
  <2> QED BY <2>2 DEF WorkerNext
<1>4. CASE Promise(t, n, s)!OpenTarget
  <2>1. w = [worker[t] EXCEPT !.fds = "target", !.fresh = TRUE]
    <3>1. /\ w.fds = "target" /\ w.fresh = TRUE /\ w.src = worker[t].src
          /\ w.tgt = worker[t].tgt /\ w.phase = worker[t].phase
          /\ w.run = worker[t].run
      BY <1>1, <1>2, <1>4 DEF Promise!OpenTarget
    <3> QED BY <1>2, <3>1, SameRecord
  <2>2. WorkerOpenTarget(t)
    BY <1>1, <1>2, <1>4, <2>1 DEF Promise!OpenTarget, WorkerOpenTarget
  <2> QED BY <2>2 DEF WorkerNext
<1>5. CASE Promise(t, n, s)!OpenSource
  <2>1. w = [worker[t] EXCEPT !.fds = "both"]
    BY <1>1, <1>2, <1>5 DEF Promise!OpenSource, WorkerState
  <2>2. WorkerOpenSource(t)
    BY <1>1, <1>2, <1>5, <2>1 DEF Promise!OpenSource, WorkerOpenSource
  <2> QED BY <2>2 DEF WorkerNext
<1>6. CASE Promise(t, n, s)!Beat
  <2>1. w = [worker[t] EXCEPT !.fresh = TRUE]
    BY <1>1, <1>2, <1>6 DEF Promise!Beat, WorkerState
  <2>2. WorkerBeat(t)
    BY <1>1, <1>2, <1>6, <2>1 DEF Promise!Beat, WorkerBeat
  <2> QED BY <2>2 DEF WorkerNext
<1>7. CASE Promise(t, n, s)!Fail
  <2>1. /\ w = [worker[t] EXCEPT !.fds = "none", !.fresh = w.fresh]
        /\ w.fresh \in {worker[t].fresh, TRUE}
    <3>1. /\ w.fds = "none" /\ w.src = worker[t].src
          /\ w.tgt = worker[t].tgt /\ w.phase = worker[t].phase
          /\ w.run = worker[t].run /\ w.fresh \in {worker[t].fresh, TRUE}
      BY <1>1, <1>2, <1>7 DEF Promise!Fail
    <3> QED BY <1>2, <3>1, SameRecord
  <2>2. WorkerFail(t)
    BY <1>1, <1>2, <1>7, <2>1 DEF Promise!Fail, WorkerFail
  <2> QED BY <2>2 DEF WorkerNext
<1>8. CASE Promise(t, n, s)!Exit \/ Promise(t, n, s)!Panic
  <2>1. w = Idle /\ worker[t].phase = "live"
    BY <1>1, <1>2, <1>8 DEF Promise!Exit, Promise!Panic, Promise!Ended
  <2>2. WorkerPanic(t)
    BY <1>1, <1>2, <2>1 DEF WorkerPanic
  <2> QED BY <2>2 DEF WorkerNext
<1>9. CASE Promise(t, n, s)!Age
  <2>1. w = [worker[t] EXCEPT !.fresh = FALSE] /\ worker[t].fresh
    BY <1>1, <1>2, <1>9 DEF Promise!Age, WorkerState
  <2>2. HeartbeatAges(t)
    BY <1>1, <1>2, <1>9, <2>1 DEF Promise!Age, HeartbeatAges
  <2> QED BY <2>2 DEF WorkerNext
<1> QED
  BY <1>3, <1>4, <1>5, <1>6, <1>7, <1>8, <1>9 DEF Promise!Work

(* And a thread in this model does and suffers only what the contract      *)
(* knows.                                                                  *)
LEMMA ContractStep ==
    ASSUME TInv, Next, NEW t \in Thread, NEW n \in Node, NEW s \in Slot,
           Alive(t, n, s)
    PROVE  [Promise(t, n, s)!Next]_(Promise(t, n, s)!vars) \/ ProcessGone
<1> DEFINE
      Same == worker'[t] = worker[t]
      Path == \E c \in Camera : node[c] = n
      Device == dev[s] # Free
<1>1. /\ worker[t] \in WorkerState /\ worker[t].phase # "done"
      /\ worker[t].src = n /\ worker[t].tgt = s
  BY DEF TInv, TypeOK, Alive
<1>2. ASSUME Same, node' = node, dev'[s] = dev[s]
      PROVE  UNCHANGED Promise(t, n, s)!vars
  BY <1>2 DEF Promise!vars, Promise!worker
<1>3. ASSUME NEW u \in Thread, u # t,
             \/ WorkerEnter(u) \/ WorkerOpenTarget(u) \/ WorkerOpenSource(u)
             \/ WorkerBeat(u) \/ WorkerFail(u) \/ WorkerExit(u)
             \/ WorkerPanic(u) \/ HeartbeatAges(u)
      PROVE  UNCHANGED Promise(t, n, s)!vars
  <2>1. Same
    BY <1>3 DEF WorkerEnter, WorkerOpenTarget, WorkerOpenSource, WorkerBeat,
         WorkerFail, WorkerExit, WorkerPanic, HeartbeatAges, TInv, TypeOK
  <2>2. UNCHANGED envVars
    BY <1>3 DEF WorkerEnter, WorkerOpenTarget, WorkerOpenSource, WorkerBeat,
         WorkerFail, WorkerExit, WorkerPanic, HeartbeatAges, WorkerOnly
  <2> QED BY <1>2, <2>1, <2>2 DEF envVars
<1>4. ASSUME \/ WorkerEnter(t) \/ WorkerOpenTarget(t) \/ WorkerOpenSource(t)
             \/ WorkerBeat(t) \/ WorkerFail(t) \/ WorkerExit(t)
             \/ WorkerPanic(t) \/ HeartbeatAges(t)
      PROVE  Promise(t, n, s)!Work
  <2> DEFINE Steady == /\ (\E c \in Camera : node[c] = n)' = (\E c \in Camera : node[c] = n)
                       /\ (dev[s] # Free)' = (dev[s] # Free)
  <2>1. UNCHANGED envVars /\ worker \in [Thread -> WorkerState]
    BY <1>4 DEF WorkerEnter, WorkerOpenTarget, WorkerOpenSource, WorkerBeat,
         WorkerFail, WorkerExit, WorkerPanic, HeartbeatAges, WorkerOnly,
         TInv, TypeOK
  <2>2. Steady
    BY <2>1 DEF envVars
  <2> HIDE DEF Steady
  <2>3. CASE WorkerEnter(t)
    <3>1. /\ worker'[t] = [worker[t] EXCEPT !.phase = "live", !.run = TRUE]
          /\ worker[t].phase = "spawned"
      BY <2>1, <2>3 DEF WorkerEnter
    <3>2. Promise(t, n, s)!Enter
      BY <1>1, <2>2, <3>1, ChangedRecord DEF Steady, Promise!Enter
    <3> QED BY <3>2 DEF Promise!Work
  <2>4. CASE WorkerOpenTarget(t)
    <3>1. worker'[t] = [worker[t] EXCEPT !.fds = "target", !.fresh = TRUE]
      BY <2>1, <2>4 DEF WorkerOpenTarget
    <3>2. /\ worker[t].phase = "live" /\ worker[t].run
          /\ worker[t].fds = "none" /\ dev[s] # Free
      BY <1>1, <2>4 DEF WorkerOpenTarget
    <3>3. Promise(t, n, s)!OpenTarget
      <4>1. /\ worker'[t].phase = worker[t].phase
            /\ worker'[t].run = worker[t].run
            /\ worker'[t].fds = "target" /\ worker'[t].fresh = TRUE
        BY <1>1, <3>1, ChangedRecord
      <4> QED BY <2>2, <3>2, <4>1 DEF Steady, Promise!OpenTarget
    <3> QED BY <3>3 DEF Promise!Work
  <2>5. CASE WorkerOpenSource(t)
    <3>1. /\ worker'[t] = [worker[t] EXCEPT !.fds = "both"]
          /\ worker[t].phase = "live" /\ worker[t].fds = "target"
          /\ \E c \in Camera : node[c] = n
      BY <1>1, <2>1, <2>5 DEF WorkerOpenSource
    <3>2. Promise(t, n, s)!OpenSource
      BY <1>1, <2>2, <3>1, ChangedRecord DEF Steady, Promise!OpenSource
    <3> QED BY <3>2 DEF Promise!Work
  <2>6. CASE WorkerBeat(t)
    <3>1. /\ worker'[t] = [worker[t] EXCEPT !.fresh = TRUE]
          /\ worker[t].phase = "live"
      BY <2>1, <2>6 DEF WorkerBeat
    <3>2. Promise(t, n, s)!Beat
      BY <1>1, <2>2, <3>1, ChangedRecord DEF Steady, Promise!Beat
    <3> QED BY <3>2 DEF Promise!Work
  <2>7. CASE WorkerFail(t)
    <3>1. PICK f \in {worker[t].fresh, TRUE} :
            worker'[t] = [worker[t] EXCEPT !.fds = "none", !.fresh = f]
      BY <2>1, <2>7 DEF WorkerFail
    <3>2. worker[t].phase = "live" /\ worker[t].fds # "none"
      BY <2>7 DEF WorkerFail
    <3>3. Promise(t, n, s)!Fail
      <4>1. /\ worker'[t].phase = worker[t].phase
            /\ worker'[t].run = worker[t].run
            /\ worker'[t].fds = "none" /\ worker'[t].fresh = f
        BY <1>1, <3>1, ChangedRecord
      <4>2. worker'[t].fresh \in {worker[t].fresh, TRUE}
        BY <4>1
      <4> QED BY <2>2, <3>2, <4>1, <4>2 DEF Steady, Promise!Fail
    <3> QED BY <3>3 DEF Promise!Work
  <2>8. CASE WorkerExit(t) \/ WorkerPanic(t)
    <3>1. worker'[t] = Idle /\ worker[t].phase = "live"
      BY <2>1, <2>8 DEF WorkerExit, WorkerPanic
    <3>2. /\ worker'[t].phase = "done" /\ worker'[t].fds = "none"
          /\ worker'[t].run \in BOOLEAN /\ worker'[t].fresh \in BOOLEAN
      BY <3>1 DEF Idle
    <3>3. Promise(t, n, s)!Panic
      BY <2>2, <3>1, <3>2 DEF Steady, Promise!Panic, Promise!Ended
    <3> QED BY <3>3 DEF Promise!Work
  <2>9. CASE HeartbeatAges(t)
    <3>1. /\ worker'[t] = [worker[t] EXCEPT !.fresh = FALSE]
          /\ worker[t].fresh
      BY <2>1, <2>9 DEF HeartbeatAges
    <3>2. Promise(t, n, s)!Age
      BY <1>1, <2>2, <3>1, ChangedRecord DEF Steady, Promise!Age
    <3> QED BY <3>2 DEF Promise!Work
  <2> QED BY <1>4, <2>3, <2>4, <2>5, <2>6, <2>7, <2>8, <2>9
<1>5. CASE WorkerNext
  <2>1. PICK u \in Thread :
           \/ WorkerEnter(u) \/ WorkerOpenTarget(u) \/ WorkerOpenSource(u)
           \/ WorkerBeat(u) \/ WorkerFail(u) \/ WorkerExit(u)
           \/ WorkerPanic(u) \/ HeartbeatAges(u)
    BY <1>5 DEF WorkerNext
  <2> QED BY <1>3, <1>4, <2>1 DEF Promise!Next
<1>6. ASSUME Same, \A d \in Slot : dev[d] # Free => dev'[d] # Free,
             node' = node
      PROVE  [Promise(t, n, s)!AddLoopback]_(Promise(t, n, s)!vars)
  <2>1. (\E c \in Camera : node[c] = n)' = (\E c \in Camera : node[c] = n)
    BY <1>6
  <2> QED BY <1>6, <2>1
       DEF Promise!AddLoopback, Promise!vars, Promise!worker
<1>7. ASSUME Same, ~ Busy(s), node' = node
      PROVE  \/ [Promise(t, n, s)!AddLoopback]_(Promise(t, n, s)!vars)
             \/ Promise(t, n, s)!RemoveLoopback
  <2>1. (\E c \in Camera : node[c] = n)' = (\E c \in Camera : node[c] = n)
    BY <1>7
  <2>2. worker[t].fds = "none"
    BY <1>1, <1>7 DEF Busy
  <2> QED BY <1>7, <2>1, <2>2
       DEF Promise!AddLoopback, Promise!RemoveLoopback, Promise!vars,
           Promise!worker
<1>8. CASE EnvNext
  <2>1. ASSUME NEW c \in Camera, Unplug(c)
        PROVE  [Promise(t, n, s)!Next]_(Promise(t, n, s)!vars)
    <3>1. Same /\ dev' = dev /\ node' = [node EXCEPT ![c] = None]
      BY <2>1 DEF Unplug
    <3>2. (\E d \in Camera : node[d] = n)' => \E d \in Camera : node[d] = n
      BY <3>1, NoneAssumption DEF TInv, TypeOK
    <3> QED BY <3>1, <3>2
         DEF Promise!Next, Promise!Unplug, Promise!vars, Promise!worker
  <2>2. ASSUME NEW c \in Camera, NEW m \in Node, Plug(c, m)
        PROVE  [Promise(t, n, s)!Next]_(Promise(t, n, s)!vars)
    <3>1. Same /\ dev' = dev /\ node' = [node EXCEPT ![c] = m] /\ node[c] = None
      BY <2>2 DEF Plug, Present
    <3>2. (\E d \in Camera : node[d] = n) => (\E d \in Camera : node[d] = n)'
      BY <3>1, NoneAssumption DEF TInv, TypeOK
    <3>3. CASE m = n
      <4>1. worker[t].fds # "both"
        BY <1>1, <2>2, <3>3 DEF Plug, HeldByWorkers
      <4> QED BY <3>1, <3>2, <4>1
           DEF Promise!Next, Promise!Plug, Promise!vars, Promise!worker
    <3>4. CASE m # n
      <4>1. (\E d \in Camera : node[d] = n)' => \E d \in Camera : node[d] = n
        BY <3>1, <3>4 DEF TInv, TypeOK
      <4> QED BY <3>1, <3>2, <4>1 DEF Promise!vars, Promise!worker
    <3> QED BY <3>3, <3>4
  <2>3. ASSUME NEW d \in Slot, AppOpen(d) \/ AppClose(d)
        PROVE  UNCHANGED Promise(t, n, s)!vars
    BY <1>2, <2>3 DEF AppOpen, AppClose
  <2>4. ASSUME NEW d \in Slot, NEW k \in OtherCard, ForeignCreate(d, k)
        PROVE  [Promise(t, n, s)!Next]_(Promise(t, n, s)!vars)
    <3>1. Same /\ node' = node /\ dev' = [dev EXCEPT ![d] = k]
      BY <2>4 DEF ForeignCreate
    <3>2. \A e \in Slot : dev[e] # Free => dev'[e] # Free
      BY <3>1, SupervisorAssumption DEF TInv, TypeOK
    <3> QED BY <1>6, <3>1, <3>2 DEF Promise!Next
  <2>5. ASSUME NEW d \in Slot, ExternalClean(d)
        PROVE  [Promise(t, n, s)!Next]_(Promise(t, n, s)!vars)
    <3>1. Same /\ node' = node /\ dev' = [dev EXCEPT ![d] = Free] /\ ~ Busy(d)
      BY <2>5 DEF ExternalClean
    <3>2. CASE d = s
      BY <1>7, <3>1, <3>2 DEF Promise!Next
    <3>3. CASE d # s
      BY <1>2, <3>1, <3>3 DEF TInv, TypeOK
    <3> QED BY <3>2, <3>3
  <2> QED BY <1>8, <2>1, <2>2, <2>3, <2>4, <2>5 DEF EnvNext
<1>9. ASSUME NEW c \in Camera, NEW why, BeginStop(c, why), UNCHANGED envVars
      PROVE  [Promise(t, n, s)!Stop]_(Promise(t, n, s)!vars)
  <2>1. node' = node /\ dev' = dev
    BY <1>9 DEF envVars
  <2>2. CASE managed[c].thread = t
    <3>1. worker'[t] = [worker[t] EXCEPT !.run = FALSE]
      BY <1>9, <2>2 DEF BeginStop, TInv, TypeOK
    <3>2. /\ worker'[t].phase = worker[t].phase /\ worker'[t].run = FALSE
          /\ worker'[t].fds = worker[t].fds
          /\ worker'[t].fresh = worker[t].fresh
      BY <1>1, <3>1, ChangedRecord
    <3>3. (\E d \in Camera : node[d] = n)' = (\E d \in Camera : node[d] = n)
      BY <2>1
    <3>4. (dev[s] # Free)' = (dev[s] # Free)
      BY <2>1
    <3>5. worker[t].run \in BOOLEAN
      BY <1>1 DEF WorkerState
    <3> QED BY <3>2, <3>3, <3>4, <3>5
         DEF Promise!Stop, Promise!vars, Promise!worker
  <2>3. CASE managed[c].thread # t
    <3>1. Same
      BY <1>9, <2>3 DEF BeginStop, TInv, TypeOK
    <3> QED BY <1>2, <2>1, <3>1
  <2> QED BY <2>2, <2>3
<1>10. CASE SupStep
  <2>1. CASE Remove
    <3>1. Same /\ node' = node /\ cur.slot \in Slot
      BY <2>1, NoneAssumption
         DEF Remove, TInv, TypeOK, CurOK, StopPc, Stopping
    <3>2. CASE Busy(cur.slot) \/ cur.slot # s
      <4>1. dev'[s] = dev[s]
        BY <2>1, <3>1, <3>2 DEF Remove, TInv, TypeOK
      <4> QED BY <1>2, <3>1, <4>1
    <3>3. CASE ~ Busy(cur.slot) /\ cur.slot = s
      BY <1>7, <3>1, <3>3 DEF Promise!Next
    <3> QED BY <3>2, <3>3
  <2>2. ASSUME NEW c \in Camera, Reap(c) \/ Sweep(c) \/ Restart(c) \/ Drain(c)
        PROVE  [Promise(t, n, s)!Next]_(Promise(t, n, s)!vars)
    <3>1. UNCHANGED envVars
      BY <2>2 DEF Reap, Sweep, Restart, Drain
    <3>2. \/ BeginStop(c, pc) \/ BeginStop(c, "sweep")
          \/ BeginStop(c, "restart") \/ BeginStop(c, "drain")
      BY <2>2 DEF Reap, Sweep, Restart, Drain
    <3> QED BY <1>9, <3>1, <3>2 DEF Promise!Next
  <2>3. ASSUME NEW c \in Camera, NEW d \in Slot, NEW u \in Thread,
               NEW new \in SUBSET Slot,
               StartOk(c, d, u, new) \/ StartFail(c, new)
        PROVE  [Promise(t, n, s)!Next]_(Promise(t, n, s)!vars)
    <3>1. Same
      <4>1. CASE StartOk(c, d, u, new)
        <5>1. u # t
          BY <1>1, <4>1 DEF StartOk, Idle
        <5> QED BY <4>1, <5>1 DEF StartOk, TInv, TypeOK
      <4>2. CASE StartFail(c, new)
        BY <4>2 DEF StartFail
      <4> QED BY <2>3, <4>1, <4>2
    <3>2. node' = node /\ dev' = Made(c, new)
      BY <2>3 DEF StartOk, StartFail, TurnDone
    <3>3. \A e \in Slot : dev[e] # Free => dev'[e] # Free
      BY <3>2, MadeDevices
    <3> QED BY <1>6, <3>1, <3>2, <3>3 DEF Promise!Next
  <2>4. ASSUME NEW c \in Camera, Keep(c) \/ Backoff(c)
        PROVE  UNCHANGED Promise(t, n, s)!vars
    <3>1. Same /\ node' = node /\ dev' = dev
      BY <2>4 DEF Keep, Backoff, TurnDone, envVars
    <3> QED BY <1>2, <3>1
  <2>5. CASE \/ Join \/ JoinTimeout \/ Release
             \/ \E q, r \in SUBSET Camera : BeginPass(q, r)
             \/ FindStale \/ \E others \in SUBSET Node : FindHolders(others)
             \/ \E missed \in SUBSET Camera :
                   Discover(missed) \/ FindUnplugged(missed)
             \/ BeginStarts \/ WriteSnapshot \/ BeginDrain
    <3>1. Same /\ node' = node /\ dev' = dev
      BY <2>5 DEF Join, JoinTimeout, Release, BeginPass, FindStale, FindHolders,
           Discover, FindUnplugged, BeginStarts, WriteSnapshot, BeginDrain,
           envVars
    <3> QED BY <1>2, <3>1
  <2>6. CASE Exit
    BY <2>6 DEF Exit
  <2> QED BY <1>10, <2>1, <2>2, <2>3, <2>4, <2>5, <2>6 DEF SupStep
<1>11. CASE Boot
  <2>1. Same /\ node' = node
    BY <1>11 DEF Boot
  <2>2. CASE Busy(s)
    <3>1. dev'[s] = dev[s]
      BY <1>11, <2>2 DEF Boot, TInv, TypeOK
    <3> QED BY <1>2, <2>1, <3>1
  <2>3. CASE ~ Busy(s)
    BY <1>7, <2>1, <2>3 DEF Promise!Next
  <2> QED BY <2>2, <2>3
<1>12. CASE SigInt \/ Crash
  <2>1. CASE SigInt
    BY <1>2, <2>1 DEF SigInt, envVars
  <2>2. CASE Crash
    BY <2>2 DEF Crash
  <2> QED BY <1>12, <2>1, <2>2
<1> QED BY <1>5, <1>8, <1>10, <1>11, <1>12 DEF Next

(* A worker keeps its contract until it has ended or the process has, and  *)
(* so do those around it: its loopback stays while it has it open, and its *)
(* node is not given to another camera while both are.                     *)
ContractKept ==
    [][\A t \in Thread, n \in Node, s \in Slot :
          Alive(t, n, s) =>
             [Promise(t, n, s)!Next]_(Promise(t, n, s)!vars) \/ ProcessGone]_vars

THEOREM WorkersKeepContract == Spec => ContractKept
<1>1. TInv /\ [Next]_vars =>
        [\A t \in Thread, n \in Node, s \in Slot :
            Alive(t, n, s) =>
              [Promise(t, n, s)!Next]_(Promise(t, n, s)!vars) \/ ProcessGone]_vars
  BY ContractStep
<1> QED BY <1>1, TInvAlways, PTL DEF Spec, ContractKept

-----------------------------------------------------------------------------
(* The breaker of a camera as BreakerView has it. *)
View(c) == INSTANCE BreakerView WITH b <- breaker[c]

(* Each step of the supervisor is one of BreakerView, or none, for each    *)
(* camera.                                                                 *)
LEMMA BreakerStep ==
    ASSUME TInv, [Next]_vars, NEW c \in Camera
    PROVE  [View(c)!Next]_(breaker[c])
<1>1. breaker[c] \in Breaker
  BY DEF TInv, TypeOK
<1>2. CASE UNCHANGED breaker
  BY <1>2
<1>3. ASSUME NEW q \in SUBSET Camera, NEW r \in SUBSET Camera, BeginPass(q, r)
      PROVE  View(c)!Expire
  <2>1. breaker'[c] = [breaker[c] EXCEPT !.quar = @ /\ c \notin q,
                                         !.retry = @ /\ c \notin r]
    BY <1>3 DEF BeginPass, Expire
  <2> QED BY <1>1, <2>1, Zenon DEF View!Expire, Breaker
<1>4. CASE Remove
  <2>1. cur \in Stopping
    BY <1>4 DEF Remove, TInv, TypeOK, CurOK, StopPc
  <2>2. CASE cur.cam = c
    <3>1. breaker'[c] = AfterStop(breaker[c], cur.why) /\ cur.why \in Reason
      BY <1>4, <2>1, <2>2 DEF Remove, TInv, TypeOK, Stopping
    <3> QED BY <3>1
           DEF AfterStop, Reason, View!Next, View!Fail, View!RecordFailure,
               View!Increment, RecordFailure, Increment, View!Succeed,
               View!Clean, Clean
  <2>3. CASE cur.cam # c
    BY <1>4, <2>1, <2>3 DEF Remove, TInv, TypeOK, Stopping
  <2> QED BY <2>2, <2>3
<1>5. ASSUME NEW d \in Camera, NEW s \in Slot, NEW t \in Thread,
             NEW new \in SUBSET Slot, StartOk(d, s, t, new)
      PROVE  [View(c)!Next]_(breaker[c])
  BY <1>5 DEF StartOk, TInv, TypeOK, View!Next, View!Succeed, View!Clean, Clean
<1>6. ASSUME NEW d \in Camera, NEW new \in SUBSET Slot, StartFail(d, new)
      PROVE  [View(c)!Next]_(breaker[c])
  BY <1>6 DEF StartFail, TInv, TypeOK, View!Next, View!Fail,
              View!RecordFailure, View!Increment, RecordFailure, Increment
<1>7. CASE Boot \/ ProcessGone
  BY <1>7 DEF Boot, ProcessGone, View!Next, View!Succeed, View!Clean, Clean
<1>8. ASSUME SupStep, ~ (\E q, r \in SUBSET Camera : BeginPass(q, r)),
             ~ Remove, ~ Exit,
             ~ (\E d \in Camera, new \in SUBSET Slot :
                  \/ StartFail(d, new)
                  \/ \E s \in Slot, t \in Thread : StartOk(d, s, t, new))
      PROVE  UNCHANGED breaker
  BY <1>8 DEF SupStep, Join, JoinTimeout, Release, FindStale, FindHolders,
       Discover, FindUnplugged, BeginStarts, WriteSnapshot, Reap, Sweep, Keep,
       Restart, Backoff, Drain, BeginDrain
<1>9. WorkerNext => UNCHANGED breaker
  BY DEF WorkerNext, WorkerEnter, WorkerOpenTarget, WorkerOpenSource, WorkerBeat,
       WorkerFail, WorkerExit, WorkerPanic, HeartbeatAges, WorkerOnly, supVars
<1>10. EnvNext => UNCHANGED breaker
  BY DEF EnvNext, Unplug, Plug, AppOpen, AppClose, ForeignCreate, ExternalClean,
       supVars
<1>11. SigInt => UNCHANGED breaker
  BY DEF SigInt
<1>12. UNCHANGED vars => UNCHANGED breaker
  BY DEF vars, supVars
<1> QED
  BY <1>2, <1>3, <1>4, <1>5, <1>6, <1>7, <1>8, <1>9, <1>10, <1>11, <1>12
     DEF Next, Exit, Crash, View!Next

(* Whatever way a pass takes, reaps, restarts and failed starts included,  *)
(* it moves the breaker of each camera by the steps of BreakerView, those  *)
(* that the instants of TimedBreaker are shown to make.                    *)
THEOREM BreakersFollowView ==
    ASSUME NEW c \in Camera
    PROVE  Spec => View(c)!Spec
<1>1. Init => View(c)!Init
  BY DEF Init, View!Init, View!Clean, Clean
<1>2. TInv /\ [Next]_vars => [View(c)!Next]_(breaker[c])
  BY BreakerStep
<1> QED BY <1>1, <1>2, TInvAlways, PTL DEF Spec, View!Spec

(* A pause or a quarantine has failures behind it that no start or clean   *)
(* stop has forgiven since: at least one, and max_failures of them.        *)
Earned(b) ==
    /\ b.retry \/ b.quar => b.fails > 0
    /\ b.quar => b.fails >= MaxFailures

(* A step of BreakerView neither arms a deadline without counting the      *)
(* failure nor takes back the count and leaves the deadline.               *)
LEMMA EarnedStep ==
    ASSUME NEW c \in Camera, breaker[c] \in Breaker, Earned(breaker[c]),
           [View(c)!Next]_(breaker[c])
    PROVE  Earned(breaker'[c])
<1>1. /\ breaker[c].fails \in 0..CountMax
      /\ MaxFailures \in Nat /\ CountMax \in Nat \ {0}
      /\ MaxFailures <= CountMax
  BY BreakerAssumption DEF Breaker
<1>2. CASE View(c)!Fail
  <2>1. breaker'[c] = [fails |-> Increment(breaker[c].fails),
                       quar |-> \/ breaker[c].quar
                                \/ Increment(breaker[c].fails) >= MaxFailures,
                       retry |-> TRUE]
    BY <1>2 DEF View!Fail, View!RecordFailure, View!Increment, Increment
  <2>2. /\ Increment(breaker[c].fails) > 0
        /\ breaker[c].fails >= MaxFailures =>
              Increment(breaker[c].fails) >= MaxFailures
    BY <1>1 DEF Increment
  <2> HIDE DEF Increment
  <2> QED BY <2>1, <2>2 DEF Earned
<1>3. CASE View(c)!Succeed
  BY <1>3 DEF View!Succeed, View!Clean, Earned
<1>4. CASE View(c)!Expire
  <2>1. breaker'[c].fails = breaker[c].fails
    BY <1>4 DEF View!Expire
  <2>2. /\ breaker'[c].quar => breaker[c].quar
        /\ breaker'[c].retry => breaker[c].retry
    BY <1>4 DEF View!Expire
  <2> QED BY <2>1, <2>2 DEF Earned
<1>5. CASE breaker'[c] = breaker[c]
  BY <1>5
<1> QED BY <1>2, <1>3, <1>4, <1>5 DEF View!Next

(* No camera is held back for failures it has not had: a quarantine takes  *)
(* max_failures of them since the camera last started or was last stopped  *)
(* in order, however reaps, restarts and failed starts are mixed, and also *)
(* when the counter has saturated.                                         *)
THEOREM QuarantineIsEarned ==
    ASSUME NEW c \in Camera
    PROVE  Spec => []Earned(breaker[c])
<1>1. Init => Earned(breaker[c])
  BY DEF Init, Clean, Earned
<1>2. TInv /\ Earned(breaker[c]) /\ [View(c)!Next]_(breaker[c]) => Earned(breaker[c])'
  BY EarnedStep DEF TInv, TypeOK
<1>3. View(c)!Spec => [][View(c)!Next]_(breaker[c])
  BY PTL DEF View!Spec
<1> QED BY <1>1, <1>2, <1>3, TInvAlways, BreakersFollowView, PTL DEF Spec
=============================================================================
