------------------------- MODULE SupervisorLoopbacks -------------------------
(***************************************************************************)
(* Theorems about the loopback devices of Supervisor: those left in no     *)
(* record do not pile up and, where no name suits two cameras, each serves *)
(* one camera and those of strangers are left alone, but for the numbers   *)
(* another cam-shim's clean has vacated.                                   *)
(***************************************************************************)
EXTENDS SupervisorProofs

USE DEF Pc, StopPc, PassPc, DeadPc, Reason, Stopping, Job

(* What a step that neither starts, removes nor boots does to the devices: *)
(* other programs add theirs to free slots and `clean` frees ours, which   *)
(* is noted if serve remembers the number.                                 *)
DevicesLoose ==
    /\ raided \subseteq raided'
    /\ \A s \in Slot :
        \/ dev'[s] = dev[s]
        \/ dev[s] = Free /\ dev'[s] \in OtherCard
        \/ /\ dev[s] \in Card /\ dev'[s] = Free
           /\ s \in Remembered => s \in raided'

(* The steps that leave the map, and the camera being stopped, alone. *)
LEMMA Elsewhere ==
    ASSUME TInv, Next, ~(Remove \/ Exit \/ Boot \/ Crash),
           \A c \in Camera : ~(Reap(c) \/ Sweep(c) \/ Restart(c) \/ Drain(c)),
           \A c \in Camera, new \in SUBSET Slot :
              /\ ~StartFail(c, new)
              /\ \A s \in Slot, t \in Thread : ~StartOk(c, s, t, new)
    PROVE  /\ UNCHANGED managed /\ DevicesLoose
           /\ pc \in StopPc => pc' \in StopPc /\ cur' = cur
           /\ pc' \in StopPc => pc \in StopPc
<1> USE DEF TInv, TypeOK
<1>1. CASE EnvNext
  <2>1. UNCHANGED supVars
    BY <1>1 DEF EnvNext, Unplug, Plug, AppOpen, AppClose, ForeignCreate,
                ExternalClean
  <2>2. ASSUME NEW s \in Slot, NEW k \in OtherCard, ForeignCreate(s, k)
        PROVE  DevicesLoose
    BY <2>2 DEF ForeignCreate, DevicesLoose
  <2>3. ASSUME NEW s \in Slot, ExternalClean(s) PROVE DevicesLoose
    BY <2>3 DEF ExternalClean, DevicesLoose
  <2>4. ASSUME NEW s \in Slot, AppOpen(s) \/ AppClose(s) PROVE DevicesLoose
    BY <2>4 DEF AppOpen, AppClose, DevicesLoose
  <2>5. ASSUME NEW c \in Camera, Unplug(c) \/ \E n \in Node : Plug(c, n)
        PROVE  DevicesLoose
    BY <2>5 DEF Unplug, Plug, DevicesLoose
  <2>6. DevicesLoose
    BY <1>1, <2>2, <2>3, <2>4, <2>5 DEF EnvNext
  <2> QED BY <2>1, <2>6 DEF supVars
<1>2. CASE WorkerNext
  <2>1. UNCHANGED <<supVars, envVars>>
    BY <1>2 DEF WorkerNext, WorkerEnter, WorkerOpenTarget, WorkerOpenSource,
                WorkerBeat, WorkerFail, WorkerExit, WorkerPanic, HeartbeatAges,
                WorkerOnly
  <2> QED BY <2>1 DEF supVars, envVars, DevicesLoose
<1>3. CASE SigInt
  BY <1>3 DEF SigInt, envVars, DevicesLoose
<1>4. CASE SupStep
  <2>1. CASE Join \/ JoinTimeout \/ Release
    BY <2>1 DEF Join, JoinTimeout, Release, envVars, DevicesLoose
  <2>2. CASE FindStale \/ BeginStarts \/ WriteSnapshot \/ BeginDrain
    BY <2>2 DEF FindStale, BeginStarts, WriteSnapshot, BeginDrain, envVars,
                DevicesLoose
  <2>3. CASE \/ \E q, r \in SUBSET Camera : BeginPass(q, r)
             \/ \E others \in SUBSET Node : FindHolders(others)
    BY <2>3 DEF BeginPass, FindHolders, envVars, DevicesLoose
  <2>4. CASE \E missed \in SUBSET Camera :
                Discover(missed) \/ FindUnplugged(missed)
    BY <2>4 DEF Discover, FindUnplugged, envVars, DevicesLoose
  <2>5. CASE \E c \in Camera : Keep(c)
    BY <2>5 DEF Keep, envVars, DevicesLoose
  <2>6. CASE \E c \in Camera : Backoff(c)
    BY <2>6 DEF Backoff, Turn, TurnDone, DevicesLoose
  <2> QED
    BY <1>4, <2>1, <2>2, <2>3, <2>4, <2>5, <2>6 DEF SupStep
<1> QED BY <1>1, <1>2, <1>3, <1>4 DEF Next

(* The five calls of stop_managed, as far as map and devices go. *)
LEMMA StopMoves ==
    ASSUME TInv, NEW c \in Camera, Reap(c) \/ Sweep(c) \/ Restart(c) \/ Drain(c)
    PROVE  /\ Managed(c) /\ managed' = [managed EXCEPT ![c] = None]
           /\ cur'.slot = managed[c].slot /\ cur'.cam = c /\ pc' = "join"
           /\ UNCHANGED <<dev, raided>> /\ pc \notin StopPc
<1>1. PICK why \in Reason : BeginStop(c, why)
  BY DEF Reap, Sweep, Restart, Drain
<1>2. UNCHANGED <<dev, raided>> /\ pc \notin StopPc
  BY DEF Reap, Sweep, Restart, Drain, envVars
<1> QED BY <1>1, <1>2 DEF BeginStop

(* What one creation leaves behind: nothing where a device answers to the  *)
(* camera, else at most two devices of its name in slots that were free.   *)
LEMMA CreationMoves ==
    ASSUME TInv, NEW c \in Camera, NEW new \in Creatable(c)
    PROVE  /\ \A s \in new : dev[s] = Free /\ Made(c, new)[s] = CardOf[c]
           /\ \A s \in Slot \ new : Made(c, new)[s] = dev[s]
           /\ new # {} => \A s \in Slot : dev[s] \notin Answers[c]
           /\ \A s, t, u \in new : s = t \/ t = u \/ s = u
<1>1. new = {} \/ (Answering(c) = {} /\ \E a, b \in Named(Free) : new = {a, b})
  BY DEF Creatable
<1>2. new \subseteq Named(Free) /\ \A s, t, u \in new : s = t \/ t = u \/ s = u
  BY <1>1
<1> QED BY <1>1, <1>2 DEF Named, Answering, Made

(* What a start, successful or not, does to the map and the devices.       *)
LEMMA TurnMoves ==
    ASSUME TInv, NEW c \in Camera, NEW new \in SUBSET Slot,
           \/ StartFail(c, new)
           \/ \E s \in Slot, t \in Thread : StartOk(c, s, t, new)
    PROVE  /\ new \in Creatable(c) /\ dev' = Made(c, new)
           /\ raided' = raided /\ ~Managed(c)
           /\ \A d \in Camera \ {c} : managed'[d] = managed[d]
           /\ pc \notin StopPc /\ pc' = "start"
<1>1. ~Managed(c)
  BY TurnNode DEF StartFail, StartOk
<1>2. pc \in {"start", "create"}
  BY DEF StartFail, StartOk, Turn
<1> QED
  BY <1>1, <1>2 DEF StartFail, StartOk, TurnDone, TInv, TypeOK

LEMMA StartMoves ==
    ASSUME TInv, NEW c \in Camera, NEW s \in Slot, NEW t \in Thread,
           NEW new \in SUBSET Slot, StartOk(c, s, t, new)
    PROVE  /\ managed'[c] # None /\ managed'[c].slot = s
           /\ Suits(c, dev'[s])
<1>1. cand[c] \in Node
  BY TurnNode DEF StartOk
<1>2. [thread |-> t, node |-> cand[c], slot |-> s] \in Job
  BY <1>1
<1>3. managed'[c] # None /\ managed'[c].slot = s
  BY <1>2, NoneAssumption DEF StartOk, TInv, TypeOK
<1>4. Suits(c, dev'[s])
  <2>1. new \in Creatable(c) /\ dev' = Made(c, new)
    BY DEF StartOk
  <2>2. CASE Answering(c) # {}
    <3>1. dev[s] \in Answers[c] /\ new = {}
      BY <2>1, <2>2 DEF StartOk, Returnable, Answering, Creatable
    <3> QED BY <2>1, <3>1, CreationMoves DEF Suits
  <2>3. CASE Answering(c) = {}
    <3>1. s \in new
      BY <2>3 DEF StartOk, Returnable
    <3> QED BY <2>1, <3>1, CreationMoves DEF Suits
  <2> QED BY <2>2, <2>3
<1> QED BY <1>3, <1>4

-----------------------------------------------------------------------------
(* No step adds a device of a name there is one of already.                *)
LEMMA NoSecondStep ==
    ASSUME TInv, [Next]_vars, Recognised, NEW k \in Card, Named(k) # {}
    PROVE  Named(k)' \subseteq Named(k)
<1>0. Free \notin Card /\ \A l \in OtherCard : l # k
  BY SupervisorAssumption
<1>1. CASE \A s \in Slot : dev'[s] \in {dev[s], Free}
  BY <1>0, <1>1 DEF Named
<1>2. ASSUME NEW c \in Camera, NEW new \in SUBSET Slot,
             \/ StartFail(c, new)
             \/ \E s \in Slot, t \in Thread : StartOk(c, s, t, new)
      PROVE  Named(k)' \subseteq Named(k)
  <2>1. new \in Creatable(c) /\ dev' = Made(c, new)
    BY <1>2, TurnMoves
  <2>2. CASE CardOf[c] = k
    <3>1. \E s \in Slot : dev[s] \in Answers[c]
      BY <2>2 DEF Recognised, Named
    <3>2. new = {}
      BY <2>1, <3>1, CreationMoves
    <3> QED BY <2>1, <3>2, CreationMoves DEF Named
  <2>3. CASE CardOf[c] # k
    BY <2>1, <2>3, CreationMoves DEF Named
  <2> QED BY <2>2, <2>3
<1>3. CASE DevicesLoose
  BY <1>0, <1>3 DEF DevicesLoose, Named
<1>4. CASE Remove
  <2>1. cur.slot \in Slot
    BY <1>4 DEF Remove, TInv, TypeOK, CurOK
  <2> QED BY <1>1, <1>4, <2>1 DEF Remove, TInv, TypeOK
<1>5. CASE \E c \in Camera : Reap(c) \/ Sweep(c) \/ Restart(c) \/ Drain(c)
  BY <1>1, <1>5, StopMoves
<1>6. CASE Exit \/ Crash
  BY <1>1, <1>6 DEF Exit, Crash, ProcessGone, envVars
<1>7. CASE Boot
  BY <1>1, <1>7 DEF Boot
<1>8. CASE UNCHANGED vars
  BY <1>1, <1>8 DEF vars, envVars
<1> QED
  BY <1>2, <1>3, <1>4, <1>5, <1>6, <1>7, <1>8, Elsewhere

(* Whatever leaves a device in no record (a refused removal, a join that   *)
(* timed out, a creation that failed late, a crash), nothing ever makes    *)
(* another of its name beside it.                                          *)
THEOREM LeftoversAreReused == Spec => NoSecondOfAName
<1>1. TInv /\ [Next]_vars =>
        [Recognised =>
            \A k \in Card : Named(k) # {} => Named(k)' \subseteq Named(k)]_vars
  BY NoSecondStep
<1> QED BY <1>1, TInvAlways, PTL DEF Spec, NoSecondOfAName

LEMMA BoundedNext ==
    TInv /\ LeftoversAreBounded /\ [Next]_vars => LeftoversAreBounded'
<1> SUFFICES ASSUME TInv, LeftoversAreBounded, [Next]_vars, Recognised,
                    NEW k \in Card
             PROVE  \A s, t, u \in Named(k)' : s = t \/ t = u \/ s = u
  BY DEF LeftoversAreBounded, Recognised
<1>1. CASE Named(k) # {}
  <2>1. Named(k)' \subseteq Named(k)
    BY <1>1, NoSecondStep
  <2> QED BY <2>1 DEF LeftoversAreBounded
<1>2. CASE Named(k) = {}
  <2>0. Free \notin Card /\ k \notin OtherCard
    BY SupervisorAssumption
  <2>1. CASE \A s \in Slot : dev'[s] \in {dev[s], Free} \cup OtherCard
    <3>1. Named(k)' = {}
      BY <1>2, <2>0, <2>1 DEF Named
    <3> QED BY <3>1
  <2>2. ASSUME NEW c \in Camera, NEW new \in SUBSET Slot,
               \/ StartFail(c, new)
               \/ \E s \in Slot, t \in Thread : StartOk(c, s, t, new)
        PROVE  \A s, t, u \in Named(k)' : s = t \/ t = u \/ s = u
    <3>1. new \in Creatable(c) /\ dev' = Made(c, new)
      BY <2>2, TurnMoves
    <3>2. Named(k)' \subseteq new
      BY <1>2, <3>1, CreationMoves DEF Named
    <3> QED BY <3>1, <3>2, CreationMoves
  <2>3. CASE DevicesLoose
    BY <2>1, <2>3 DEF DevicesLoose
  <2>4. CASE Remove
    <3>1. cur.slot \in Slot
      BY <2>4 DEF Remove, TInv, TypeOK, CurOK
    <3> QED BY <2>1, <2>4, <3>1 DEF Remove, TInv, TypeOK
  <2>5. CASE \E c \in Camera : Reap(c) \/ Sweep(c) \/ Restart(c) \/ Drain(c)
    BY <2>1, <2>5, StopMoves
  <2>6. CASE Exit \/ Crash
    BY <2>1, <2>6 DEF Exit, Crash, ProcessGone, envVars
  <2>7. CASE Boot
    BY <2>1, <2>7 DEF Boot
  <2>8. CASE UNCHANGED vars
    BY <2>1, <2>8 DEF vars, envVars
  <2> QED
    BY <2>2, <2>3, <2>4, <2>5, <2>6, <2>7, <2>8, Elsewhere
<1> QED BY <1>1, <1>2

(* There are never more than two devices of one name, however often serve  *)
(* is restarted, fails to start a shim or is refused a removal.            *)
THEOREM AtMostTwoOfAName == Spec => []LeftoversAreBounded
<1>1. Init => LeftoversAreBounded
  <2>1. Free \notin Card
    BY SupervisorAssumption
  <2> QED BY <2>1 DEF Init, LeftoversAreBounded, Named
<1> QED
  BY <1>1, BoundedNext, TInvAlways, PTL DEF Spec

-----------------------------------------------------------------------------
(* Where no name suits two cameras, the device of a camera being stopped   *)
(* is still one that suits it, unless another clean took it away.          *)
SlotInv ==
    /\ \A c \in Camera :
          Managed(c) /\ managed[c].slot \notin raided
              => Suits(c, dev[managed[c].slot])
    /\ pc \in StopPc /\ cur.slot \notin raided => Suits(cur.cam, dev[cur.slot])

LEMMA SlotTypes ==
    ASSUME TInv
    PROVE  /\ \A c \in Camera : Managed(c) => managed[c].slot \in Slot
           /\ pc \in StopPc => /\ cur # None /\ cur.slot \in Slot
                               /\ cur.cam \in Camera /\ ~Managed(cur.cam)
           /\ \A c \in Camera : ~Suits(c, Free)
           /\ \A c \in Camera, k \in Card \cup OtherCard : k # Free
BY SupervisorAssumption DEF TInv, TypeOK, CurOK, Managed, Suits

(* What serve remembers and nobody cleaned away is one camera's only.      *)
LEMMA SlotApart ==
    ASSUME Apart, TInv, SlotInv, NEW c \in Camera, Managed(c),
           managed[c].slot \notin raided
    PROVE  /\ \A d \in Camera : Managed(d) /\ managed[d].slot = managed[c].slot
                                  => d = c
           /\ pc \in StopPc => cur.slot # managed[c].slot
<1>1. dev[managed[c].slot] \in Card \cup OtherCard
  BY SlotTypes DEF SlotInv, TInv, TypeOK
<1>2. \A d \in Camera : Suits(d, dev[managed[c].slot]) => d = c
  BY <1>1 DEF SlotInv, Apart
<1> QED BY <1>2, SlotTypes DEF SlotInv

LEMMA SlotInvNext == Apart /\ TInv /\ SlotInv /\ [Next]_vars => SlotInv'
<1> SUFFICES ASSUME Apart, TInv, SlotInv, [Next]_vars PROVE SlotInv'
  OBVIOUS
<1> USE SlotTypes
<1>1. CASE UNCHANGED vars
  BY <1>1 DEF vars, supVars, envVars, SlotInv, Managed, Suits
<1>2. CASE Remove
  <2>1. /\ pc \in StopPc /\ managed' = managed /\ pc' \notin StopPc
        /\ raided' = raided
        /\ \A s \in Slot \ {cur.slot} : dev'[s] = dev[s]
    BY <1>2 DEF Remove, TInv, TypeOK, CurOK
  <2>2. ASSUME NEW c \in Camera, Managed(c), managed[c].slot \notin raided
        PROVE  Suits(c, dev'[managed[c].slot])
    <3>1. managed[c].slot \in Slot /\ managed[c].slot # cur.slot
      BY <2>1, <2>2, SlotApart
    <3> QED BY <2>1, <2>2, <3>1 DEF SlotInv
  <2> QED BY <2>1, <2>2 DEF SlotInv, Managed, Suits
<1>3. ASSUME NEW c \in Camera, Reap(c) \/ Sweep(c) \/ Restart(c) \/ Drain(c)
      PROVE  SlotInv'
  BY <1>3, StopMoves DEF SlotInv, Managed, Suits, TInv, TypeOK
<1>4. ASSUME NEW c \in Camera, NEW new \in SUBSET Slot,
             \/ StartFail(c, new)
             \/ \E s \in Slot, t \in Thread : StartOk(c, s, t, new)
      PROVE  SlotInv'
  <2>1. /\ raided' = raided /\ ~Managed(c) /\ pc' \notin StopPc
        /\ new \in Creatable(c) /\ dev' = Made(c, new)
        /\ \A d \in Camera \ {c} : managed'[d] = managed[d]
    BY <1>4, TurnMoves
  <2>2. \A s \in Slot : dev[s] # Free => dev'[s] = dev[s]
    BY <2>1, CreationMoves
  <2>3. ASSUME NEW d \in Camera, managed'[d] # None,
               managed'[d].slot \notin raided
        PROVE  Suits(d, dev'[managed'[d].slot])
    <3>1. CASE d # c
      <4>1. managed'[d] = managed[d] /\ Suits(d, dev[managed[d].slot])
        BY <2>1, <2>3, <3>1 DEF SlotInv, Managed
      <4>2. managed[d].slot \in Slot /\ dev[managed[d].slot] # Free
        BY <2>3, <4>1 DEF Managed
      <4> QED BY <2>2, <4>1, <4>2
    <3>2. CASE d = c
      <4>1. CASE StartFail(c, new)
        BY <2>1, <2>3, <3>2, <4>1 DEF StartFail, Managed
      <4>2. ASSUME NEW s \in Slot, NEW t \in Thread, StartOk(c, s, t, new)
            PROVE  Suits(d, dev'[managed'[d].slot])
        BY <3>2, <4>2, StartMoves
      <4> QED BY <1>4, <4>1, <4>2
    <3> QED BY <3>1, <3>2
  <2> QED BY <2>1, <2>3 DEF SlotInv, Managed, Suits
<1>5. CASE Exit \/ Boot \/ Crash
  BY <1>5 DEF Exit, Boot, Crash, ProcessGone, SlotInv, Managed
<1>6. CASE /\ DevicesLoose /\ UNCHANGED managed
           /\ pc \in StopPc => pc' \in StopPc /\ cur' = cur
           /\ pc' \in StopPc => pc \in StopPc
  <2>1. ASSUME NEW s \in Slot, s \in Remembered, s \notin raided', dev[s] # Free
        PROVE  dev'[s] = dev[s] /\ s \notin raided
    BY <1>6, <2>1 DEF DevicesLoose
  <2>2. /\ \A c \in Camera : Managed(c) => managed[c].slot \in Remembered
        /\ pc \in StopPc => cur.slot \in Remembered
    BY DEF Remembered
  <2>3. ASSUME NEW c \in Camera, Managed(c), managed[c].slot \notin raided'
        PROVE  Suits(c, dev'[managed[c].slot])
    <3>1. managed[c].slot \notin raided
      BY <1>6, <2>3 DEF DevicesLoose
    <3>2. Suits(c, dev[managed[c].slot])
      BY <2>3, <3>1 DEF SlotInv
    <3>3. dev[managed[c].slot] # Free
      BY <3>2
    <3> QED BY <2>1, <2>2, <2>3, <3>2, <3>3
  <2>4. ASSUME pc \in StopPc, cur.slot \notin raided'
        PROVE  Suits(cur.cam, dev'[cur.slot])
    <3>1. cur.slot \notin raided
      BY <1>6, <2>4 DEF DevicesLoose
    <3>2. Suits(cur.cam, dev[cur.slot])
      BY <2>4, <3>1 DEF SlotInv
    <3>3. dev[cur.slot] # Free
      BY <2>4, <3>2
    <3> QED BY <2>1, <2>2, <2>4, <3>2, <3>3
  <2> QED BY <1>6, <2>3, <2>4 DEF SlotInv, Managed, Suits
<1> QED
  BY <1>1, <1>2, <1>3, <1>4, <1>5, <1>6, Elsewhere

LEMMA SlotInvAlways == Apart => (Spec => []SlotInv)
<1> SUFFICES ASSUME Apart PROVE Spec => []SlotInv
  OBVIOUS
<1>1. Init => SlotInv
  BY DEF Init, SlotInv, Managed
<1>2. TInv /\ SlotInv /\ [Next]_vars => SlotInv'
  BY SlotInvNext
<1> QED BY <1>1, <1>2, TInvAlways, PTL DEF Spec

(* A managed camera's loopback, made for it or adopted, is there and       *)
(* answers to it: no stop, restart or failed start of another camera takes *)
(* it away.  The condition on names is needed (cut labels and prefixes may *)
(* break it), and so is the exception for a clean from another shell.      *)
THEOREM ManagedHasLoopback == Spec => []ManagedLoopback
<1>1. CASE Apart
  <2>1. SlotInv => ManagedLoopback
    BY DEF SlotInv, ManagedLoopback
  <2> QED BY <1>1, <2>1, SlotInvAlways, PTL
<1>2. CASE ~Apart
  <2>1. ManagedLoopback
    BY <1>2 DEF ManagedLoopback
  <2> QED BY <2>1, PTL
<1> QED BY <1>1, <1>2

(* Two managed cameras share a loopback only if some name suits them both, *)
(* or after a clean from another shell took the first one's away.          *)
SharedOnlyByName ==
    Apart => \A c, d \in Camera :
                /\ c # d /\ Managed(c) /\ Managed(d)
                /\ managed[c].slot \notin raided
                => managed[c].slot # managed[d].slot

THEOREM NoSharedLoopback == Spec => []SharedOnlyByName
<1>1. CASE Apart
  <2>1. TInv /\ SlotInv => SharedOnlyByName
    BY <1>1, SlotApart DEF SharedOnlyByName
  <2> QED BY <1>1, <2>1, SlotInvAlways, TInvAlways, PTL
<1>2. CASE ~Apart
  <2>1. SharedOnlyByName
    BY <1>2 DEF SharedOnlyByName
  <2> QED BY <2>1, PTL
<1> QED BY <1>1, <1>2

(* A virtual camera whose name answers to none of the cameras is never     *)
(* removed, clean or no clean, unless it has taken a number that another   *)
(* clean vacated while serve still remembered it.                          *)
LEMMA StrangerStep ==
    ASSUME Apart, TInv, SlotInv, [Next]_vars, NEW s \in Slot \ raided,
           dev[s] \in OtherCard, \A c \in Camera : dev[s] \notin Answers[c]
    PROVE  dev'[s] = dev[s]
<1>0. /\ dev[s] \notin Card /\ dev[s] # Free
      /\ \A c \in Camera : ~Suits(c, dev[s])
  BY SupervisorAssumption DEF Suits
<1>1. CASE UNCHANGED vars
  BY <1>1 DEF vars, envVars
<1>2. CASE Remove
  <2>1. cur.slot \in Slot /\ cur.slot # s
    BY <1>0, <1>2, SlotTypes DEF Remove, SlotInv
  <2> QED BY <1>2, <2>1 DEF Remove, TInv, TypeOK
<1>3. CASE \E c \in Camera : Reap(c) \/ Sweep(c) \/ Restart(c) \/ Drain(c)
  BY <1>3, StopMoves
<1>4. ASSUME NEW c \in Camera, NEW new \in SUBSET Slot,
             \/ StartFail(c, new)
             \/ \E u \in Slot, t \in Thread : StartOk(c, u, t, new)
      PROVE  dev'[s] = dev[s]
  <2>1. new \in Creatable(c) /\ dev' = Made(c, new)
    BY <1>4, TurnMoves
  <2> QED BY <1>0, <2>1, CreationMoves
<1>5. CASE Exit \/ Crash
  BY <1>5 DEF Exit, Crash, ProcessGone, envVars
<1>6. CASE Boot
  BY <1>0, <1>6 DEF Boot
<1>7. CASE DevicesLoose
  BY <1>0, <1>7 DEF DevicesLoose
<1> QED
  BY <1>1, <1>2, <1>3, <1>4, <1>5, <1>6, <1>7, Elsewhere

THEOREM StrangersNeverTouched == Spec => StrangersUntouched
<1> DEFINE Step == Apart => \A s \in Slot \ raided :
                      /\ dev[s] \in OtherCard
                      /\ \A c \in Camera : dev[s] \notin Answers[c]
                      => dev'[s] = dev[s]
<1>1. CASE Apart
  <2>1. TInv /\ SlotInv /\ [Next]_vars => [Step]_vars
    BY StrangerStep
  <2> QED
    BY <1>1, <2>1, TInvAlways, SlotInvAlways, PTL DEF Spec, StrangersUntouched
<1>2. CASE ~Apart
  <2>1. [Next]_vars => [Step]_vars
    BY <1>2
  <2> QED BY <2>1, PTL DEF Spec, StrangersUntouched
<1> QED BY <1>1, <1>2
=============================================================================
