---------------------------- MODULE HotplugProofs ----------------------------
(* Proofs about Hotplug: no change is lost by the debounce. *)
EXTENDS Hotplug, SequenceTheorems, TLAPS

USE HotplugAssumption

HasPhysical == \E i \in DOMAIN queue : queue[i] = "physical"

(* Appending keeps the camera events that are there and adds the new one. *)
LEMMA AppendPhysical ==
    ASSUME TypeOK, NEW k \in Kind, queue' = Append(queue, k)
    PROVE  /\ queue' \in Seq(Kind)
           /\ Len(queue') = Len(queue) + 1
           /\ HasPhysical => HasPhysical'
           /\ k = "physical" => HasPhysical'
<1> DEFINE q == queue
<1>1. q \in Seq(Kind)
  BY DEF TypeOK
<1>2. queue' = Append(q, k)
  OBVIOUS
<1> HIDE DEF q
<1>3. queue' \in Seq(Kind) /\ Len(queue') = Len(q) + 1
  BY <1>1, <1>2
<1>4. ASSUME NEW i \in DOMAIN q, q[i] = "physical" PROVE HasPhysical'
  <2>1. i \in DOMAIN queue' /\ queue'[i] = q[i]
    BY <1>1, <1>2
  <2> QED
    BY <2>1, <1>4 DEF HasPhysical
<1>5. ASSUME k = "physical" PROVE HasPhysical'
  <2>1. Len(q) + 1 \in DOMAIN queue' /\ queue'[Len(q) + 1] = k
    BY <1>1, <1>2
  <2> QED
    BY <2>1, <1>5 DEF HasPhysical
<1>6. HasPhysical => \E i \in DOMAIN q : q[i] = "physical"
  BY DEF HasPhysical, q
<1> QED
  BY <1>3, <1>4, <1>5, <1>6 DEF q

(* Reading an event the monitor ignores leaves the camera events. *)
LEMMA TailPhysical ==
    ASSUME TypeOK, queue # <<>>, queue' = Tail(queue)
    PROVE  /\ queue' \in Seq(Kind)
           /\ Len(queue') = Len(queue) - 1
           /\ HasPhysical /\ Head(queue) # "physical" => HasPhysical'
<1> DEFINE q == queue
<1>1. q \in Seq(Kind) /\ q # <<>>
  BY DEF TypeOK
<1>2. queue' = Tail(q)
  OBVIOUS
<1> HIDE DEF q
<1>3. queue' \in Seq(Kind) /\ Len(queue') = Len(q) - 1
  BY <1>1, <1>2, HeadTailProperties
<1>4. ASSUME NEW i \in DOMAIN q, q[i] = "physical", Head(q) # "physical"
      PROVE  HasPhysical'
  <2>1. i # 1
    BY <1>1, <1>4
  <2>2. i \in 1..Len(q)
    BY <1>1, <1>4
  <2>3. i - 1 \in 1..Len(q) - 1
    BY <2>1, <2>2, <1>1
  <2>4. i - 1 \in DOMAIN queue' /\ queue'[i - 1] = q[i]
    BY <1>1, <1>2, <2>3
  <2> QED
    BY <2>4, <1>4 DEF HasPhysical
<1>5. HasPhysical => \E i \in DOMAIN q : q[i] = "physical"
  BY DEF HasPhysical, q
<1> QED
  BY <1>3, <1>4, <1>5 DEF q

-----------------------------------------------------------------------------
(* Type correctness *)

LEMMA InitType == Init => TypeOK
<1> SUFFICES ASSUME Init PROVE TypeOK
  OBVIOUS
<1>1. queue \in Seq(Kind) /\ Len(queue) <= QueueMax
  BY EmptySeq DEF Init
<1>2. active \in BOOLEAN
  BY Zenon DEF Init
<1>3. /\ after \in BOOLEAN /\ shutdown \in BOOLEAN /\ missed \in BOOLEAN
  BY DEF Init
<1> QED
  BY <1>1, <1>2, <1>3 DEF Init, TypeOK, Alive

LEMMA SoonerType ==
    ASSUME NEW n \in Nat, NEW t \in 0..n
    PROVE  Sooner(t) \in 0..n /\ Sooner(t) <= t
  BY DEF Sooner

LEMMA NextType == TypeOK /\ [Next]_vars => TypeOK'
<1> SUFFICES ASSUME TypeOK, [Next]_vars PROVE TypeOK'
  OBVIOUS
<1>1. ASSUME Announce PROVE queue' \in Seq(Kind) /\ Len(queue') <= QueueMax
                            /\ missed' \in BOOLEAN
  <2>1. CASE Queued
    <3>1. "physical" \in Kind
      BY DEF Kind
    <3> QED
      BY <1>1, <2>1, <3>1, AppendPhysical DEF Announce, Queued, TypeOK
  <2> QED
    BY <1>1, <2>1 DEF Announce, TypeOK
<1>2. CASE \E c \in Camera : Plug(c) \/ Unplug(c)
  BY <1>1, <1>2 DEF TypeOK, Plug, Unplug, supVars
<1>3. CASE \E c \in Camera : ComesUp(c)
  BY <1>3 DEF TypeOK, ComesUp, monVars, supVars
<1>4. CASE SigInt
  BY <1>4 DEF TypeOK, SigInt, world, monVars, supVars
<1>5. CASE Tick
  <2>1. window' \in 0..Debounce /\ pause' \in 0..SettleStep /\ left' \in 0..SettleMax
    BY <1>5, SoonerType DEF Tick, TypeOK
  <2> QED
    BY <1>5, <2>1 DEF TypeOK, Tick, world
<1>6. CASE OpenSocket \/ Wake \/ Drained \/ Quit
  BY <1>6 DEF TypeOK, OpenSocket, Wake, Drained, Quit, MonitorOnly, world, supVars
<1>7. CASE Ignore \/ DropDebounced \/ Notify
  <2>1. queue' \in Seq(Kind) /\ Len(queue') <= QueueMax
    BY <1>7, TailPhysical DEF Ignore, DropDebounced, Notify, Reading, TypeOK
  <2>2. window' \in 0..Debounce /\ notes' \in 0..NoteMax
    BY <1>7 DEF Ignore, DropDebounced, Notify, TypeOK
  <2> QED
    BY <1>7, <2>1, <2>2
    DEF TypeOK, Ignore, DropDebounced, Notify, MonitorOnly, world, supVars
<1>8. CASE BeginDiscovery
  <2>1. left' \in 0..SettleMax /\ prev' \subseteq SUBSET Camera
    BY <1>8 DEF BeginDiscovery, TypeOK
  <2> QED
    BY <1>8, <2>1 DEF TypeOK, Alive, BeginDiscovery, Alone, world
<1>14. CASE Scan
  <2>1. list' \subseteq Camera /\ missed' \in BOOLEAN
    BY <1>14 DEF Scan, TypeOK
  <2> QED
    BY <1>14, <2>1 DEF TypeOK, Alive, Scan, Alone, world
<1>15. CASE Settled \/ SleepOver
  BY <1>15 DEF TypeOK, Alive, Settled, SleepOver, Alone, world
<1>9. CASE ScanAgain \/ Overtime
  <2>1. missed' \in BOOLEAN
    BY <1>9, Zenon DEF ScanAgain, Overtime, TypeOK
  <2>2. prev' \subseteq SUBSET Camera
    BY <1>9, Zenon DEF ScanAgain, Overtime, TypeOK
  <2>3. pause' \in 0..SettleStep
    BY <1>9 DEF ScanAgain, Overtime, TypeOK
  <2> QED
    BY <1>9, <2>1, <2>2, <2>3
    DEF TypeOK, Alive, ScanAgain, Overtime, Unsettled, Alone, world
<1>12. CASE Receive \/ PollTimeout
  <2>1. notes' \in 0..NoteMax /\ pc' \in Alive \cup {"join", "ended", "failed"}
    BY <1>12 DEF Receive, PollTimeout, Woken, TypeOK, Alive
  <2>2. active' \in BOOLEAN /\ after' \in BOOLEAN
    BY <1>12 DEF Receive, PollTimeout, TypeOK
  <2> QED
    BY <1>12, <2>1, <2>2 DEF TypeOK, Receive, PollTimeout, Alone, world
<1>13. CASE Sweep \/ Disconnected \/ Join \/ ScanFails
  BY <1>13
  DEF TypeOK, Alive, Sweep, Disconnected, Join, ScanFails, Alone, world
<1>10. CASE Start
  <2>1. queue' \in Seq(Kind) /\ Len(queue') <= QueueMax
    <3>1. "virtual" \in Kind
      BY DEF Kind
    <3> QED
      BY <1>10, <3>1, AppendPhysical DEF Start, TypeOK
  <2> QED
    BY <1>10, <2>1 DEF TypeOK, Alive, Start, Alone, world
<1>11. CASE UNCHANGED vars
  BY <1>11 DEF TypeOK, vars, world, monVars, supVars
<1> QED
  BY <1>2, <1>3, <1>4, <1>5, <1>6, <1>7, <1>8, <1>9, <1>10, <1>11, <1>12, <1>13, <1>14,
     <1>15
  DEF Next, Monitor, Supervise

(* Every variable keeps its type: the clocks do not run below zero and the *)
(* queue and the channel keep to their bounds.                             *)
THEOREM TypeCorrect == Spec => []TypeOK
  BY InitType, NextType, PTL DEF Spec

-----------------------------------------------------------------------------
(* No change is lost by the debounce *)

Rescan == after /\ prev = {}

(* While events are being dropped, a scan is still to come. *)
WindowCovered ==
    pc \in Alive /\ window > 0 =>
        \/ notes > 0
        \/ pc = "reap" /\ after
        \/ pc \in {"scan", "judge"} /\ Rescan /\ window <= left
        \/ pc = "sleep" /\ window <= pause

Told == HasPhysical \/ notes > 0 \/ missed

(* What the pass goes by is what is there, or something says otherwise. *)
Informed ==
    /\ pc = "judge" => Rescan \/ list = present \/ Told
    /\ pc = "sweep" => list = present \/ Told
    /\ pc = "start" => (list = present /\ known \subseteq present) \/ Told
    /\ pc = "wait" => known = present \/ Told

IInv == TypeOK /\ WindowCovered /\ Informed

LEMMA InitIInv == Init => IInv
  BY InitType DEF Init, IInv, WindowCovered, Informed

(* A change in the world is told by an event, or goes down as missed. *)
LEMMA AnnounceTells ==
    ASSUME TypeOK, Announce
    PROVE  HasPhysical' \/ missed'
<1>1. CASE Queued
  BY <1>1, AppendPhysical DEF Queued, Kind
<1> QED
  BY <1>1 DEF Announce

LEMMA NextIInv == IInv /\ [Next]_vars => IInv'
<1> SUFFICES ASSUME IInv, [Next]_vars PROVE WindowCovered' /\ Informed'
  BY NextType DEF IInv
<1> USE DEF IInv
<1>1. CASE \E c \in Camera : Plug(c) \/ Unplug(c)
  <2>1. Told'
    BY <1>1, AnnounceTells DEF Plug, Unplug, Told
  <2>2. UNCHANGED <<window, notes, pc, after, list, prev, pause, left, known>>
    BY <1>1 DEF Plug, Unplug, supVars
  <2> QED
    BY <2>1, <2>2 DEF WindowCovered, Informed, Rescan
<1>2. CASE \E c \in Camera : ComesUp(c)
  BY <1>2 DEF ComesUp, WindowCovered, Informed, Rescan, Told, monVars, supVars
<1>3. CASE SigInt
  BY <1>3 DEF SigInt, WindowCovered, Informed, Rescan, Told, HasPhysical,
              world, monVars, supVars
<1>4. CASE Tick
  <2>1. Told' = Told
    BY <1>4 DEF Tick, Told, HasPhysical
  <2>2. Informed'
    BY <1>4, <2>1 DEF Tick, Informed, Rescan, world
  <2>3. window > 0 /\ window <= left => window' <= left'
    BY <1>4 DEF Tick, Sooner, TypeOK
  <2>4. window > 0 /\ window <= pause => window' <= pause'
    BY <1>4 DEF Tick, Sooner, TypeOK
  <2>5. window' > 0 => window > 0
    BY <1>4 DEF Tick, Sooner, TypeOK
  <2>6. WindowCovered'
    BY <1>4, <2>3, <2>4, <2>5 DEF Tick, WindowCovered, Rescan
  <2> QED
    BY <2>2, <2>6
<1>5. CASE OpenSocket \/ Wake \/ Drained \/ Quit
  BY <1>5 DEF OpenSocket, Wake, Drained, Quit, MonitorOnly, WindowCovered,
              Informed, Rescan, Told, HasPhysical, world, supVars
<1>6. CASE Ignore
  <2>1. HasPhysical => HasPhysical'
    BY <1>6, TailPhysical DEF Ignore, Reading, ShouldReact
  <2> QED
    BY <1>6, <2>1 DEF Ignore, MonitorOnly, WindowCovered, Informed, Rescan,
                      Told, world, supVars
<1>7. CASE DropDebounced
  <2>1. WindowCovered'
    BY <1>7 DEF DropDebounced, MonitorOnly, WindowCovered, Rescan, supVars
  <2>2. pc \in {"sweep", "start", "wait"} => notes > 0
    BY <1>7 DEF DropDebounced, WindowCovered, Alive
  <2>3. pc = "judge" => Rescan \/ notes > 0
    BY <1>7 DEF DropDebounced, WindowCovered, Alive
  <2> QED
    BY <1>7, <2>1, <2>2, <2>3
    DEF DropDebounced, MonitorOnly, Informed, Rescan, Told, world, supVars
<1>8. CASE Notify
  <2>1. notes' > 0
    BY <1>8 DEF Notify, TypeOK
  <2> QED
    BY <1>8, <2>1 DEF WindowCovered, Informed, Told
<1>9. CASE BeginDiscovery
  <2>1. after => window <= left'
    BY <1>9 DEF BeginDiscovery, TypeOK
  <2> QED
    BY <1>9, <2>1 DEF BeginDiscovery, Alone, WindowCovered, Informed, Rescan, Alive
<1>10. CASE Scan
  BY <1>10 DEF Scan, Alone, WindowCovered, Informed, Rescan, Alive, world
<1>11. CASE Settled
  <2>1. ~Rescan
    BY <1>11 DEF Settled, Rescan
  <2> QED
    BY <1>11, <2>1 DEF Settled, Alone, WindowCovered, Informed, Rescan, Told,
                       HasPhysical, Alive, world
<1>12. CASE ScanAgain
  <2>1. window <= pause'
    BY <1>12 DEF ScanAgain, Alone, TypeOK
  <2> QED
    BY <1>12, <2>1 DEF ScanAgain, Unsettled, Alone, WindowCovered, Informed, Alive
<1>13. CASE Overtime
  <2>1. window > 0 => notes > 0
    BY <1>13 DEF Overtime, Unsettled, WindowCovered, Alive, TypeOK
  <2>2. list = present \/ Told'
    BY <1>13 DEF Overtime, Unsettled, Informed, Rescan, Told, HasPhysical
  <2> QED
    BY <1>13, <2>1, <2>2 DEF Overtime, Alone, WindowCovered, Informed, Told, world
<1>14. CASE SleepOver
  <2>1. window > 0 => notes > 0
    BY <1>14 DEF SleepOver, WindowCovered, Alive, TypeOK
  <2> QED
    BY <1>14, <2>1 DEF SleepOver, Alone, WindowCovered, Informed
<1>15. CASE Sweep
  BY <1>15 DEF Sweep, Alone, WindowCovered, Informed, Told, HasPhysical, Alive, world
<1>16. CASE Start
  <2>1. HasPhysical => HasPhysical'
    <3>1. CASE queue' = queue
      BY <3>1 DEF HasPhysical
    <3> QED
      BY <1>16, <3>1, AppendPhysical DEF Start, Kind
  <2>2. Told => Told'
    BY <1>16, <2>1 DEF Start, Told
  <2> QED
    BY <1>16, <2>2 DEF Start, Alone, WindowCovered, Informed, Alive, world
<1>17. CASE Receive \/ PollTimeout
  <2>1. PollTimeout => window = 0 \/ notes > 0
    BY DEF PollTimeout, WindowCovered, Alive, TypeOK
  <2> QED
    BY <1>17, <2>1 DEF Receive, PollTimeout, Woken, Alone, WindowCovered,
                       Informed, Alive
<1>18. CASE Disconnected
  BY <1>18 DEF Disconnected, Alone, WindowCovered, Informed, Rescan, Told,
               HasPhysical, Alive, world
<1>19. CASE Join \/ ScanFails
  BY <1>19 DEF Join, ScanFails, WindowCovered, Informed, Alive
<1>20. CASE UNCHANGED vars
  BY <1>20 DEF vars, WindowCovered, Informed, Rescan, Told, HasPhysical,
               world, monVars, supVars
<1> QED
  BY <1>1, <1>2, <1>3, <1>4, <1>5, <1>6, <1>7, <1>8, <1>9, <1>10, <1>11,
     <1>12, <1>13, <1>14, <1>15, <1>16, <1>17, <1>18, <1>19, <1>20
  DEF Next, Monitor, Supervise

LEMMA IInvPending == IInv => ChangeIsPending
  BY DEF IInv, Informed, Told, HasPhysical, ChangeIsPending, Pending

(* A camera change that some event announced, and that the last pass did   *)
(* not see, still has an event or a note that will lead to a pass: the     *)
(* debounce of run_monitor loses nothing that the settling discovery does  *)
(* not make good, whatever the queue's length and the pace of both threads.*)
THEOREM NoChangeLost == Spec => []ChangeIsPending
  BY InitIInv, NextIInv, IInvPending, PTL DEF Spec
=============================================================================
