----------------------------- MODULE StatusProofs -----------------------------
(***************************************************************************)
(* The clocked breaker implements the Boolean view, for any delays, and    *)
(* what the status command shows is what its invariants say.               *)
(***************************************************************************)
EXTENDS Status, TLAPS

LEMMA BackoffType == \A n \in Nat : Backoff(n) \in Nat
<1> SUFFICES ASSUME NEW n \in Nat PROVE Backoff(n) \in Nat
  OBVIOUS
<1> DEFINE exp == Least(IF n = 0 THEN 0 ELSE n - 1, 6)
<1>1. exp \in 0..6
  BY DEF Least
<1> HIDE DEF exp
<1>2. Factor[exp + 1] \in Nat
  BY <1>1 DEF Factor
<1>3. BackoffBase * Factor[exp + 1] \in Nat
  BY <1>2, TimedAssumption
<1>4. Least(BackoffBase * Factor[exp + 1], MaxBackoff) \in Nat
  BY <1>3, TimedAssumption DEF Least
<1> QED BY <1>4 DEF Backoff, exp

LEMMA CountedType == TypeOK => Counted \in 0..CountMax
BY TimedAssumption DEF TypeOK, Counted

LEMMA TypeNext == TypeOK /\ [Next]_vars => TypeOK'
<1> SUFFICES ASSUME TypeOK, [Next]_vars PROVE TypeOK'
  OBVIOUS
<1>1. CASE Tick \/ BeginPass
  BY <1>1 DEF Tick, BeginPass, TypeOK
<1>2. CASE RecordFailure
  <2>1. Counted \in 0..CountMax /\ Counted \in Nat
    BY CountedType, TimedAssumption
  <2>2. Backoff(Counted) \in Nat
    BY <2>1, BackoffType
  <2> QED BY <1>2, <2>1, <2>2, TimedAssumption DEF RecordFailure, TypeOK
<1>3. CASE RecordSuccess
  BY <1>3, TimedAssumption DEF RecordSuccess, TypeOK
<1>4. CASE UNCHANGED vars
  BY <1>4 DEF vars, TypeOK
<1> QED BY <1>1, <1>2, <1>3, <1>4 DEF Next

LEMMA TypeAlways == Spec => []TypeOK
<1>1. Init => TypeOK
  BY TimedAssumption DEF Init, TypeOK
<1> QED BY <1>1, TypeNext, PTL DEF Spec

(* Whatever the configured delays, zero included, comparing instants with  *)
(* one snapshot of the clock per pass behaves as the Booleans of           *)
(* SerialState do.                                                         *)
THEOREM ViewImplemented == Spec => ImplementsView
<1>1. ASSUME Init PROVE View!Init
  <2>1. fails = 0 /\ IsQuarantined = FALSE /\ IsWaiting = FALSE
    BY <1>1 DEF Init, IsQuarantined, IsWaiting
  <2> QED BY <2>1 DEF View!Init, View!Clean
<1>2. ASSUME TypeOK, [Next]_vars
      PROVE  [View!Next]_[fails |-> fails, quar |-> IsQuarantined,
                          retry |-> IsWaiting]
  <2> USE DEF View!Next
  <2>1. CASE Tick \/ UNCHANGED vars
    BY <2>1 DEF Tick, vars, IsQuarantined, IsWaiting
  <2>2. CASE BeginPass
    <3>1. /\ IsQuarantined' \in BOOLEAN /\ IsWaiting' \in BOOLEAN
          /\ IsQuarantined' => IsQuarantined
          /\ IsWaiting' => IsWaiting
          /\ fails' = fails
      BY <1>2, <2>2 DEF BeginPass, IsQuarantined, IsWaiting, TypeOK
    <3>2. View!Expire
      BY <3>1 DEF View!Expire
    <3> QED BY <3>2
  <2>3. CASE RecordFailure
    <3>1. Counted \in Nat /\ Backoff(Counted) \in Nat
      BY <1>2, CountedType, BackoffType, TimedAssumption
    <3>2. /\ fails' = View!Increment(fails)
          /\ IsWaiting' = TRUE
          /\ IsQuarantined' = (IsQuarantined \/ View!Increment(fails) >= MaxFailures)
      BY <1>2, <2>3, <3>1, TimedAssumption
         DEF RecordFailure, Counted, View!Increment, IsQuarantined, IsWaiting, TypeOK
    <3>3. View!Fail
      BY <3>2 DEF View!Fail, View!RecordFailure
    <3> QED BY <3>3
  <2>4. CASE RecordSuccess
    <3>1. fails' = 0 /\ IsQuarantined' = FALSE /\ IsWaiting' = FALSE
      BY <1>2, <2>4 DEF RecordSuccess, IsQuarantined, IsWaiting, TypeOK
    <3>2. View!Succeed
      BY <3>1 DEF View!Succeed, View!Clean
    <3> QED BY <3>2
  <2> QED BY <1>2, <2>1, <2>2, <2>3, <2>4 DEF Next
<1> QED
  BY <1>1, <1>2, TypeAlways, PTL DEF Spec, ImplementsView, View!Spec

-----------------------------------------------------------------------------
(* The breaker inside the composition *)

LEMMA StatusStep == StatusNext => [Next]_vars
BY DEF StatusNext, Next, TimePasses, Begin, ReapDead, ReapStale, StartOne,
       StartFails, StopClean, StartNone, WriteState, Beat, WorkerEnds, Start,
       RemoveOld, Shutdown, Crash, SessionOver, LookForServe, ReadFile, BreakerSame

LEMMA StatusIsBreaker == StatusSpec => Spec
<1>1. StatusInit => Init
  BY DEF StatusInit
<1>2. [StatusNext]_statusVars => [Next]_vars
  BY StatusStep DEF statusVars, vars
<1> QED BY <1>1, <1>2, PTL DEF StatusSpec, Spec

(* The breaker of the camera that status shows is still that view.         *)
THEOREM StatusView == StatusSpec => ImplementsView
BY StatusIsBreaker, ViewImplemented, PTL

-----------------------------------------------------------------------------
(* The inductive invariant *)

(* A managed camera has no deadline pending: only a successful start makes *)
(* it managed, and whatever records a failure has dropped it.              *)
ManagedIsClean == worker # "none" => quarUntil = 0

(* What status may believe of a session that has come up. *)
Session ==
    /\ upSince => serve = "up" /\ writes
    /\ serve = "up" /\ writes /\ file # None => ~file.old

(* The heartbeat of a managed camera is as recent as a pass: the current   *)
(* one once it has reaped, the one before for a worker that ended between  *)
(* the two reaps.                                                          *)
Recent ==
    /\ last <= snap
    /\ worker = "alive" =>
         beat + StaleFrame >= IF pass \in {"dead", "stale"} THEN last ELSE snap
    /\ worker = "finished" /\ pass # "dead" => beat + StaleFrame >= last

Written ==
    file # None /\ file.managed =>
        ~file.quarantined /\ file.beat + StaleFrame >= file.last

StatusInv == StatusTypeOK /\ ManagedIsClean /\ Session /\ Recent /\ Written

LEMMA StatusInitially == StatusInit => StatusInv
<1> SUFFICES ASSUME StatusInit PROVE StatusInv
  OBVIOUS
<1>1. StatusTypeOK
  <2>1. TypeOK
    BY TimedAssumption DEF StatusInit, Init, TypeOK
  <2>2. /\ writes \in BOOLEAN /\ looked \in BOOLEAN
        /\ running \in BOOLEAN /\ upSince \in BOOLEAN
    BY Zenon DEF StatusInit
  <2>3. beat \in 0..clock /\ last \in 0..clock
    BY DEF StatusInit, Init
  <2>4. file \in Files \cup {None}
    BY Zenon DEF StatusInit
  <2> QED BY <2>1, <2>2, <2>3, <2>4 DEF StatusInit, StatusTypeOK
<1>2. ManagedIsClean /\ Session /\ Written
  BY DEF StatusInit, ManagedIsClean, Session, Written
<1>3. Recent
  BY DEF StatusInit, Init, Recent
<1> QED BY <1>1, <1>2, <1>3 DEF StatusInv

LEMMA StatusTypeNext == StatusTypeOK /\ [StatusNext]_statusVars => StatusTypeOK'
<1> SUFFICES ASSUME StatusTypeOK, [StatusNext]_statusVars PROVE StatusTypeOK'
  OBVIOUS
<1>1. TypeOK'
  BY StatusStep, TypeNext DEF StatusTypeOK, statusVars, vars
<1>2. clock' >= clock /\ clock \in Nat /\ clock' \in Nat
  <2>1. Next => clock' >= clock
    BY DEF StatusTypeOK, TypeOK, Next, Tick, BeginPass, RecordFailure, RecordSuccess
  <2> QED BY <1>1, <2>1, StatusStep DEF StatusTypeOK, TypeOK, statusVars, vars
<1> DEFINE Rest ==
      /\ serve' \in {"off", "starting", "up"} /\ writes' \in BOOLEAN
      /\ pass' \in {"idle", "dead", "stale", "start", "write"}
      /\ worker' \in {"none", "alive", "finished"}
      /\ beat' \in 0..clock' /\ last' \in 0..clock'
      /\ looked' \in BOOLEAN /\ running' \in BOOLEAN /\ upSince' \in BOOLEAN
<1>3. Rest
  <2> USE <1>2 DEF StatusTypeOK, TypeOK
  <2>1. CASE TimePasses \/ Beat \/ WorkerEnds \/ UNCHANGED statusVars
    BY <2>1 DEF TimePasses, Tick, Beat, WorkerEnds, BreakerSame, vars,
                workerVars, serveVars, readerVars, statusVars
  <2>2. CASE Begin
    BY <2>2 DEF Begin, BeginPass, workerVars, readerVars
  <2>3. CASE ReapDead \/ ReapStale
    BY <2>3 DEF ReapDead, ReapStale, Drop, RecordFailure, BreakerSame, vars,
                Proceed, workerVars, serveVars, readerVars
  <2>4. CASE StartOne \/ StartFails \/ StopClean \/ StartNone
    BY <2>4 DEF StartOne, StartFails, StopClean, StartNone, Drop, RecordFailure,
                RecordSuccess, BreakerSame, vars, Proceed, workerVars,
                serveVars, readerVars
  <2>5. CASE WriteState \/ Start \/ RemoveOld
    BY <2>5 DEF WriteState, Start, RemoveOld, BreakerSame, vars, workerVars,
                serveVars, readerVars
  <2>6. CASE Shutdown \/ Crash
    <3>1. SessionOver
      BY <2>6, Zenon DEF Shutdown, Crash
    <3>2. /\ serve' = "off" /\ last' = 0 /\ pass' = "idle"
          /\ worker' = "none" /\ beat' = 0
          /\ looked' = looked /\ running' = running
      BY <3>1 DEF SessionOver, Drop
    <3>3. writes' \in BOOLEAN /\ upSince' \in BOOLEAN
      BY <3>1, Zenon DEF SessionOver
    <3> QED BY <3>2, <3>3
  <2>7. CASE LookForServe
    <3>1. (serve # "off") \in BOOLEAN /\ (serve = "up" /\ writes) \in BOOLEAN
      OBVIOUS
    <3> QED BY <2>7, <3>1 DEF LookForServe, BreakerSame, vars, workerVars, serveVars
  <2>8. CASE ReadFile
    BY <2>8 DEF ReadFile, BreakerSame, vars, workerVars, serveVars
  <2> QED BY <2>1, <2>2, <2>3, <2>4, <2>5, <2>6, <2>7, <2>8 DEF StatusNext
<1>4. file' \in Files \cup {None}
  <2>1. CASE WriteState
    <3>1. /\ (worker # "none") \in BOOLEAN /\ IsQuarantined \in BOOLEAN
          /\ clock \in Nat /\ beat \in Nat /\ last \in Nat
      BY <1>2 DEF IsQuarantined, StatusTypeOK
    <3> QED BY <2>1, <3>1 DEF WriteState, Files, StatusTypeOK
  <2>2. CASE Crash
    <3>1. CASE file = None
      BY <2>2, <3>1 DEF Crash
    <3>2. CASE file \in Files
      <4>1. [file EXCEPT !.old = TRUE] \in Files
        BY <3>2 DEF Files
      <4> QED BY <2>2, <4>1 DEF Crash
    <3> QED BY <3>1, <3>2 DEF StatusTypeOK
  <2>3. CASE RemoveOld \/ Shutdown
    BY <2>3 DEF RemoveOld, Shutdown, StatusTypeOK
  <2>4. ASSUME ~WriteState, ~Crash, ~RemoveOld, ~Shutdown PROVE file' = file
    BY <2>4 DEF StatusNext, TimePasses, Begin, ReapDead, ReapStale, StartOne,
         StartFails, StopClean, StartNone, Beat, WorkerEnds, Start, LookForServe,
         ReadFile, Proceed, statusVars
  <2> QED BY <2>1, <2>2, <2>3, <2>4 DEF StatusTypeOK
<1> HIDE DEF Rest
<1> QED
  <2>1. TypeOK' /\ Rest /\ file' \in Files \cup {None}
    BY <1>1, <1>3, <1>4
  <2> QED BY <2>1 DEF StatusTypeOK, Rest, Files

(* Only WriteState writes a file, and only Crash makes it an old one.      *)
LEMMA FileNext ==
    ASSUME StatusTypeOK, [StatusNext]_statusVars
    PROVE  \/ file' = file \/ file' = None
           \/ WriteState /\ file'.old = FALSE /\ file'.last = last
              /\ file'.beat = beat /\ file'.managed = (worker # "none")
              /\ file'.quarantined = IsQuarantined
           \/ Crash /\ file # None /\ file'.managed = file.managed
              /\ file'.quarantined = file.quarantined
              /\ file'.beat = file.beat /\ file'.last = file.last
<1>1. CASE WriteState
  <2>1. CASE writes
    <3>1. file' = [updated |-> clock, managed |-> worker # "none", beat |-> beat,
                   quarantined |-> IsQuarantined, old |-> FALSE, last |-> last]
      BY <1>1, <2>1, Zenon DEF WriteState
    <3>2. /\ file'.old = FALSE /\ file'.last = last /\ file'.beat = beat
          /\ file'.managed = (worker # "none")
          /\ file'.quarantined = IsQuarantined
      BY <3>1, Zenon
    <3> QED BY <1>1, <3>2
  <2>2. CASE ~writes
    BY <1>1, <2>2, Zenon DEF WriteState
  <2> QED BY <2>1, <2>2
<1>2. CASE Crash
  <2>1. CASE file = None
    BY <1>2, <2>1, Zenon DEF Crash
  <2>2. CASE file # None
    <3>1. file' = [file EXCEPT !.old = TRUE] /\ file \in Files
      BY <1>2, <2>2, Zenon DEF Crash, StatusTypeOK
    <3>2. /\ file'.managed = file.managed /\ file'.quarantined = file.quarantined
          /\ file'.beat = file.beat /\ file'.last = file.last
      BY <3>1, Zenon DEF Files
    <3> QED BY <1>2, <2>2, <3>2
  <2> QED BY <2>1, <2>2
<1>3. CASE RemoveOld \/ Shutdown
  BY <1>3, Zenon DEF RemoveOld, Shutdown
<1>4. ASSUME ~WriteState, ~Crash, ~RemoveOld, ~Shutdown PROVE file' = file
  BY <1>4 DEF StatusNext, TimePasses, Begin, ReapDead, ReapStale, StartOne,
       StartFails, StopClean, StartNone, Beat, WorkerEnds, Start, LookForServe,
       ReadFile, Proceed, statusVars
<1> QED BY <1>1, <1>2, <1>3, <1>4

LEMMA StatusInvNext == StatusInv /\ [StatusNext]_statusVars => StatusInv'
<1> SUFFICES ASSUME StatusInv, [StatusNext]_statusVars PROVE StatusInv'
  OBVIOUS
<1>1. StatusTypeOK'
  BY StatusTypeNext DEF StatusInv
<1>2. ManagedIsClean'
  <2> USE DEF StatusInv, ManagedIsClean
  <2>1. CASE TimePasses \/ Begin \/ WriteState \/ Beat \/ WorkerEnds \/ Start
             \/ RemoveOld \/ LookForServe \/ ReadFile \/ UNCHANGED statusVars
    BY <2>1 DEF TimePasses, Tick, Begin, BeginPass, WriteState, Beat, WorkerEnds,
         Start, RemoveOld, LookForServe, ReadFile, BreakerSame, vars, workerVars,
         statusVars
  <2>2. CASE ReapDead \/ ReapStale
    BY <2>2 DEF ReapDead, ReapStale, Drop, BreakerSame, vars, workerVars
  <2>3. CASE StartOne \/ StartFails \/ StopClean \/ StartNone
    BY <2>3 DEF StartOne, StartFails, StopClean, StartNone, CanStart, Drop,
         RecordSuccess, BreakerSame, vars, workerVars
  <2>4. CASE Shutdown \/ Crash
    <3>1. SessionOver
      BY <2>4, Zenon DEF Shutdown, Crash
    <3> QED BY <3>1 DEF SessionOver, Drop
  <2> QED BY <2>1, <2>2, <2>3, <2>4 DEF StatusNext
<1>3. Session'
  <2> USE DEF StatusInv, Session
  <2>1. CASE Shutdown \/ Crash
    <3>1. SessionOver
      BY <2>1, Zenon DEF Shutdown, Crash
    <3> QED BY <3>1 DEF SessionOver
  <2>2. CASE WriteState
    BY <2>2, FileNext, Zenon DEF WriteState, Crash, SessionOver, serveVars, readerVars
  <2>3. CASE RemoveOld
    BY <2>3, Zenon DEF RemoveOld, readerVars
  <2>4. CASE LookForServe
    BY <2>4, Zenon DEF LookForServe, serveVars
  <2>5. CASE ReadFile
    BY <2>5, Zenon DEF ReadFile, serveVars
  <2>6. CASE Start
    BY <2>6, Zenon DEF Start, readerVars
  <2>7. CASE TimePasses \/ Begin \/ Beat \/ WorkerEnds \/ UNCHANGED statusVars
    <3>1. UNCHANGED <<serve, writes, file, upSince>>
      BY <2>7 DEF TimePasses, Begin, Beat, WorkerEnds, serveVars, readerVars, statusVars
    <3> QED BY <3>1
  <2>8. CASE ReapDead \/ ReapStale \/ StartOne \/ StartFails \/ StopClean \/ StartNone
    <3>1. UNCHANGED <<serve, writes, file, upSince>>
      BY <2>8 DEF ReapDead, ReapStale, StartOne, StartFails, StopClean,
           StartNone, Proceed, serveVars, readerVars
    <3> QED BY <3>1
  <2> QED BY <2>1, <2>2, <2>3, <2>4, <2>5, <2>6, <2>7, <2>8 DEF StatusNext
<1>4. Recent'
  <2> USE StatusAssumption DEF StatusInv, StatusTypeOK, TypeOK, Recent
  <2>1. CASE TimePasses \/ Start \/ RemoveOld \/ LookForServe \/ ReadFile
             \/ UNCHANGED statusVars
    <3>1. UNCHANGED <<snap, worker, beat, last, pass>>
      BY <2>1 DEF TimePasses, Tick, Start, RemoveOld, LookForServe, ReadFile,
           BreakerSame, vars, workerVars, serveVars, statusVars
    <3> QED BY <3>1
  <2>2. CASE Begin
    BY <2>2 DEF Begin, BeginPass, workerVars
  <2>3. CASE ReapDead
    BY <2>3 DEF ReapDead, Drop, RecordFailure, BreakerSame, vars, workerVars,
         Proceed, serveVars
  <2>4. CASE ReapStale
    BY <2>4 DEF ReapStale, IsStale, Drop, RecordFailure, BreakerSame, vars,
         workerVars, Proceed, serveVars
  <2>5. CASE StartOne
    BY <2>5 DEF StartOne, RecordSuccess, Proceed, serveVars
  <2>6. CASE StartFails \/ StopClean \/ StartNone
    BY <2>6 DEF StartFails, StopClean, StartNone, Drop, RecordFailure,
         RecordSuccess, BreakerSame, vars, workerVars, Proceed, serveVars
  <2>7. CASE WriteState \/ Beat \/ WorkerEnds
    BY <2>7 DEF WriteState, Beat, WorkerEnds, BreakerSame, vars, workerVars, serveVars
  <2>8. CASE Shutdown \/ Crash
    <3>1. SessionOver
      BY <2>8, Zenon DEF Shutdown, Crash
    <3> QED BY <3>1 DEF SessionOver, Drop, RecordSuccess
  <2> QED BY <2>1, <2>2, <2>3, <2>4, <2>5, <2>6, <2>7, <2>8 DEF StatusNext
<1>5. Written'
  <2>1. CASE file' = file \/ file' = None
    BY <2>1 DEF StatusInv, Written
  <2>2. CASE WriteState /\ file'.last = last /\ file'.beat = beat
             /\ file'.managed = (worker # "none")
             /\ file'.quarantined = IsQuarantined
    <3>1. worker # "none" => ~IsQuarantined
      BY DEF StatusInv, ManagedIsClean, IsQuarantined, StatusTypeOK, TypeOK
    <3>2. worker # "none" => beat + StaleFrame >= last
      BY <2>2, StatusAssumption DEF StatusInv, Recent, WriteState, StatusTypeOK, TypeOK
    <3> QED BY <2>2, <3>1, <3>2, Zenon DEF Written
  <2>3. CASE /\ file # None /\ file'.managed = file.managed
             /\ file'.quarantined = file.quarantined
             /\ file'.beat = file.beat /\ file'.last = file.last
    BY <2>3, Zenon DEF StatusInv, Written
  <2> QED BY <2>1, <2>2, <2>3, FileNext DEF StatusInv
<1> QED BY <1>1, <1>2, <1>3, <1>4, <1>5 DEF StatusInv

LEMMA StatusInvAlways == StatusSpec => []StatusInv
BY StatusInitially, StatusInvNext, PTL DEF StatusSpec

-----------------------------------------------------------------------------
(* Theorems *)

(* The variables keep their types, and no heartbeat is of the future.      *)
THEOREM StatusTypeCorrect == StatusSpec => []StatusTypeOK
<1>1. StatusInv => StatusTypeOK
  BY DEF StatusInv
<1> QED BY <1>1, StatusInvAlways, PTL

(* A camera that serve manages is never shown as quarantined.              *)
THEOREM NeverQuarantined == StatusSpec => []ManagedNotQuarantined
<1>1. StatusInv => ManagedNotQuarantined
  BY DEF StatusInv, Written, ManagedNotQuarantined, Shown
<1> QED BY <1>1, StatusInvAlways, PTL

(* No camera of a crashed session is shown as running once the next one,   *)
(* that writes the file, has come up.                                      *)
THEOREM ShownBelongs == StatusSpec => []ShownIsOfSession
<1>1. StatusInv => ShownIsOfSession
  BY DEF StatusInv, Session, ShownIsOfSession, Shown
<1> QED BY <1>1, StatusInvAlways, PTL

LEMMA QuotientAbove ==
    ASSUME NEW n \in Int, NEW d \in Nat \ {0}, NEW h \in Nat, n \div d > h
    PROVE  n >= (h + 1) * d
<1>1. n = d * (n \div d) + (n % d) /\ n % d >= 0 /\ n \div d \in Int
  OBVIOUS
<1> QED BY <1>1

(* "stale" is shown only when the supervisor's passes are late, for any    *)
(* timeouts.                                                               *)
THEOREM StaleIsLate == StatusSpec => []StaleMeansLate
<1>1. StatusInv => StaleMeansLate
  <2> SUFFICES ASSUME StatusInv, Shown = "stale"
               PROVE  clock - file.last >= (HeartbeatStale + 1) * Second - StaleFrame
    BY DEF StaleMeansLate
  <2>1. file # None /\ file.managed /\ HeartbeatIsStale
    BY DEF Shown
  <2>2. file.beat \in Nat /\ file.last \in Nat /\ clock \in Nat
    BY <2>1 DEF StatusInv, StatusTypeOK, TypeOK, Files
  <2>3. file.beat + StaleFrame >= file.last
    BY <2>1 DEF StatusInv, Written
  <2>4. clock - file.beat >= (HeartbeatStale + 1) * Second
    BY <2>1, <2>2, QuotientAbove, StatusAssumption DEF HeartbeatIsStale
  <2>5. (HeartbeatStale + 1) * Second \in Nat
    BY StatusAssumption
  <2> QED BY <2>2, <2>3, <2>4, <2>5, StatusAssumption
<1> QED BY <1>1, StatusInvAlways, PTL
=============================================================================
