----------------------------- MODULE TimedBreaker -----------------------------
(***************************************************************************)
(* SerialState of serve.rs with its clock: the delays in milliseconds, the *)
(* deadlines as instants, and the two readings of the clock a pass makes,  *)
(* `now` at its start and Instant::now() when a failure is recorded.       *)
(***************************************************************************)
EXTENDS Integers

CONSTANTS
    MaxFailures, CountMax,
    BackoffBase,    \* ServeConfig::backoff_base
    MaxBackoff,     \* ServeConfig::max_backoff
    QuarantineFor,  \* ServeConfig::quarantine_duration
    MaxClock        \* the instant a run of the model ends

ASSUME TimedAssumption ==
    /\ MaxFailures \in Nat /\ CountMax \in Nat \ {0} /\ MaxFailures <= CountMax
    /\ BackoffBase \in Nat /\ MaxBackoff \in Nat
    /\ QuarantineFor \in Nat /\ MaxClock \in Nat

VARIABLES
    clock,          \* Instant::now()
    snap,           \* `now` of the current pass
    fails,          \* consecutive_failures
    quarUntil,      \* quarantined_until, 0 for None
    retryAfter      \* retry_after, 0 for None

vars == <<clock, snap, fails, quarUntil, retryAfter>>

TypeOK ==
    /\ clock \in Nat /\ snap \in Nat /\ snap <= clock
    /\ fails \in 0..CountMax
    /\ quarUntil \in Nat /\ retryAfter \in Nat

Init ==
    /\ clock = 0 /\ snap = 0
    /\ fails = 0 /\ quarUntil = 0 /\ retryAfter = 0

Least(m, n) == IF m <= n THEN m ELSE n

(* 1 << exp, for exp at most 6 *)
Factor == <<1, 2, 4, 8, 16, 32, 64>>

Backoff(n) ==
    LET exp == Least(IF n = 0 THEN 0 ELSE n - 1, 6)
    IN  Least(BackoffBase * Factor[exp + 1], MaxBackoff)

IsQuarantined == snap < quarUntil
IsWaiting == snap < retryAfter

(* Mutant: the counter does not saturate. *)
MutantCounted == fails + 1

Counted == IF fails < CountMax THEN fails + 1 ELSE fails

Tick ==
    /\ clock < MaxClock /\ clock' = clock + 1
    /\ UNCHANGED <<snap, fails, quarUntil, retryAfter>>

BeginPass ==
    /\ snap' = clock
    /\ UNCHANGED <<clock, fails, quarUntil, retryAfter>>

(* Mutant: one failure too many is allowed. *)
MutantRecordFailure ==
    /\ snap < clock
    /\ fails' = Counted
    /\ retryAfter' = clock + Backoff(Counted)
    /\ quarUntil' = IF Counted > MaxFailures
                      THEN clock + QuarantineFor ELSE quarUntil
    /\ UNCHANGED <<clock, snap>>

(* A failure is recorded after the pass has taken `now`: a worker has been *)
(* joined, or a device created, in between.                                *)
RecordFailure ==
    /\ snap < clock
    /\ fails' = Counted
    /\ retryAfter' = clock + Backoff(Counted)
    /\ quarUntil' = IF Counted >= MaxFailures
                      THEN clock + QuarantineFor ELSE quarUntil
    /\ UNCHANGED <<clock, snap>>

RecordSuccess ==
    /\ fails' = 0 /\ quarUntil' = 0 /\ retryAfter' = 0
    /\ UNCHANGED <<clock, snap>>

Next == Tick \/ BeginPass \/ RecordFailure \/ RecordSuccess

Spec == Init /\ [][Next]_vars

-----------------------------------------------------------------------------
View == INSTANCE BreakerView WITH
    b <- [fails |-> fails, quar |-> IsQuarantined, retry |-> IsWaiting]

(* Within a pass deadlines are only armed, between passes they only        *)
(* expire, even with a delay of zero: the Booleans of SerialState are a    *)
(* faithful view of the instants, and a camera whose worker was reaped in  *)
(* a pass is never restarted in that pass.                                 *)
ImplementsView == View!Spec
=============================================================================
