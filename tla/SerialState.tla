----------------------------- MODULE SerialState -----------------------------
(***************************************************************************)
(* The per-camera circuit breaker of serve.rs (struct SerialState).        *)
(*                                                                         *)
(* A deadline is kept as a Boolean: TRUE while it lies after the `now`     *)
(* that reconcile() took at the start of the current pass.  can_start()    *)
(* and is_quarantined() compare with that snapshot only, so within a pass  *)
(* a deadline can be armed but never expires; the passes of Supervisor     *)
(* decide which deadlines have expired.  TimedBreaker keeps the            *)
(* milliseconds and is shown to implement this view.                       *)
(***************************************************************************)
EXTENDS Integers

CONSTANTS
    MaxFailures,    \* ServeConfig::max_failures
    CountMax        \* where the counter saturates (u32::MAX in the code)

ASSUME BreakerAssumption ==
    /\ MaxFailures \in Nat
    /\ CountMax \in Nat \ {0}
    /\ MaxFailures <= CountMax

Breaker == [fails : 0..CountMax, quar : BOOLEAN, retry : BOOLEAN]

(* SerialState::default(), which is also what record_success() leaves. *)
Clean == [fails |-> 0, quar |-> FALSE, retry |-> FALSE]

(* Mutant: a plain addition. *)
MutantIncrement(n) == n + 1

(* saturating_add(1) *)
Increment(n) == IF n < CountMax THEN n + 1 ELSE n

(* Both deadlines are set from Instant::now(), hence after the snapshot.   *)
(* A quarantine that is still running is only ever extended.               *)
RecordFailure(b) ==
    [fails |-> Increment(b.fails),
     quar  |-> b.quar \/ Increment(b.fails) >= MaxFailures,
     retry |-> TRUE]

IsQuarantined(b) == b.quar

CanStart(b) == ~b.quar /\ ~b.retry

=============================================================================
