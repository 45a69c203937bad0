------------------------------ MODULE BreakerView ------------------------------
(***************************************************************************)
(* The breaker of one camera as Supervisor uses it, as a machine of its    *)
(* own: failures count up, a success clears, deadlines expire between      *)
(* passes and never come back by themselves.                               *)
(***************************************************************************)
EXTENDS SerialState

VARIABLE b

Init == b = Clean

Fail == b' = RecordFailure(b)
Succeed == b' = Clean
Expire ==
    \E q, r \in BOOLEAN :
        /\ q => b.quar
        /\ r => b.retry
        /\ b' = [fails |-> b.fails, quar |-> q, retry |-> r]

Next == Fail \/ Succeed \/ Expire

Spec == Init /\ [][Next]_b
=============================================================================
