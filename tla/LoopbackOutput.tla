---------------------------- MODULE LoopbackOutput ----------------------------
(***************************************************************************)
(* The life of one loopback output stream, as the diagram at the head of   *)
(* loopback_output.rs draws it: a stream is opened Unprimed, primed once,  *)
(* and then only fed.  "closed" is the time between two streams.           *)
(***************************************************************************)

VARIABLE out

OutState == {"closed", "Unprimed", "Ready", "Streaming"}

Init == out = "closed"

Open == out = "closed" /\ out' = "Unprimed"
Prime == out = "Unprimed" /\ out' = "Ready"
Submit == out \in {"Ready", "Streaming"} /\ out' = "Streaming"
Close == out # "closed" /\ out' = "closed"

Next == Open \/ Prime \/ Submit \/ Close

Spec == Init /\ [][Next]_out
=============================================================================
