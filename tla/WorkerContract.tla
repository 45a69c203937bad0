---------------------------- MODULE WorkerContract ----------------------------
(***************************************************************************)
(* What a shim worker promises the supervisor: when its thread ends, which *)
(* devices it may hold open, and when its heartbeat is renewed.  The       *)
(* worker actions of Supervisor are these, one thread at a time;           *)
(* ShimWorker, which follows shim.rs, is shown to implement them.          *)
(***************************************************************************)

VARIABLES
    phase,      \* "spawned", "live" or "done"
    run,        \* the stop flag shared with the supervisor: TRUE = keep going
    fds,        \* "none", "target" or "both": the devices held open
    fresh,      \* the heartbeat is younger than stale_frame_timeout
    plugged,    \* the source path exists
    loopback    \* the target path exists

worker == <<phase, run, fds, fresh>>
vars == <<worker, plugged, loopback>>

Init ==
    /\ phase = "spawned" /\ run = TRUE /\ fds = "none" /\ fresh = TRUE
    /\ plugged \in BOOLEAN /\ loopback \in BOOLEAN

(* The environment.  A node number is not reused while a descriptor of it  *)
(* is open, and an open loopback cannot be removed.                        *)
Plug == ~plugged /\ fds # "both" /\ plugged' = TRUE /\ UNCHANGED <<worker, loopback>>
Unplug == plugged /\ plugged' = FALSE /\ UNCHANGED <<worker, loopback>>
AddLoopback == ~loopback /\ loopback' = TRUE /\ UNCHANGED <<worker, plugged>>
RemoveLoopback ==
    /\ loopback /\ fds = "none"
    /\ loopback' = FALSE /\ UNCHANGED <<worker, plugged>>

(* stop_managed *)
Stop == run /\ run' = FALSE /\ UNCHANGED <<phase, fds, fresh, plugged, loopback>>

Age == fresh /\ fresh' = FALSE /\ UNCHANGED <<phase, run, fds, plugged, loopback>>

(* The thread's first act raises the flag again, whatever it was. *)
Enter ==
    /\ phase = "spawned"
    /\ phase' = "live" /\ run' = TRUE
    /\ UNCHANGED <<fds, fresh, plugged, loopback>>

OpenTarget ==
    /\ phase = "live" /\ run /\ fds = "none" /\ loopback
    /\ fds' = "target" /\ fresh' = TRUE
    /\ UNCHANGED <<phase, run, plugged, loopback>>

OpenSource ==
    /\ phase = "live" /\ fds = "target" /\ plugged
    /\ fds' = "both"
    /\ UNCHANGED <<phase, run, fresh, plugged, loopback>>

Beat ==
    /\ phase = "live" /\ fresh' = TRUE
    /\ UNCHANGED <<phase, run, fds, plugged, loopback>>

Fail ==
    /\ phase = "live" /\ fds # "none"
    /\ fds' = "none" /\ fresh' \in {fresh, TRUE}
    /\ UNCHANGED <<phase, run, plugged, loopback>>

(* The flag and the heartbeat of a thread that has ended say nothing. *)
Ended ==
    /\ phase' = "done" /\ fds' = "none"
    /\ run' \in BOOLEAN /\ fresh' \in BOOLEAN
    /\ UNCHANGED <<plugged, loopback>>

(* An orderly end comes only after the flag was lowered. *)
Exit == phase = "live" /\ ~run /\ Ended

Panic == phase = "live" /\ Ended

Work ==
    \/ Age \/ Enter \/ OpenTarget \/ OpenSource \/ Beat \/ Fail \/ Exit \/ Panic

Next == Plug \/ Unplug \/ AddLoopback \/ RemoveLoopback \/ Stop \/ Work

Spec == Init /\ [][Next]_vars
=============================================================================
