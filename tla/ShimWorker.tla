------------------------------ MODULE ShimWorker ------------------------------
(***************************************************************************)
(* One shim worker, step by step: run_shim_until and the functions of      *)
(* shim.rs it calls, with the LoopbackOutput it feeds.  The camera, the    *)
(* loopback device and the supervisor's stop flag are the environment.     *)
(*                                                                         *)
(* A frame is its size in bytes, counted in small units: that is all the   *)
(* relay compares.  `faulty` stands for a kernel that refuses this or that *)
(* call; while it is FALSE a call fails for a visible reason.              *)
(***************************************************************************)
EXTENDS Negotiation

CONSTANTS
    Cameras,     \* the cameras an instance looks at, records of Negotiation
    Cap,         \* max_capture_width and max_capture_height
    Bytes,       \* sizeimage of each mode
    LoopbackMax, \* largest sizeimage v4l2loopback agrees to
    Polls,       \* timed-out polls that fit into CAPTURE_PRIME_MAX_WAIT
    Stale,       \* stale_frame_timeout, in ticks
    Panics,      \* may dropping a capture stream panic
    None

Modes == UNION {ModesOf(c) : c \in Cameras}
Fourccs == {m.fourcc : m \in Modes}

ASSUME ShimAssumption ==
    /\ Bytes \in [Modes -> Nat \ {0}] /\ LoopbackMax \in Nat \ {0}
    /\ Polls \in Nat /\ Stale \in Nat /\ Panics \in BOOLEAN
    /\ Cap \in Nat \X Nat /\ None \notin Modes

ASSUME CameraAssumption == \A c \in Cameras : IsCamera(c)

VARIABLES
    pc,         \* where the worker is
    run,        \* the shared Arc<AtomicBool>
    fds,        \* devices held open
    out,        \* state of the LoopbackOutput, or "closed"
    timed,      \* the capture stream has a timeout
    polls,      \* polls for the first frame so far
    fmt,        \* what configure_source has answered, until it is used
    target,     \* the mode the loopback was set up for
    frame,      \* the frame in hand, 0 when none
    sinceBeat,  \* age of the heartbeat in ticks, Stale + 1 at most
    sinceFrame, \* ticks since a frame was relayed, Stale + 1 at most
    plugged,    \* the source path exists
    flowing,    \* the camera delivers frames
    faulty,     \* the kernel may refuse a call
    loopback,   \* the target path exists
    camera,     \* what the camera can do
    answers,    \* what configure_source makes of it: a function of camera, in
                \* a variable that never changes for TLC to work it out once
    mode,       \* the camera's current format, which outlives a reopening
    steady      \* history: since the last attempt began the mode was chosen
                \* without a fault, and by nobody else

envVars == <<plugged, flowing, faulty, loopback>>
devVars == <<fds, out, timed, polls, fmt, target, frame>>
modeVars == <<camera, answers, mode, steady>>
vars == <<pc, run, devVars, modeVars, sinceBeat, sinceFrame, envVars>>

Opening == {"source", "format", "formatted"}
FirstFrame == {"first", "firstNext", "prime"}
Relaying == {"session", "next", "submit"}
Reopening == {"paused", "reopen", "reformat"}
Pc == {"spawned", "top", "done"} \cup Opening \cup FirstFrame \cup Relaying
        \cup Reopening

TypeOK ==
    /\ pc \in Pc /\ run \in BOOLEAN
    /\ fds \in {"none", "target", "both"}
    /\ out \in {"closed", "Unprimed", "Ready", "Streaming"}
    /\ timed \in BOOLEAN /\ polls \in 0..Polls
    /\ fmt \in Modes \cup {None} /\ target \in Modes \cup {None}
    /\ frame \in Nat
    /\ camera \in Cameras /\ mode \in ModesOf(camera) /\ steady \in BOOLEAN
    /\ answers \in [Fourccs \X BOOLEAN -> SUBSET ModesOf(camera)]
    /\ sinceBeat \in 0..Stale + 1 /\ sinceFrame \in 0..Stale + 1
    /\ plugged \in BOOLEAN /\ flowing \in BOOLEAN
    /\ faulty \in BOOLEAN /\ loopback \in BOOLEAN

Init ==
    /\ pc = "spawned" /\ run = TRUE
    /\ fds = "none" /\ out = "closed" /\ timed = FALSE /\ polls = 0
    /\ fmt = None /\ target = None /\ frame = 0
    /\ camera \in Cameras /\ mode \in ModesOf(camera) /\ steady = TRUE
    /\ answers = [n \in Fourccs \X BOOLEAN |-> Outcomes(camera, n[1], Cap, n[2])]
    /\ sinceBeat = 0 /\ sinceFrame = 0
    /\ plugged \in BOOLEAN /\ flowing \in BOOLEAN
    /\ faulty = FALSE /\ loopback \in BOOLEAN

-----------------------------------------------------------------------------
(* The environment *)

WorkerSame == UNCHANGED <<pc, run, devVars, sinceBeat, sinceFrame>>
ModeSame == UNCHANGED modeVars

Plug ==
    /\ ~plugged /\ fds # "both" /\ plugged' = TRUE
    /\ mode' \in ModesOf(camera)
    /\ WorkerSame /\ UNCHANGED <<flowing, faulty, loopback, camera, answers, steady>>

Unplug ==
    /\ plugged /\ plugged' = FALSE
    /\ WorkerSame /\ ModeSame /\ UNCHANGED <<flowing, faulty, loopback>>

ToggleFrames ==
    /\ flowing' = ~flowing
    /\ WorkerSame /\ ModeSame /\ UNCHANGED <<plugged, faulty, loopback>>

ToggleFaults ==
    /\ faulty' = ~faulty
    /\ WorkerSame /\ ModeSame /\ UNCHANGED <<plugged, flowing, loopback>>

AddLoopback ==
    /\ ~loopback /\ loopback' = TRUE
    /\ WorkerSame /\ ModeSame /\ UNCHANGED <<plugged, flowing, faulty>>

RemoveLoopback ==
    /\ loopback /\ fds = "none" /\ loopback' = FALSE
    /\ WorkerSame /\ ModeSame /\ UNCHANGED <<plugged, flowing, faulty>>

Stop ==
    /\ run /\ run' = FALSE
    /\ UNCHANGED <<pc, devVars, modeVars, sinceBeat, sinceFrame, envVars>>

Older(age) == IF age > Stale THEN age ELSE age + 1

Tick ==
    /\ sinceBeat' = Older(sinceBeat) /\ sinceFrame' = Older(sinceFrame)
    /\ UNCHANGED <<pc, run, devVars, modeVars, envVars>>

(* Another program picks a mode.  The driver refuses while the worker has  *)
(* buffers on the camera.                                                  *)
OthersSetMode ==
    /\ plugged /\ pc \notin FirstFrame \cup Relaying
    /\ mode' \in ModesOf(camera)
    /\ steady' = (fmt = None /\ target = None)
    /\ WorkerSame /\ UNCHANGED <<plugged, flowing, faulty, loopback, camera, answers>>

Environment ==
    \/ Plug \/ Unplug \/ ToggleFrames \/ ToggleFaults
    \/ AddLoopback \/ RemoveLoopback \/ Stop \/ Tick \/ OthersSetMode

-----------------------------------------------------------------------------
(* Building blocks of the worker's steps *)

Calm == UNCHANGED <<run, sinceFrame, envVars>>
Quiet == Calm /\ ModeSame
Touch == sinceBeat' = 0
NoTouch == sinceBeat' = sinceBeat

(* The kernel may fail a call on the camera: it is gone, or for no reason   *)
(* the worker can see.                                                     *)
CameraFails == ~plugged \/ faulty

Dropped ==
    /\ fds' = "none" /\ out' = "closed" /\ timed' = FALSE /\ polls' = 0
    /\ fmt' = None /\ target' = None /\ frame' = 0
    /\ steady' = TRUE /\ UNCHANGED <<camera, answers, mode>>

(* An error leaves run_shim_once; everything it had opened is dropped. *)
GiveUp == pc' = "top" /\ Dropped /\ Calm

Finish == pc' = "done" /\ Dropped /\ NoTouch /\ Calm

(* The frame sizes a call of CaptureStream::next can hand over. *)
Frames == IF faulty THEN 0..Bytes[mode] ELSE {Bytes[mode]}

(* The sizeimage v4l2loopback has agreed to. *)
LoopbackSize ==
    IF Bytes[target] < LoopbackMax THEN Bytes[target] ELSE LoopbackMax

(* configure_source, with the limits of the configuration. *)
Negotiated == answers[<<mode.fourcc, faulty>>]

-----------------------------------------------------------------------------
(* run_shim_until *)

Enter ==
    /\ pc = "spawned"
    /\ pc' = "top" /\ run' = TRUE
    /\ UNCHANGED <<devVars, modeVars, sinceBeat, sinceFrame, envVars>>

Leave == pc = "top" /\ ~run /\ Finish

(* run_shim_once up to the loopback's descriptor *)
Attempt ==
    /\ pc = "top" /\ run /\ loopback
    /\ pc' = "source" /\ fds' = "target" /\ Touch
    /\ UNCHANGED <<out, timed, polls, fmt, target, frame>> /\ Quiet

AttemptFails ==
    /\ pc = "top" /\ run /\ ~loopback
    /\ Touch /\ GiveUp

(* Open the node, or fail in all five attempts: it is not there, or it     *)
(* cannot be opened although it is.                                        *)
OpenSource ==
    /\ pc = "source" /\ plugged
    /\ pc' = "format" /\ fds' = "both" /\ NoTouch
    /\ UNCHANGED <<out, timed, polls, fmt, target, frame>> /\ Quiet

SourceFails ==
    /\ pc = "source" /\ CameraFails
    /\ NoTouch /\ GiveUp

(* configure_source *)
Negotiate ==
    /\ pc = "format" /\ run /\ plugged
    /\ \E m \in Negotiated : mode' = m /\ fmt' = m
    /\ steady' = ~faulty
    /\ pc' = "formatted" /\ Touch
    /\ UNCHANGED <<camera, answers, fds, out, timed, polls, target, frame>> /\ Calm

NegotiateFails ==
    /\ pc \in {"format", "reformat"}
    /\ \/ ~run /\ NoTouch
       \/ run /\ CameraFails /\ (Touch \/ NoTouch)
       \/ run /\ Negotiated = {} /\ Touch
    /\ GiveUp

StopFormatted == pc = "formatted" /\ ~run /\ Finish

(* configure_target, LoopbackOutput::open and open_capture_stream *)
OpenStreams ==
    /\ pc = "formatted" /\ run /\ plugged
    /\ target' = fmt /\ fmt' = None
    /\ out' = "Unprimed" /\ timed' = TRUE /\ polls' = 0
    /\ pc' = "first" /\ Touch
    /\ UNCHANGED <<fds, frame>> /\ Quiet

OpenStreamsFails ==
    /\ pc = "formatted" /\ run /\ CameraFails
    /\ Touch /\ GiveUp

-----------------------------------------------------------------------------
(* read_first_capture_frame and LoopbackOutput::prime *)

PollFirst ==
    /\ pc = "first" /\ run
    /\ pc' = "firstNext" /\ Touch
    /\ UNCHANGED devVars /\ Quiet

StopFirst == pc = "first" /\ ~run /\ NoTouch /\ GiveUp

FirstArrives ==
    /\ pc = "firstNext" /\ plugged /\ flowing
    /\ \E f \in Frames \ {0} : frame' = f
    /\ pc' = "prime" /\ NoTouch
    /\ UNCHANGED <<fds, out, timed, polls, fmt, target>> /\ Quiet

(* Mutant: the deadline is not looked at. *)
MutantFirstTimesOut ==
    /\ pc = "firstNext" /\ plugged /\ ~flowing
    /\ polls' = polls + 1 /\ pc' = "first" /\ NoTouch
    /\ UNCHANGED <<fds, out, timed, fmt, target, frame>> /\ Quiet

(* CAPTURE_PRIME_TIMEOUT: another poll, until the deadline has passed. *)
FirstTimesOut ==
    /\ pc = "firstNext" /\ plugged /\ ~flowing /\ polls < Polls
    /\ polls' = polls + 1 /\ pc' = "first" /\ NoTouch
    /\ UNCHANGED <<fds, out, timed, fmt, target, frame>> /\ Quiet

FirstFails ==
    /\ pc = "firstNext"
    /\ CameraFails \/ (~flowing /\ polls = Polls)
    /\ NoTouch /\ GiveUp

Accepted == frame # 0 /\ frame <= LoopbackSize

(* Mutant: the state is not advanced. *)
MutantPrime ==
    /\ pc = "prime" /\ out = "Unprimed" /\ Accepted
    /\ frame' = 0
    /\ pc' = "session" /\ Touch
    /\ UNCHANGED <<fds, out, timed, polls, fmt, target>> /\ Quiet

Prime ==
    /\ pc = "prime" /\ out = "Unprimed" /\ Accepted
    /\ out' = "Ready" /\ frame' = 0
    /\ pc' = "session" /\ Touch
    /\ UNCHANGED <<fds, timed, polls, fmt, target>> /\ Quiet

PrimeFails ==
    /\ pc = "prime"
    /\ out # "Unprimed" \/ ~Accepted \/ faulty
    /\ NoTouch /\ GiveUp

-----------------------------------------------------------------------------
(* run_capture_session and submit_loopback_frame *)

StopSession == pc = "session" /\ ~run /\ Finish

(* Mutant: the loop does not look at the flag. *)
MutantAwaitFrame ==
    /\ pc = "session"
    /\ pc' = "next" /\ NoTouch
    /\ UNCHANGED devVars /\ Quiet

AwaitFrame ==
    /\ pc = "session" /\ run
    /\ pc' = "next" /\ NoTouch
    /\ UNCHANGED devVars /\ Quiet

SessionError ==
    /\ pc' = "paused" /\ frame' = 0 /\ NoTouch
    /\ UNCHANGED <<fds, out, timed, polls, fmt, target>> /\ Quiet

FrameArrives ==
    /\ pc = "next" /\ plugged /\ flowing
    /\ \E f \in Frames \ {0} : frame' = f
    /\ pc' = "submit" /\ NoTouch
    /\ UNCHANGED <<fds, out, timed, polls, fmt, target>> /\ Quiet

(* The timeout set for the first frame is still that of the stream. *)
FrameFails ==
    /\ pc = "next"
    /\ CameraFails \/ (timed /\ ~flowing)
    /\ SessionError

Blocked == pc = "next" /\ ~timed /\ plugged /\ ~flowing /\ ~faulty

Submit ==
    /\ pc = "submit" /\ out \in {"Ready", "Streaming"} /\ Accepted
    /\ out' = "Streaming" /\ frame' = 0
    /\ pc' = "session" /\ Touch /\ sinceFrame' = 0
    /\ UNCHANGED <<run, fds, timed, polls, fmt, target, modeVars, envVars>>

(* OUTPUT_QUEUE_TIMEOUT: the frame is skipped and the session goes on. *)
SubmitSkipped ==
    /\ pc = "submit" /\ out \in {"Ready", "Streaming"} /\ frame # 0 /\ faulty
    /\ frame' = 0
    /\ pc' = "session" /\ Touch
    /\ UNCHANGED <<fds, out, timed, polls, fmt, target>> /\ Quiet

SubmitFails ==
    /\ pc = "submit"
    /\ out \notin {"Ready", "Streaming"} \/ ~Accepted \/ faulty
    /\ SessionError

-----------------------------------------------------------------------------
(* After a session error: a new capture stream, without a timeout, for the *)
(* output stream that is still there.                                      *)

StopPaused == pc = "paused" /\ ~run /\ Finish

Pause ==
    /\ pc = "paused" /\ run
    /\ pc' = "reopen" /\ NoTouch
    /\ UNCHANGED devVars /\ Quiet

Reopen ==
    /\ pc = "reopen" /\ plugged
    /\ pc' = "reformat" /\ NoTouch
    /\ UNCHANGED devVars /\ Quiet

(* Mutant: only the camera is given up, and looked for again. *)
MutantReopenFails ==
    /\ pc = "reopen" /\ CameraFails
    /\ pc' = "source" /\ fds' = "target" /\ NoTouch
    /\ UNCHANGED <<out, timed, polls, fmt, target, frame>> /\ Quiet

ReopenFails ==
    /\ pc = "reopen" /\ CameraFails
    /\ NoTouch /\ GiveUp

(* Mutant: the output stream is opened anew but not primed. *)
MutantRenegotiate ==
    /\ pc = "reformat" /\ run /\ plugged
    /\ mode' \in Negotiated /\ steady' = (steady /\ ~faulty)
    /\ timed' = FALSE /\ out' = "Unprimed"
    /\ pc' = "session" /\ Touch
    /\ UNCHANGED <<camera, answers, fds, polls, fmt, target, frame>> /\ Calm

(* Mutant: the limits are not those of the configuration. *)
MutantReopenUncapped ==
    /\ pc = "reformat" /\ run /\ plugged
    /\ mode' \in Outcomes(camera, mode.fourcc, <<4096, 4096>>, faulty) /\ steady' = (steady /\ ~faulty)
    /\ timed' = FALSE
    /\ pc' = "session" /\ Touch
    /\ UNCHANGED <<camera, answers, fds, out, polls, fmt, target, frame>> /\ Calm

(* What configure_source answers is dropped here, and the loopback keeps   *)
(* the mode it was set up for.                                             *)
Renegotiate ==
    /\ pc = "reformat" /\ run /\ plugged
    /\ mode' \in Negotiated /\ steady' = (steady /\ ~faulty)
    /\ timed' = FALSE
    /\ pc' = "session" /\ Touch
    /\ UNCHANGED <<camera, answers, fds, out, polls, fmt, target, frame>> /\ Calm

(* The v4l crate panics when a stream cannot be stopped while it is dropped. *)
Panic ==
    /\ Panics /\ faulty
    /\ pc \in FirstFrame \cup Relaying \cup {"paused"}
    /\ Finish

Step ==
    \/ Enter \/ Leave \/ Attempt \/ AttemptFails
    \/ OpenSource \/ SourceFails \/ Negotiate \/ NegotiateFails
    \/ StopFormatted \/ OpenStreams \/ OpenStreamsFails
    \/ PollFirst \/ StopFirst \/ FirstArrives \/ FirstTimesOut \/ FirstFails
    \/ Prime \/ PrimeFails
    \/ StopSession \/ AwaitFrame \/ FrameArrives \/ FrameFails
    \/ Submit \/ SubmitSkipped \/ SubmitFails
    \/ StopPaused \/ Pause \/ Reopen \/ ReopenFails \/ Renegotiate

Next == Step \/ Panic \/ Environment

Spec == Init /\ [][Next]_vars

(* The thread is scheduled, and time goes on.  Frames need not come.       *)
Fairness == WF_vars(Step) /\ WF_vars(Tick)

FairSpec == Spec /\ Fairness

-----------------------------------------------------------------------------
(* Properties *)

fresh == sinceBeat <= Stale

Contract == INSTANCE WorkerContract WITH
    phase <- IF pc \in {"spawned", "done"} THEN pc ELSE "live"

Output == INSTANCE LoopbackOutput

(* The supervisor's picture of a worker is right: this code opens, closes, *)
(* beats and ends only as WorkerContract lets it.                          *)
ImplementsContract == Contract!Spec

(* An output stream goes through Unprimed, Ready and Streaming in that     *)
(* order, across every retry and reopening of the camera.                  *)
ImplementsOutput == Output!Spec

(* prime and submit are never called in a state that require_state refuses. *)
OutputInOrder ==
    /\ pc = "prime" => out = "Unprimed"
    /\ pc = "submit" => out \in {"Ready", "Streaming"}

(* A worker told to stop ends, unless it waits for a frame on a stream     *)
(* that has no timeout.                                                    *)
StopHonoured == ~run /\ pc # "spawned" ~> pc = "done" \/ Blocked

(* Unless a call failed that would have succeeded, or somebody else set    *)
(* the camera's format, a session relays what the loopback was set up for, *)
(* however often the camera was opened again.                              *)
ModeIsSteady ==
    steady /\ pc \in FirstFrame \cup Relaying => mode = target

(* What the documentation says of the mode, for the cameras of which it    *)
(* holds: one that has a size within the cap in every pixel format is      *)
(* never asked for more than the cap, whatever calls fail; and unless a    *)
(* call fails for no reason it is used in the largest size there, in MJPEG *)
(* when that is to be had and is its only compressed format.  Another      *)
(* compressed format that it enumerates first, or uses already, takes      *)
(* precedence over MJPEG, and a format listed only in sizes above the cap  *)
(* is used above the cap: of those cameras nothing is claimed.             *)
ModeIsBest ==
    \A m \in {fmt, target} \ {None} :
        /\ Fits(camera, Cap) => WithinCap(m.size, Cap)
        /\ steady => Best(camera, m, Cap)

(* Once the camera stays in and delivers frames of a size the loopback was *)
(* set up for, frames flow again, whatever errors came before, unless the  *)
(* thread has ended.  The size can be wrong: after a session error the     *)
(* camera may settle on a larger mode, and configure_target is not called  *)
(* again for it.                                                           *)
FramesResume ==
    <>[](/\ plugged /\ flowing /\ loopback /\ run /\ ~faulty /\ pc # "done"
         /\ target = None \/ Bytes[mode] <= LoopbackSize)
        => []<>(sinceFrame = 0)

(* A worker that relays nothing for good shows it: its heartbeat gets old. *)
FramelessIsStale ==
    <>[](/\ pc # "done" /\ run /\ plugged /\ loopback /\ ~faulty
         /\ sinceFrame > Stale)
      => <>~fresh
=============================================================================
