------------------------------- MODULE Hotplug -------------------------------
(***************************************************************************)
(* From a camera that comes or goes to the pass that acts on it: the       *)
(* netlink monitor of hotplug.rs with its debounce, the channel to the     *)
(* supervisor, and of serve.rs the main loop, the settling discovery and   *)
(* the fallback poll.  What a pass does with the cameras it found is in    *)
(* module Supervisor; here it is only which cameras it knows.              *)
(***************************************************************************)
EXTENDS Integers, Sequences

CONSTANTS
    Camera,
    Debounce,    \* HOTPLUG_DEBOUNCE, in ticks
    SettleStep,  \* HOTPLUG_SETTLE_STEP
    SettleMax,   \* HOTPLUG_SETTLE_MAX
    QueueMax,    \* bound: events the netlink socket keeps
    NoteMax      \* bound: notes the channel keeps

ASSUME HotplugAssumption ==
    /\ Debounce \in Nat /\ SettleStep \in Nat /\ SettleMax \in Nat
    /\ Debounce <= SettleStep /\ Debounce <= SettleMax
    /\ QueueMax \in Nat /\ NoteMax \in Nat \ {0}

VARIABLES
    present,  \* cameras a scan reports
    coming,   \* plugged in, but not answering yet
    queue,    \* uevents in the socket
    mon,      \* where the monitor thread is
    window,   \* what is left of the debounce after the last note
    notes,    \* notes in the channel
    pc,       \* where the supervisor thread is
    active,   \* hotplug_active
    after,    \* after_hotplug of this pass
    list,     \* result of the last scan
    prev,     \* previous_serials: empty, or the one set
    pause,    \* what is left of the sleep between two scans
    left,     \* what is left until the settle deadline
    known,    \* cameras the supervisor acts for
    shutdown, \* the stop flag
    missed    \* history: no event tells of some change since the last scan

world == <<present, coming>>
monVars == <<queue, mon, window>>
supVars == <<pc, active, after, list, prev, pause, left, known>>
vars == <<world, monVars, notes, supVars, shutdown, missed>>

Kind == {"physical", "virtual"}
Alive == {"reap", "scan", "judge", "sleep", "sweep", "start", "wait"}

TypeOK ==
    /\ present \subseteq Camera /\ coming \subseteq Camera
    /\ queue \in Seq(Kind) /\ Len(queue) <= QueueMax
    /\ mon \in {"none", "opening", "poll", "drain", "dead"}
    /\ window \in 0..Debounce /\ notes \in 0..NoteMax
    /\ pc \in Alive \cup {"join", "ended", "failed"}
    /\ active \in BOOLEAN /\ after \in BOOLEAN
    /\ list \subseteq Camera /\ prev \subseteq SUBSET Camera
    /\ pause \in 0..SettleStep /\ left \in 0..SettleMax
    /\ known \subseteq Camera
    /\ shutdown \in BOOLEAN /\ missed \in BOOLEAN

(* run_supervisor has spawned the monitor, or not, and starts its first    *)
(* pass; last_notify lies a whole debounce back.                           *)
Init ==
    /\ present \in SUBSET Camera /\ coming = {}
    /\ queue = <<>> /\ window = 0 /\ notes = 0
    /\ mon \in {"none", "opening"} /\ active = (mon = "opening")
    /\ pc = "reap" /\ after = FALSE
    /\ list = {} /\ prev = {} /\ pause = 0 /\ left = 0 /\ known = {}
    /\ shutdown = FALSE /\ missed = FALSE

-----------------------------------------------------------------------------
(* Cameras, the kernel and the user *)

Listening == mon \in {"poll", "drain"}

Queued == Listening /\ Len(queue) < QueueMax /\ queue' = Append(queue, "physical")

(* The kernel tells whoever listens; an event is lost when the socket's    *)
(* buffer is full, with events the model leaves out too.                   *)
Announce ==
    \/ Queued /\ missed' = missed
    \/ missed' = TRUE /\ queue' = queue

Plug(c) ==
    /\ c \notin present \cup coming
    /\ \/ present' = present \cup {c} /\ coming' = coming
       \/ coming' = coming \cup {c} /\ present' = present
    /\ Announce
    /\ UNCHANGED <<mon, window, notes, supVars, shutdown>>

Unplug(c) ==
    /\ c \in present \cup coming
    /\ present' = present \ {c} /\ coming' = coming \ {c}
    /\ Announce
    /\ UNCHANGED <<mon, window, notes, supVars, shutdown>>

(* The driver is ready; no event says so. *)
ComesUp(c) ==
    /\ c \in coming
    /\ coming' = coming \ {c} /\ present' = present \cup {c}
    /\ missed' = TRUE
    /\ UNCHANGED <<monVars, notes, supVars, shutdown>>

SigInt ==
    /\ ~shutdown /\ shutdown' = TRUE
    /\ UNCHANGED <<world, monVars, notes, supVars, missed>>

(* Mutant: the difference of two instants is not kept from going negative. *)
MutantSooner(t) == t - 1

Sooner(t) == IF t = 0 THEN 0 ELSE t - 1

Tick ==
    /\ window' = Sooner(window) /\ pause' = Sooner(pause) /\ left' = Sooner(left)
    /\ UNCHANGED <<world, queue, mon, notes, pc, active, after, list, prev,
                   known, shutdown, missed>>

-----------------------------------------------------------------------------
(* The monitor thread: run_monitor *)

MonitorOnly == UNCHANGED <<world, supVars, shutdown, missed>>

OpenSocket ==
    /\ mon = "opening"
    /\ mon' \in {"poll", "dead"}
    /\ UNCHANGED <<queue, window, notes>> /\ MonitorOnly

Wake ==
    /\ mon = "poll" /\ ~shutdown /\ queue # <<>>
    /\ mon' = "drain"
    /\ UNCHANGED <<queue, window, notes>> /\ MonitorOnly

(* Nothing is left to read, or reading fails. *)
Drained ==
    /\ mon = "drain" /\ ~shutdown
    /\ mon' = "poll"
    /\ UNCHANGED <<queue, window, notes>> /\ MonitorOnly

(* Mutant: the flag is tested for each event only. *)
MutantQuit ==
    /\ mon = "drain" /\ shutdown
    /\ mon' = "dead"
    /\ UNCHANGED <<queue, window, notes>> /\ MonitorOnly

Quit ==
    /\ mon \in {"poll", "drain"} /\ shutdown
    /\ mon' = "dead"
    /\ UNCHANGED <<queue, window, notes>> /\ MonitorOnly

Reading == mon = "drain" /\ ~shutdown /\ queue # <<>>

ShouldReact(event) == event = "physical"

Ignore ==
    /\ Reading /\ ~ShouldReact(Head(queue))
    /\ queue' = Tail(queue)
    /\ UNCHANGED <<mon, window, notes>> /\ MonitorOnly

DropDebounced ==
    /\ Reading /\ ShouldReact(Head(queue)) /\ window > 0
    /\ queue' = Tail(queue)
    /\ UNCHANGED <<mon, window, notes>> /\ MonitorOnly

Notify ==
    /\ Reading /\ ShouldReact(Head(queue)) /\ window = 0 /\ notes < NoteMax
    /\ queue' = Tail(queue)
    /\ window' = Debounce /\ notes' = notes + 1
    /\ mon' = mon /\ MonitorOnly

Monitor ==
    \/ OpenSocket \/ Wake \/ Drained \/ Quit
    \/ Ignore \/ DropDebounced \/ Notify

-----------------------------------------------------------------------------
(* The supervisor thread: run_supervisor and reconcile *)

Alone == UNCHANGED <<world, mon, window, shutdown>>

(* Workers are reaped, the holders are looked up; then                     *)
(* discover_candidates_with_settle sets its deadline.                      *)
BeginDiscovery ==
    /\ pc = "reap" /\ pc' = "scan"
    /\ left' = (IF after THEN SettleMax ELSE 0) /\ prev' = {}
    /\ UNCHANGED <<queue, notes, active, after, list, pause, known, missed>>
    /\ Alone

Scan ==
    /\ pc = "scan" /\ pc' = "judge"
    /\ list' = present /\ missed' = FALSE
    /\ UNCHANGED <<queue, notes, active, after, prev, pause, left, known>>
    /\ Alone

(* An error from discovery ends run_supervisor, and the process. *)
ScanFails ==
    /\ pc = "scan" /\ pc' = "failed" /\ mon' = "none"
    /\ UNCHANGED <<world, queue, window, notes, active, after, list, prev,
                   pause, left, known, shutdown, missed>>

(* Mutant: one scan will do. *)
MutantSettled ==
    /\ pc = "judge"
    /\ pc' = "sweep"
    /\ UNCHANGED <<queue, notes, active, after, list, prev, pause, left,
                   known, missed>>
    /\ Alone

(* Two scans in a row agree, or none need agree. *)
Settled ==
    /\ pc = "judge" /\ (~after \/ prev = {list})
    /\ pc' = "sweep"
    /\ UNCHANGED <<queue, notes, active, after, list, prev, pause, left,
                   known, missed>>
    /\ Alone

Unsettled == pc = "judge" /\ after /\ prev # {list}

(* Mutant: there is no deadline. *)
MutantScanAgain ==
    /\ Unsettled
    /\ pc' = "sleep" /\ prev' = {list} /\ pause' = SettleStep
    /\ UNCHANGED <<queue, notes, active, after, list, left, known, missed>>
    /\ Alone

ScanAgain ==
    /\ Unsettled /\ left > 0
    /\ pc' = "sleep" /\ prev' = {list} /\ pause' = SettleStep
    /\ UNCHANGED <<queue, notes, active, after, list, left, known, missed>>
    /\ Alone

(* The deadline has passed.  If it passed during the first scan, events    *)
(* that came in meanwhile may have been debounced away.                    *)
Overtime ==
    /\ Unsettled /\ left = 0
    /\ pc' = "sweep" /\ prev' = {list}
    /\ missed' = (missed \/ prev = {})
    /\ UNCHANGED <<queue, notes, active, after, list, pause, left, known>>
    /\ Alone

SleepOver ==
    /\ pc = "sleep" /\ pause = 0
    /\ pc' = "scan"
    /\ UNCHANGED <<queue, notes, active, after, list, prev, pause, left,
                   known, missed>>
    /\ Alone

(* A camera that the scan missed but that is there is kept. *)
Sweep ==
    /\ pc = "sweep" /\ pc' = "start"
    /\ known' = known \cap (list \cup present)
    /\ UNCHANGED <<queue, notes, active, after, list, prev, pause, left, missed>>
    /\ Alone

(* The loopbacks made for new cameras are announced as well. *)
Start ==
    /\ pc = "start" /\ pc' = "wait"
    /\ known' = known \cup list
    /\ \/ queue' = queue
       \/ /\ ~(list \subseteq known) /\ Listening /\ Len(queue) < QueueMax
          /\ queue' = Append(queue, "virtual")
    /\ UNCHANGED <<notes, active, after, list, prev, pause, left, missed>>
    /\ Alone

Woken == pc' = IF shutdown THEN "join" ELSE "reap"

Receive ==
    /\ pc = "wait" /\ active /\ notes > 0
    /\ notes' = notes - 1 /\ after' = TRUE /\ Woken
    /\ UNCHANGED <<queue, active, list, prev, pause, left, known, missed>>
    /\ Alone

(* recv_timeout or sleep ends after poll_interval. *)
PollTimeout ==
    /\ pc = "wait" /\ (active => notes = 0 /\ mon # "dead")
    /\ after' = FALSE /\ Woken
    /\ UNCHANGED <<queue, notes, active, list, prev, pause, left, known, missed>>
    /\ Alone

(* Mutant: the loop keeps listening to a channel nobody sends on. *)
MutantDisconnected ==
    /\ pc = "wait" /\ active /\ notes = 0 /\ mon = "dead"
    /\ UNCHANGED <<pc, active, queue, notes, after, list, prev, pause, left,
                   known, missed>>
    /\ Alone

(* The monitor is gone: from now on the loop polls. *)
Disconnected ==
    /\ pc = "wait" /\ active /\ notes = 0 /\ mon = "dead"
    /\ active' = FALSE
    /\ pc' = IF shutdown THEN "join" ELSE "wait"
    /\ UNCHANGED <<queue, notes, after, list, prev, pause, left, known, missed>>
    /\ Alone

Join ==
    /\ pc = "join" /\ mon \in {"none", "dead"}
    /\ pc' = "ended"
    /\ UNCHANGED <<queue, notes, active, after, list, prev, pause, left,
                   known, missed>>
    /\ Alone

Supervise ==
    \/ BeginDiscovery \/ Scan \/ Settled \/ ScanAgain \/ Overtime \/ SleepOver
    \/ Sweep \/ Start \/ Receive \/ PollTimeout \/ Disconnected \/ Join

Next ==
    \/ \E c \in Camera : Plug(c) \/ Unplug(c) \/ ComesUp(c)
    \/ SigInt \/ Tick \/ Monitor \/ Supervise \/ ScanFails

Spec == Init /\ [][Next]_vars

(* Both threads are scheduled and time goes on. *)
Fairness ==
    /\ WF_vars(Supervise) /\ WF_vars(Tick)
    /\ WF_vars(OpenSocket \/ Wake \/ Quit \/ Ignore \/ DropDebounced \/ Notify)

FairSpec == Spec /\ Fairness

-----------------------------------------------------------------------------
(* Properties *)

Pending == notes > 0 \/ \E i \in DOMAIN queue : queue[i] = "physical"

(* While the loop waits, what it knows is what is there, unless an event   *)
(* or a note still says otherwise or no event ever did.  In particular the *)
(* debounce costs nothing: an event it drops falls into the time that the  *)
(* settling discovery of the pass before it waits out.                     *)
ChangeIsPending == pc = "wait" => known = present \/ Pending \/ missed

(* Whatever events were lost or debounced, and even when the monitor is    *)
(* dead, the fallback poll brings the supervisor up to date.               *)
EventuallyKnown ==
    \A S \in SUBSET Camera :
        <>[](present = S /\ ~shutdown /\ pc # "failed") => <>[](known = S)

(* Discovery ends, even when cameras keep coming and going. *)
DiscoveryEnds == pc \in {"scan", "judge", "sleep"} ~> pc \in {"sweep", "failed"}

(* Ctrl-C ends the loop, and the join of the monitor thread returns. *)
ShutdownEnds == shutdown ~> pc \in {"ended", "failed"}
=============================================================================
