------------------------------ MODULE Supervisor ------------------------------
(***************************************************************************)
(* `cam-shim serve`: the supervisor loop of serve.rs, the shim workers it  *)
(* spawns, the loopback devices they write to, and what goes on around     *)
(* them: cameras plugged and unplugged, apps opening the virtual cameras,  *)
(* other programs adding and removing devices, SIGINT and process death.   *)
(*                                                                         *)
(* A worker is seen here only as the supervisor sees it (does its thread   *)
(* still run, which stop flag it reads, which devices it holds open, is    *)
(* its heartbeat fresh).  ShimWorker has its steps.                        *)
(***************************************************************************)
EXTENDS SerialState, FiniteSets

CONSTANTS
    Camera,      \* camera keys (USB serials)
    Node,        \* /dev/videoN numbers of physical capture nodes
    Slot,        \* /dev/videoN numbers of loopback devices
    Thread,      \* worker threads that may exist at once (a bound)
    Card,        \* device names cam-shim gives, and takes for its own
    OtherCard,   \* device names of other programs' loopbacks
    CardOf,      \* camera -> name given, kernel_card_label of its label
    Answers,     \* camera -> names find_loopback_by_label takes for its own
    NeedsShim,   \* cameras whose probe says needs_shim
    Disturbances,\* which of the disturbances below an instance admits
    None, Free

(* kernel_card_label cuts a long label short, so cameras with labels of    *)
(* their own may share a card name; find_loopback_by_label compares        *)
(* prefixes, so a camera's loopback may be one another program made.       *)

(* What an instance may admit besides plugging, unplugging and signals.    *)
AllDisturbances ==
    {"late_entry",  \* a spawned thread is not scheduled for a while
     "stall",       \* a worker's loop blocks past --stale-frame-secs
     "panic",       \* a worker thread panics
     "create",      \* a way of creating a loopback fails, early or late
     "probe",       \* probing a camera that is present fails
     "crash",       \* serve dies: SIGTERM, SIGKILL, an error passed up by ?
     "clean",       \* somebody runs `cam-shim clean`
     "foreign",     \* another program adds a v4l2loopback device
     "hold"}        \* another cam-shim process holds a camera node open

ASSUME SupervisorAssumption ==
    /\ NeedsShim \subseteq Camera
    /\ CardOf \in [Camera -> Card]
    /\ Answers \in [Camera -> SUBSET (Card \cup OtherCard)]
    /\ Disturbances \subseteq AllDisturbances
    /\ Free \notin Card \cup OtherCard /\ Card \cap OtherCard = {}

VARIABLES
    pc,         \* where the supervisor is in run_supervisor / reconcile
    shutdown,   \* the flag the Ctrl-C handler sets
    todo,       \* cameras the current loop of reconcile has yet to visit
    cur,        \* the camera stop_managed is working on, or None
    skip,       \* nodes held by cam-shim processes when /proc was read
    cand,       \* discovered candidates: camera -> source path or None
    managed,    \* the HashMap of ManagedCamera, None where absent
    breaker,    \* serial_states
    stateFile,  \* /run/cam-shim/state.json: None or the snapshot
    worker,     \* the worker threads
    node,       \* camera -> node it is plugged in at, or None
    dev,        \* loopback slot -> card name of the device, or Free
    app,        \* slot -> is an application holding the device open
    raided      \* history: slots whose device another cam-shim removed
                \* while this serve had it in its records

supVars == <<pc, shutdown, todo, cur, skip, cand, managed, breaker, stateFile>>
envVars == <<node, dev, app, raided>>
vars == <<supVars, worker, envVars>>

-----------------------------------------------------------------------------
(* State *)

Job == [thread : Thread, node : Node, slot : Slot]
Reason == {"dead", "stale", "sweep", "restart", "drain"}
Stopping == [cam : Camera, thread : Thread, slot : Slot, why : Reason]
Snapshot == [managed : SUBSET Camera, quarantined : SUBSET Camera]

ASSUME NoneAssumption ==
    /\ None \notin Node /\ None \notin Slot
    /\ None \notin Job /\ None \notin Stopping

(* run is the Arc<AtomicBool> shared with the supervisor, src and tgt the  *)
(* two paths, fds which of them are open, fresh that the heartbeat is      *)
(* younger than stale_frame_timeout.                                       *)
WorkerState == [phase : {"done", "spawned", "live"}, run : BOOLEAN,
                src : Node \cup {None}, tgt : Slot \cup {None},
                fds : {"none", "target", "both"}, fresh : BOOLEAN]

Idle == [phase |-> "done", run |-> FALSE, src |-> None, tgt |-> None,
         fds |-> "none", fresh |-> FALSE]

StopPc == {"join", "release", "remove"}
PassPc == {"dead", "stale", "discover", "scan", "sweep", "start", "create"}
DeadPc == {"down", "stopped"}
Pc == StopPc \cup PassPc \cup DeadPc \cup {"wait", "drain"}

TypeOK ==
    /\ pc \in Pc
    /\ shutdown \in BOOLEAN
    /\ todo \subseteq Camera
    /\ cur \in Stopping \cup {None}
    /\ skip \subseteq Node
    /\ cand \in [Camera -> Node \cup {None}]
    /\ managed \in [Camera -> Job \cup {None}]
    /\ breaker \in [Camera -> Breaker]
    /\ stateFile \in Snapshot \cup {None}
    /\ worker \in [Thread -> WorkerState]
    /\ node \in [Camera -> Node \cup {None}]
    /\ dev \in [Slot -> Card \cup OtherCard \cup {Free}]
    /\ app \in [Slot -> BOOLEAN]
    /\ raided \subseteq Slot

Managed(c) == managed[c] # None
Present(c) == node[c] # None
Running == pc \notin DeadPc

(* A thread the supervisor still has a JoinHandle for. *)
Owned(t) == \/ \E c \in Camera : Managed(c) /\ managed[c].thread = t
            \/ cur # None /\ cur.thread = t

HeldByWorkers ==
    {worker[t].src : t \in {u \in Thread : worker[u].fds = "both"}}

(* REMOVE answers EBUSY while anybody has the loopback open. *)
Busy(s) == app[s] \/ \E t \in Thread : worker[t].fds # "none" /\ worker[t].tgt = s

Init ==
    /\ pc = "down" /\ shutdown = FALSE /\ todo = {} /\ cur = None
    /\ skip = {} /\ cand = [c \in Camera |-> None]
    /\ managed = [c \in Camera |-> None]
    /\ breaker = [c \in Camera |-> Clean]
    /\ stateFile = None
    /\ worker = [t \in Thread |-> Idle]
    /\ node = [c \in Camera |-> None]
    /\ dev = [s \in Slot |-> Free] /\ app = [s \in Slot |-> FALSE]
    /\ raided = {}

-----------------------------------------------------------------------------
(* Around the service *)

(* A minor number is not given out again while a file on it is open. *)
Plug(c, n) ==
    /\ ~Present(c)
    /\ \A d \in Camera : node[d] # n
    /\ n \notin HeldByWorkers
    /\ node' = [node EXCEPT ![c] = n]
    /\ UNCHANGED <<supVars, worker, dev, app, raided>>

Unplug(c) ==
    /\ Present(c)
    /\ node' = [node EXCEPT ![c] = None]
    /\ UNCHANGED <<supVars, worker, dev, app, raided>>

AppOpen(s) ==
    /\ dev[s] # Free /\ ~app[s]
    /\ app' = [app EXCEPT ![s] = TRUE]
    /\ UNCHANGED <<supVars, worker, node, dev, raided>>

AppClose(s) ==
    /\ app[s]
    /\ app' = [app EXCEPT ![s] = FALSE]
    /\ UNCHANGED <<supVars, worker, node, dev, raided>>

(* Another program adds a loopback, under a name of its own choice. *)
ForeignCreate(s, k) ==
    /\ "foreign" \in Disturbances /\ dev[s] = Free
    /\ dev' = [dev EXCEPT ![s] = k]
    /\ UNCHANGED <<supVars, worker, node, app, raided>>

(* The numbers serve will use or remove, by the index it remembers. *)
Remembered ==
    {managed[c].slot : c \in {d \in Camera : Managed(d)}}
        \cup (IF cur = None THEN {} ELSE {cur.slot})

(* `cam-shim clean` without --force removes our idle devices. *)
ExternalClean(s) ==
    /\ "clean" \in Disturbances /\ dev[s] \in Card /\ ~Busy(s)
    /\ dev' = [dev EXCEPT ![s] = Free]
    /\ raided' = raided \cup ({s} \cap Remembered)
    /\ UNCHANGED <<supVars, worker, node, app>>

EnvNext ==
    \/ \E c \in Camera : Unplug(c) \/ \E n \in Node : Plug(c, n)
    \/ \E s \in Slot : \/ AppOpen(s) \/ AppClose(s) \/ ExternalClean(s)
                       \/ \E k \in OtherCard : ForeignCreate(s, k)

-----------------------------------------------------------------------------
(* The shim workers, as the supervisor can observe them *)

WorkerOnly == UNCHANGED <<supVars, envVars>>

(* run_shim_until begins with running.store(true), whatever the supervisor *)
(* stored since the spawn.                                                 *)
WorkerEnter(t) ==
    /\ worker[t].phase = "spawned"
    /\ worker' = [worker EXCEPT ![t] = [@ EXCEPT !.phase = "live", !.run = TRUE]]
    /\ WorkerOnly

(* Each attempt touches the heartbeat, then opens the loopback first. *)
WorkerOpenTarget(t) ==
    /\ worker[t].phase = "live" /\ worker[t].run /\ worker[t].fds = "none"
    /\ dev[worker[t].tgt] # Free
    /\ worker' = [worker EXCEPT ![t] = [@ EXCEPT !.fds = "target", !.fresh = TRUE]]
    /\ WorkerOnly

(* The source is opened by path: whichever camera has that node now. *)
WorkerOpenSource(t) ==
    /\ worker[t].phase = "live" /\ worker[t].fds = "target"
    /\ \E c \in Camera : node[c] = worker[t].src
    /\ worker' = [worker EXCEPT ![t] = [@ EXCEPT !.fds = "both"]]
    /\ WorkerOnly

(* A frame relayed, or another attempt to open: both touch the heartbeat.  *)
WorkerBeat(t) ==
    /\ worker[t].phase = "live"
    /\ worker' = [worker EXCEPT ![t] = [@ EXCEPT !.fresh = TRUE]]
    /\ WorkerOnly

(* run_shim_once returns an error; every descriptor is dropped. *)
WorkerFail(t) ==
    /\ worker[t].phase = "live" /\ worker[t].fds # "none"
    /\ \E f \in {worker[t].fresh, TRUE} :
         worker' = [worker EXCEPT ![t] = [@ EXCEPT !.fds = "none", !.fresh = f]]
    /\ WorkerOnly

WorkerExit(t) ==
    /\ worker[t].phase = "live" /\ ~worker[t].run
    /\ worker' = [worker EXCEPT ![t] = Idle]
    /\ WorkerOnly

WorkerPanic(t) ==
    /\ "panic" \in Disturbances /\ worker[t].phase = "live"
    /\ worker' = [worker EXCEPT ![t] = Idle]
    /\ WorkerOnly

HeartbeatAges(t) ==
    /\ "stall" \in Disturbances
    /\ worker[t].phase # "done" /\ worker[t].fresh
    /\ worker' = [worker EXCEPT ![t] = [@ EXCEPT !.fresh = FALSE]]
    /\ WorkerOnly

WorkerNext ==
    \E t \in Thread :
        \/ WorkerEnter(t) \/ WorkerOpenTarget(t) \/ WorkerOpenSource(t)
        \/ WorkerBeat(t) \/ WorkerFail(t) \/ WorkerExit(t)
        \/ WorkerPanic(t) \/ HeartbeatAges(t)

-----------------------------------------------------------------------------
(* stop_managed, called from five places.  The stop flag is stored in the  *)
(* step that takes the camera out of the map.                              *)

(* Mutant: the camera is left in the map while it is stopped. *)
MutantStopKeepsEntry(c, why) ==
    /\ Managed(c) /\ managed' = managed
    /\ worker' = [worker EXCEPT ![managed[c].thread] = [@ EXCEPT !.run = FALSE]]
    /\ cur' = [cam |-> c, thread |-> managed[c].thread,
               slot |-> managed[c].slot, why |-> why]
    /\ pc' = "join"

BeginStop(c, why) ==
    /\ Managed(c)
    /\ managed' = [managed EXCEPT ![c] = None]
    /\ worker' = [worker EXCEPT ![managed[c].thread] = [@ EXCEPT !.run = FALSE]]
    /\ cur' = [cam |-> c, thread |-> managed[c].thread,
               slot |-> managed[c].slot, why |-> why]
    /\ pc' = "join"

Join ==
    /\ pc = "join" /\ worker[cur.thread].phase = "done"
    /\ pc' = "release"
    /\ UNCHANGED <<shutdown, todo, cur, skip, cand, managed, breaker, stateFile,
                   worker, envVars>>

(* WORKER_JOIN_TIMEOUT: the handle is dropped, the thread goes on. *)
JoinTimeout ==
    /\ pc = "join" /\ worker[cur.thread].phase # "done"
    /\ pc' = "release"
    /\ UNCHANGED <<shutdown, todo, cur, skip, cand, managed, breaker, stateFile,
                   worker, envVars>>

(* Every other process that has the loopback open is killed. *)
Release ==
    /\ pc = "release"
    /\ app' = [app EXCEPT ![cur.slot] = FALSE]
    /\ pc' = "remove"
    /\ UNCHANGED <<shutdown, todo, cur, skip, cand, managed, breaker, stateFile,
                   worker, node, dev, raided>>

(* What the caller does once stop_managed has returned. *)
AfterStop(b, why) ==
    CASE why \in {"dead", "stale"}    -> RecordFailure(b)
      [] why \in {"sweep", "restart"} -> Clean
      [] why = "drain"                -> b

(* The device is removed by index, whoever it belongs to by now.  A busy   *)
(* device stays, with a warning, and is in no record from here on.         *)
Remove ==
    /\ pc = "remove"
    /\ dev' = [dev EXCEPT ![cur.slot] = IF Busy(cur.slot) THEN @ ELSE Free]
    /\ breaker' = [breaker EXCEPT ![cur.cam] = AfterStop(@, cur.why)]
    /\ pc' = IF cur.why = "restart" THEN "create" ELSE cur.why
    /\ cur' = IF cur.why = "restart" THEN cur ELSE None
    /\ UNCHANGED <<shutdown, todo, skip, cand, managed, stateFile, worker,
                   node, app, raided>>

-----------------------------------------------------------------------------
(* One pass of reconcile *)

(* Deadlines are compared with one snapshot of the clock, taken here: those *)
(* in q and r have expired by then.                                        *)
(* Mutant: quarantined_until is never compared with the clock. *)
MutantExpire(q, r) ==
    [c \in Camera |-> [breaker[c] EXCEPT !.retry = @ /\ c \notin r]]

Expire(q, r) ==
    [c \in Camera |-> [breaker[c] EXCEPT !.quar = @ /\ c \notin q,
                                         !.retry = @ /\ c \notin r]]

(* Mutant: the loop does not look at the flag before a pass. *)
MutantBeginPass(q, r) ==
    /\ pc = "wait"
    /\ breaker' = Expire(q, r)
    /\ todo' = {c \in Camera : /\ Managed(c)
                               /\ worker[managed[c].thread].phase = "done"}
    /\ cand' = [c \in Camera |-> None]
    /\ pc' = "dead"
    /\ UNCHANGED <<shutdown, cur, skip, managed, stateFile, worker, envVars>>

BeginPass(q, r) ==
    /\ pc = "wait" /\ ~shutdown
    /\ breaker' = Expire(q, r)
    /\ todo' = {c \in Camera : /\ Managed(c)
                               /\ worker[managed[c].thread].phase = "done"}
    /\ cand' = [c \in Camera |-> None]
    /\ pc' = "dead"
    /\ UNCHANGED <<shutdown, cur, skip, managed, stateFile, worker, envVars>>

(* reap_dead_workers and reap_stale_workers *)
Reap(c) ==
    /\ pc \in {"dead", "stale"} /\ c \in todo
    /\ BeginStop(c, pc)
    /\ todo' = todo \ {c}
    /\ UNCHANGED <<shutdown, skip, cand, breaker, stateFile, envVars>>

FindStale ==
    /\ pc = "dead" /\ todo = {}
    /\ todo' = {c \in Camera : /\ Managed(c)
                               /\ worker[managed[c].thread].phase # "done"
                               /\ ~worker[managed[c].thread].fresh}
    /\ pc' = "stale"
    /\ UNCHANGED <<shutdown, cur, skip, cand, managed, breaker, stateFile,
                   worker, envVars>>

(* Those found are serve's own workers and, at times, other commands such  *)
(* as `cam-shim scan`, `relay` or `fix`.                                   *)
FindHolders(others) ==
    /\ pc = "stale" /\ todo = {}
    /\ others = {} \/ "hold" \in Disturbances
    /\ skip' = HeldByWorkers \cup others
    /\ pc' = "discover"
    /\ UNCHANGED <<shutdown, todo, cur, cand, managed, breaker, stateFile,
                   worker, envVars>>

(* A node held by cam-shim is not opened: its sysfs stub has needs_shim    *)
(* set.  Any other node is probed.                                         *)
ReportNeedsShim(c) == c \in NeedsShim \/ node[c] \in skip

Discover(missed) ==
    /\ pc = "discover"
    /\ missed = {} \/ "probe" \in Disturbances
    /\ cand' = [c \in Camera |->
                  IF c \notin missed /\ ReportNeedsShim(c) THEN node[c] ELSE None]
    /\ skip' = {}
    /\ pc' = "scan"
    /\ UNCHANGED <<shutdown, todo, cur, managed, breaker, stateFile, worker,
                   envVars>>

(* Mutant: the test for candidates is inverted. *)
MutantFindUnplugged(missed) ==
    /\ pc = "scan"
    /\ missed = {} \/ "probe" \in Disturbances
    /\ todo' = {c \in Camera : Managed(c) /\ cand[c] # None /\ ~Present(c)}
    /\ pc' = "sweep"
    /\ UNCHANGED <<shutdown, cur, skip, cand, managed, breaker, stateFile,
                   worker, envVars>>

(* Managed cameras that are no candidates and, looked up again, are gone:  *)
(* a node that cannot be opened counts as gone.                            *)
FindUnplugged(missed) ==
    /\ pc = "scan"
    /\ missed = {} \/ "probe" \in Disturbances
    /\ todo' = {c \in Camera : /\ Managed(c) /\ cand[c] = None
                               /\ ~Present(c) \/ c \in missed}
    /\ pc' = "sweep"
    /\ UNCHANGED <<shutdown, cur, skip, cand, managed, breaker, stateFile,
                   worker, envVars>>

Sweep(c) ==
    /\ pc = "sweep" /\ c \in todo
    /\ BeginStop(c, "sweep")
    /\ todo' = todo \ {c}
    /\ UNCHANGED <<shutdown, skip, cand, breaker, stateFile, envVars>>

BeginStarts ==
    /\ pc = "sweep" /\ todo = {}
    /\ todo' = {c \in Camera : cand[c] # None}
    /\ pc' = "start"
    /\ UNCHANGED <<shutdown, cur, skip, cand, managed, breaker, stateFile,
                   worker, envVars>>

SourceStale(c) ==
    \/ \A d \in Camera : node[d] # managed[c].node
    \/ managed[c].node # cand[c]

(* Mutant: a camera in the map is left alone, wherever it is plugged in. *)
MutantKeep(c) ==
    /\ pc = "start" /\ c \in todo /\ Managed(c)
    /\ todo' = todo \ {c}
    /\ UNCHANGED <<pc, shutdown, cur, skip, cand, managed, breaker, stateFile,
                   worker, envVars>>

Keep(c) ==
    /\ pc = "start" /\ c \in todo /\ Managed(c) /\ ~SourceStale(c)
    /\ todo' = todo \ {c}
    /\ UNCHANGED <<pc, shutdown, cur, skip, cand, managed, breaker, stateFile,
                   worker, envVars>>

Restart(c) ==
    /\ pc = "start" /\ c \in todo /\ Managed(c) /\ SourceStale(c)
    /\ BeginStop(c, "restart")
    /\ UNCHANGED <<shutdown, todo, skip, cand, breaker, stateFile, envVars>>

(* The loop has come to candidate c, which has no worker (any more). *)
Turn(c) ==
    \/ pc = "start" /\ c \in todo /\ ~Managed(c)
    \/ pc = "create" /\ cur.cam = c

TurnDone(c) ==
    /\ pc' = "start" /\ cur' = None /\ todo' = todo \ {c}
    /\ UNCHANGED <<shutdown, skip, cand, stateFile, node, app, raided>>

Backoff(c) ==
    /\ Turn(c) /\ ~CanStart(breaker[c])
    /\ TurnDone(c)
    /\ UNCHANGED <<managed, breaker, worker, dev>>

Named(k) == {s \in Slot : dev[s] = k}

(* Mutant: the whole label is looked for, not the name it was cut to. *)
MutantAnswering(c) == {s \in Slot : dev[s] \in Answers[c] \ {CardOf[c]}}

(* The loopbacks that find_loopback_by_label may return for c, whoever     *)
(* made them.                                                              *)
Answering(c) == {s \in Slot : dev[s] \in Answers[c]}

(* The devices a call of create_device_with_options for c may leave behind: *)
(* none if one answers; else those made by the ioctl and, when that ended  *)
(* in an error after the kernel had made its device, by v4l2loopback-ctl,  *)
(* which may fail as late.                                                 *)
Creatable(c) ==
    {{}} \cup IF Answering(c) # {} THEN {}
             ELSE {{a, b} : a, b \in Named(Free)}

(* Mutant: any loopback there is will do. *)
MutantReturnable(c, new) == new \cup (Slot \ Named(Free))

(* ... and which device the call may return. *)
Returnable(c, new) == IF Answering(c) # {} THEN Answering(c) ELSE new

Made(c, new) == [s \in Slot |-> IF s \in new THEN CardOf[c] ELSE dev[s]]

StartOk(c, s, t, new) ==
    /\ Turn(c) /\ CanStart(breaker[c])
    /\ new \in Creatable(c) /\ s \in Returnable(c, new)
    /\ new \subseteq {s} \/ "create" \in Disturbances
    /\ worker[t] = Idle /\ ~Owned(t)
    /\ dev' = Made(c, new)
    /\ worker' = [worker EXCEPT ![t] =
         [phase |-> IF "late_entry" \in Disturbances THEN "spawned" ELSE "live",
          run |-> TRUE, src |-> cand[c], tgt |-> s, fds |-> "none",
          fresh |-> TRUE]]
    /\ managed' = [managed EXCEPT ![c] =
                     [thread |-> t, node |-> cand[c], slot |-> s]]
    /\ breaker' = [breaker EXCEPT ![c] = Clean]
    /\ TurnDone(c)

(* A start fails where no number is free, and under "create" at any point. *)
StartFail(c, new) ==
    /\ Turn(c) /\ CanStart(breaker[c])
    /\ new \in Creatable(c)
    /\ \/ "create" \in Disturbances
       \/ Answering(c) \cup Named(Free) = {}
    /\ dev' = Made(c, new)
    /\ breaker' = [breaker EXCEPT ![c] = RecordFailure(@)]
    /\ TurnDone(c)
    /\ UNCHANGED <<managed, worker>>

WriteSnapshot ==
    /\ pc = "start" /\ todo = {}
    /\ stateFile' = [managed |-> {c \in Camera : Managed(c)},
                     quarantined |-> {c \in Camera : IsQuarantined(breaker[c])}]
    /\ pc' = "wait"
    /\ UNCHANGED <<shutdown, todo, cur, skip, cand, managed, breaker, worker,
                   envVars>>

-----------------------------------------------------------------------------
(* Starting and ending the process *)

(* startup_self_check removes what an earlier run left and nobody holds;   *)
(* then comes the first pass, with nothing to reap.                        *)
Boot ==
    /\ pc \in DeadPc
    /\ pc' = "dead" /\ shutdown' = FALSE /\ todo' = {} /\ cur' = None
    /\ skip' = {} /\ cand' = [c \in Camera |-> None]
    /\ managed' = [c \in Camera |-> None]
    /\ breaker' = [c \in Camera |-> Clean]
    /\ stateFile' = None
    /\ dev' = [s \in Slot |-> IF dev[s] \in Card /\ ~Busy(s)
                                THEN Free ELSE dev[s]]
    /\ raided' = {}
    /\ UNCHANGED <<worker, node, app>>

SigInt ==
    /\ Running /\ ~shutdown
    /\ shutdown' = TRUE
    /\ UNCHANGED <<pc, todo, cur, skip, cand, managed, breaker, stateFile,
                   worker, envVars>>

BeginDrain ==
    /\ pc = "wait" /\ shutdown
    /\ pc' = "drain"
    /\ UNCHANGED <<shutdown, todo, cur, skip, cand, managed, breaker, stateFile,
                   worker, envVars>>

Drain(c) ==
    /\ pc = "drain"
    /\ BeginStop(c, "drain")
    /\ UNCHANGED <<shutdown, todo, skip, cand, breaker, stateFile, envVars>>

(* The process is gone, and its threads, timed-out ones included, with it. *)
ProcessGone ==
    /\ worker' = [t \in Thread |-> Idle]
    /\ shutdown' = FALSE /\ todo' = {} /\ cur' = None /\ skip' = {}
    /\ cand' = [c \in Camera |-> None]
    /\ managed' = [c \in Camera |-> None]
    /\ breaker' = [c \in Camera |-> Clean]
    /\ UNCHANGED envVars

Exit ==
    /\ pc = "drain" /\ \A c \in Camera : ~Managed(c)
    /\ pc' = "stopped" /\ stateFile' = None
    /\ ProcessGone

Crash ==
    /\ "crash" \in Disturbances /\ Running
    /\ pc' = "down" /\ stateFile' = stateFile
    /\ ProcessGone

SupStep ==
    \/ Join \/ JoinTimeout \/ Release \/ Remove
    \/ \E q, r \in SUBSET Camera : BeginPass(q, r)
    \/ FindStale \/ \E others \in SUBSET Node : FindHolders(others)
    \/ \E missed \in SUBSET Camera : Discover(missed) \/ FindUnplugged(missed)
    \/ BeginStarts \/ WriteSnapshot
    \/ \E c \in Camera :
         \/ Reap(c) \/ Sweep(c) \/ Keep(c) \/ Restart(c) \/ Backoff(c)
         \/ Drain(c)
         \/ \E new \in SUBSET Slot :
              \/ StartFail(c, new)
              \/ \E s \in Slot, t \in Thread : StartOk(c, s, t, new)
    \/ BeginDrain \/ Exit

Next == SupStep \/ WorkerNext \/ EnvNext \/ Boot \/ SigInt \/ Crash

Spec == Init /\ [][Next]_vars

-----------------------------------------------------------------------------
(* Safety *)

(* A camera with a shim carries no failure count, backoff or quarantine:   *)
(* serve.rs keeps the map of workers and the map of breaker states in step *)
(* through every reap, sweep, restart and start.                           *)
ManagedIsClean == \A c \in Camera : Managed(c) => breaker[c] = Clean

(* The state file never lists one camera both as managed and quarantined,  *)
(* whichever pass wrote it.                                                *)
SnapshotDisjoint ==
    stateFile # None => stateFile.managed \cap stateFile.quarantined = {}

(* A name the kernel accepted is found again under the label it was made   *)
(* from; an assumption, as a label in long characters may not survive.     *)
Recognised == \A c \in Camera : CardOf[c] \in Answers[c]

(* Devices that a refused removal, a creation that failed late or a crash  *)
(* left in no record do not pile up: while one of a name is there, whoever *)
(* has it, no start, restart or shutdown leads to another of that name.    *)
NoSecondOfAName ==
    [][Recognised => \A k \in Card : Named(k) # {} => Named(k)' \subseteq Named(k)]_vars

(* So there are never more than the two that one creation can make, when   *)
(* the first of them failed late.                                          *)
LeftoversAreBounded ==
    Recognised =>
        \A k \in Card : \A s, t, u \in Named(k) : s = t \/ t = u \/ s = u

Suits(c, k) == k = CardOf[c] \/ k \in Answers[c]

(* No name suits two cameras. *)
Apart == \A c, d \in Camera :
            (\E k \in Card \cup OtherCard : Suits(c, k) /\ Suits(d, k)) => c = d

(* A managed camera's loopback exists and answers to it, adopted or made:  *)
(* no stop or failed start of another camera removes it, and only another  *)
(* cam-shim's clean can, behind the back of the index serve remembers.     *)
ManagedLoopback ==
    Apart => \A c \in Camera :
                Managed(c) /\ managed[c].slot \notin raided
                    => Suits(c, dev[managed[c].slot])

(* Two managed cameras never feed the same virtual camera. *)
OneLoopbackEach ==
    \A c, d \in Camera :
        c # d /\ Managed(c) /\ Managed(d) => managed[c].slot # managed[d].slot

(* When a pass has ended, each camera it discovered either has a shim that *)
(* reads from the path discovered, or is held back by its breaker: no      *)
(* candidate falls through the loop.                                       *)
PassConverges ==
    pc = "wait" =>
        \A c \in Camera : cand[c] # None =>
            IF Managed(c) THEN managed[c].node = cand[c]
                          ELSE ~CanStart(breaker[c])

(* serve removes a virtual camera some other program made only if it once  *)
(* took it for one of its cameras' by name, or if the number it remembers  *)
(* was vacated by another cam-shim's clean before that program took it.    *)
StrangersUntouched ==
    [][Apart => \A s \in Slot \ raided :
                   /\ dev[s] \in OtherCard
                   /\ \A c \in Camera : dev[s] \notin Answers[c]
                   => dev'[s] = dev[s]]_vars

-----------------------------------------------------------------------------
(* Liveness.  The supervisor thread keeps running and every call it makes  *)
(* returns (SupStep); a start that is possible again and again succeeds    *)
(* once; a deadline not set anew expires; a thread gets scheduled and sees *)
(* its stop flag.  Nothing is assumed of cameras, apps or frames.          *)

Fairness ==
    /\ WF_vars(SupStep)
    /\ \A c \in Camera :
         /\ SF_vars(\E s \in Slot, t \in Thread, new \in SUBSET Slot :
                     StartOk(c, s, t, new))
         /\ SF_vars(\E q, r \in SUBSET Camera : c \in q \cap r /\ BeginPass(q, r))
    /\ \A t \in Thread : WF_vars(WorkerEnter(t)) /\ WF_vars(WorkerExit(t))

FairSpec == Spec /\ Fairness

(* A camera that needs a shim and stays plugged in is given one, again and *)
(* again if it must, whatever fails on the way.                            *)
EventuallyManaged ==
    \A c \in NeedsShim :
        <>[](Present(c) /\ Running /\ ~shutdown) => []<>Managed(c)

(* The shim of a camera that is gone for good is taken down. *)
UnpluggedIsDropped ==
    \A c \in Camera :
        Managed(c) /\ ~Present(c) ~> ~Managed(c) \/ Present(c)

(* Ctrl-C ends serve in order, even when a worker does not answer. *)
ShutdownCompletes == shutdown ~> ~Running

(* A camera that stays plugged in and whose worker is found dead over and  *)
(* over is quarantined.                                                    *)
RepeatedCrashesQuarantine ==
    \A c \in Camera :
        /\ <>[](Present(c) /\ Running /\ ~shutdown)
        /\ []<>(cur # None /\ cur.cam = c /\ cur.why = "dead")
        => <>IsQuarantined(breaker[c])

=============================================================================
