-------------------------------- MODULE Status --------------------------------
(***************************************************************************)
(* What `cam-shim status` shows of one camera.  serve writes its state     *)
(* file at the end of each pass, status reads it whenever it is run, and   *)
(* the two share nothing but the clock.  The camera's breaker is the one   *)
(* of TimedBreaker.  Both clocks of the program, Instant and the wall      *)
(* clock, are `clock`.                                                     *)
(***************************************************************************)
EXTENDS TimedBreaker

CONSTANTS
    Second,         \* ticks of the clock per second
    HeartbeatStale, \* HEARTBEAT_STALE_SECS, in seconds
    StaleFrame,     \* ServeConfig::stale_frame_timeout, in ticks
    None

ASSUME StatusAssumption ==
    /\ Second \in Nat \ {0} /\ HeartbeatStale \in Nat /\ StaleFrame \in Nat

VARIABLES
    serve,     \* the process: "off", "starting" or "up"
    writes,    \* ServeConfig::write_state_file of this session
    pass,      \* where a pass is, "idle" between passes
    worker,    \* of the managed camera, "none" when it is not managed
    beat,      \* its heartbeat
    last,      \* history: when the pass before the current one began
    file,      \* the state file
    looked,    \* status has looked for serve, and is to read the file
    running,   \* cam_shim_serve_running, as status found it
    upSince    \* history: serve had been up since status looked for it

workerVars == <<worker, beat>>
serveVars == <<serve, writes, last>>
readerVars == <<looked, running, upSince>>
statusVars == <<vars, workerVars, serveVars, pass, file, readerVars>>

(* `old` and `last` are history: the file is that of a session that ended, *)
(* and the beginning of the pass before the one that wrote it.             *)
Files ==
    [updated : Nat, managed : BOOLEAN, beat : Nat, quarantined : BOOLEAN,
     old : BOOLEAN, last : Nat]

StatusTypeOK ==
    /\ TypeOK
    /\ serve \in {"off", "starting", "up"} /\ writes \in BOOLEAN
    /\ pass \in {"idle", "dead", "stale", "start", "write"}
    /\ worker \in {"none", "alive", "finished"}
    /\ beat \in 0..clock /\ last \in 0..clock
    /\ file \in Files \cup {None}
    /\ looked \in BOOLEAN /\ running \in BOOLEAN /\ upSince \in BOOLEAN

StatusInit ==
    /\ Init
    /\ serve = "off" /\ writes = FALSE /\ last = 0
    /\ pass = "idle" /\ worker = "none" /\ beat = 0
    /\ file = None
    /\ looked = FALSE /\ running = FALSE /\ upSince = FALSE

BreakerSame == UNCHANGED vars

-----------------------------------------------------------------------------
(* The supervisor, once per pass *)

TimePasses ==
    /\ Tick
    /\ UNCHANGED <<workerVars, serveVars, pass, file, readerVars>>

Begin ==
    /\ serve = "up" /\ pass = "idle"
    /\ BeginPass
    /\ pass' = "dead" /\ last' = snap
    /\ UNCHANGED <<serve, writes, workerVars, file, readerVars>>

Proceed(next) ==
    /\ pass' = next
    /\ UNCHANGED <<serveVars, file, readerVars>>

Drop == worker' = "none" /\ beat' = 0

(* reap_dead_workers.  record_failure follows the join of the worker. *)
ReapDead ==
    /\ pass = "dead"
    /\ \/ worker = "finished" /\ Drop /\ RecordFailure
       \/ worker # "finished" /\ BreakerSame /\ UNCHANGED workerVars
    /\ Proceed("stale")

IsStale == worker = "alive" /\ clock - beat > StaleFrame

(* Mutant: the heartbeat is not looked at. *)
MutantReapStale ==
    /\ pass = "stale"
    /\ BreakerSame /\ UNCHANGED workerVars
    /\ Proceed("start")

(* reap_stale_workers, for a worker that has not finished meanwhile *)
ReapStale ==
    /\ pass = "stale"
    /\ \/ IsStale /\ Drop /\ RecordFailure
       \/ ~IsStale /\ BreakerSame /\ UNCHANGED workerVars
    /\ Proceed("start")

CanStart == worker = "none" /\ ~IsQuarantined /\ ~IsWaiting

(* A candidate that is not managed, when its breaker lets it *)
StartOne ==
    /\ pass = "start" /\ CanStart
    /\ RecordSuccess
    /\ worker' = "alive" /\ beat' = clock
    /\ Proceed("write")

StartFails ==
    /\ pass = "start" /\ CanStart
    /\ RecordFailure /\ UNCHANGED workerVars
    /\ Proceed("write")

(* Mutant: a restart counts as a failure, and the camera stays managed. *)
MutantStopClean ==
    /\ pass = "start" /\ worker # "none"
    /\ RecordFailure /\ UNCHANGED workerVars
    /\ Proceed("start")

(* A managed camera that was unplugged, or is found at another path and    *)
(* started again by this pass, leaves a clean breaker.                     *)
StopClean ==
    /\ pass = "start" /\ worker # "none"
    /\ RecordSuccess /\ Drop
    /\ Proceed("start")

(* It is no candidate, is managed, or has to wait. *)
StartNone ==
    /\ pass = "start"
    /\ BreakerSame /\ UNCHANGED workerVars
    /\ Proceed("write")

(* write_state_snapshot: quarantines as of the start of the pass, the rest *)
(* as of now.                                                              *)
WriteState ==
    /\ pass = "write" /\ pass' = "idle"
    /\ file' = IF ~writes THEN file
               ELSE [updated |-> clock, managed |-> worker # "none",
                     beat |-> beat, quarantined |-> IsQuarantined,
                     old |-> FALSE, last |-> last]
    /\ BreakerSame /\ UNCHANGED <<workerVars, serveVars, readerVars>>

Beat ==
    /\ worker = "alive" /\ beat' = clock
    /\ BreakerSame /\ UNCHANGED <<worker, serveVars, pass, file, readerVars>>

WorkerEnds ==
    /\ worker = "alive" /\ worker' = "finished"
    /\ BreakerSame /\ UNCHANGED <<beat, serveVars, pass, file, readerVars>>

-----------------------------------------------------------------------------
(* The process *)

Start ==
    /\ serve = "off" /\ serve' = "starting" /\ writes' \in BOOLEAN
    /\ BreakerSame /\ UNCHANGED <<last, workerVars, pass, file, readerVars>>

(* Mutant: the file of the last session is left there. *)
MutantRemoveOld ==
    /\ serve = "starting" /\ serve' = "up"
    /\ BreakerSame
    /\ UNCHANGED <<writes, last, workerVars, pass, file, readerVars>>

(* run_supervisor removes the file only after its self-check. *)
RemoveOld ==
    /\ serve = "starting" /\ serve' = "up"
    /\ file' = IF writes THEN None ELSE file
    /\ BreakerSame /\ UNCHANGED <<writes, last, workerVars, pass, readerVars>>

(* Nothing in memory outlives the process: every worker was a thread of it.*)
SessionOver ==
    /\ serve' = "off" /\ writes' = FALSE /\ last' = 0
    /\ pass' = "idle" /\ Drop /\ RecordSuccess
    /\ upSince' = FALSE /\ UNCHANGED <<looked, running>>

Shutdown ==
    /\ serve = "up" /\ pass = "idle"
    /\ SessionOver /\ file' = None

Crash ==
    /\ serve # "off"
    /\ SessionOver
    /\ file' = IF file = None THEN None ELSE [file EXCEPT !.old = TRUE]

-----------------------------------------------------------------------------
(* status: it looks for serve first, and reads the file and the clock next.*)

LookForServe ==
    /\ ~looked /\ looked' = TRUE
    /\ running' = (serve # "off") /\ upSince' = (serve = "up" /\ writes)
    /\ BreakerSame /\ UNCHANGED <<workerVars, serveVars, pass, file>>

ReadFile ==
    /\ looked /\ looked' = FALSE
    /\ running' = FALSE /\ upSince' = FALSE
    /\ BreakerSame /\ UNCHANGED <<workerVars, serveVars, pass, file>>

(* managed_status and print_managed, of the file as it is when it is read. *)
(* The file's age is compared in milliseconds, the heartbeat's in whole    *)
(* seconds.                                                                *)
StateFresh == clock - file.updated <= HeartbeatStale * Second
HeartbeatIsStale == (clock - file.beat) \div Second > HeartbeatStale

Shown ==
    IF ~looked \/ file = None THEN "nothing"
    ELSE IF ~file.managed THEN "nothing"
    ELSE IF ~running THEN "stopped"
    ELSE IF file.quarantined THEN "quarantined"
    ELSE IF StateFresh /\ HeartbeatIsStale THEN "stale" ELSE "active"

-----------------------------------------------------------------------------
StatusNext ==
    \/ TimePasses \/ Begin \/ ReapDead \/ ReapStale
    \/ StopClean \/ StartOne \/ StartFails \/ StartNone \/ WriteState
    \/ Beat \/ WorkerEnds \/ Start \/ RemoveOld \/ Shutdown \/ Crash
    \/ LookForServe \/ ReadFile

StatusSpec == StatusInit /\ [][StatusNext]_statusVars

-----------------------------------------------------------------------------
(* Properties *)

(* A camera shown as stale tells of the supervisor, not of the worker: a   *)
(* silent worker is reaped long before status would call it stale, even    *)
(* one that ends between the two reaps of a pass, so the word is seen only *)
(* when the pass after the last but one is overdue.                        *)
StaleMeansLate ==
    Shown = "stale" =>
        clock - file.last >= (HeartbeatStale + 1) * Second - StaleFrame

(* Once a session that writes the state file has come up, no status begun  *)
(* in it takes a camera of a session that crashed for a running one.       *)
ShownIsOfSession ==
    upSince /\ Shown \in {"active", "stale", "quarantined"} => ~file.old

(* A camera in the list of managed ones is not in quarantine: the status   *)
(* "quarantined" is never shown.                                           *)
ManagedNotQuarantined == Shown # "quarantined"
=============================================================================
