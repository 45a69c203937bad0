# A formal model of cam-shim

cam-shim keeps Linux webcams usable by applications that cannot read them: for each
camera that needs it, it feeds the camera's frames into a virtual camera (a
v4l2loopback device). `cam-shim serve` supervises one relay thread per camera and
follows hotplug; `fix` and `relay` do it for one camera; `clean`, `restore` and
`doctor` repair what is left behind; `status` shows the state.

This directory holds TLA+ modules of that program, TLC configurations that check
them on small instances, and theorems about them that the TLA+ proof system checks
for every value of the constants. `PROJECT.json` lists the components, the runs, the
source lines of each definition, the hazards and the theorems.

    tlc -workers 2 -config Supervisor_one.cfg MCSupervisor
    tlapm SupervisorSafety.tla

## 1. Inventory

| component | its state | operations | correct when |
|---|---|---|---|
| Supervisor (`serve.rs`) | map of managed cameras, the stop in progress, candidates, state file | the pass: reap dead, reap stale, discover, sweep, start, write the file; boot, drain, exit | records, breaker, file and devices agree; a plugged camera is managed in the end, an absent one dropped; Ctrl-C ends it |
| Circuit breaker (`serve.rs`, `SerialState`) | failures, quarantine, retry deadline | failure, success, test against the clock | deadlines only expire between passes; a managed camera has a clean one |
| Shim worker (`shim.rs`) | open devices, capture and output stream, heartbeat | negotiate, first frame, relay, pause, reopen | honours a stop, gets frames going again, relays what the loopback was set up for |
| Output stream (`loopback_output.rs`) | Unprimed, Ready, Streaming | open, prime, submit | used in this order |
| Loopback pool (`loopback.rs`) | devices of the kernel | find by name, create, remove, release holders, load and unload | devices are used again and not lost; other programs' are left alone |
| Registry (`device_registry.rs`) | two JSON files | read, merge, migrate, assign | forgets no camera, names the number really given |
| Hotplug (`hotplug.rs`, loop of `serve.rs`) | socket, debounce window, channel, settle deadline | read, drop, note, scan, poll | no change stays unseen |
| Status (`status.rs`, `runtime.rs`) | state file, process table, clocks | look for serve, read, compare | shows no camera of a session that crashed, no quarantine of a managed one |
| Doctor, clean, restore, fix (`doctor.rs`, `session.rs`, `main.rs`) | list of devices, map of holders, list of ghosts, all read earlier than used | stop daemons, repair nodes, list, signal, remove, reload | signals its own users only, reports what happened, ends |
| Identity, repair of nodes (`devices.rs`), probing (`probe.rs`, `compat.rs`) | none | scan, judge, label | partly modelled, see section 6 |
| Camera list (`camera_view.rs`), command line (`main.rs`, `lib.rs`, `error.rs`), packaging | none | | not modelled |

How they interact. The supervisor shares with each worker a stop flag and a heartbeat,
nothing else; it joins the thread with a timeout and then removes the loopback by the
number it remembers. Worker, supervisor, applications, other programs and the other
cam-shim commands meet in the kernel: a loopback that somebody has open cannot be
removed, and a number once free is anybody's. Loopbacks are found by name. The monitor
thread hands the supervisor a note per change. status knows serve by the process table
and the state file only.

What is hard: a stop flag that the thread itself sets when it first runs; joins that
time out; devices remembered by number and found by the beginning of a name; a
creation that reports failure after the kernel has made the device; state read in
pieces and used later; files truncated before they are written; events lost or
dropped; three clocks with different limits. Each is listed under "hazards" in
`PROJECT.json` at the line where it bites, with the properties that would show it
going wrong, or a note why none does.

## 2. Modules

    SerialState <- BreakerView <- TimedBreaker <- Status          StatusProofs
        ^
    Supervisor (MCSupervisor)    SupervisorProofs <- SupervisorSafety, SupervisorLoopbacks
        ^ what a worker may do
    WorkerContract <- ShimWorker (MCShimWorker) -> LoopbackOutput  ShimWorkerProofs
                         EXTENDS Negotiation
    LoopbackPool (MCLoopbackPool)                                  LoopbackPoolProofs
    Hotplug                                                        HotplugProofs
    CleanTool (MCCleanTool)                                        CleanToolProofs

**Supervisor** has one action per step of the loop of `serve.rs`. A pass goes through
`dead`, `stale`, `discover`, `scan`, `sweep`, `start` (and `create` for a restart);
`stop_managed` is `BeginStop`, `Join` or `JoinTimeout`, `Release`, `Remove`, with the
caller's continuation in `AfterStop`. Between any two steps cameras, applications,
other programs and workers may act. Workers are seen as the supervisor sees them. What
else may happen is a set, `Disturbances`, of which each instance names its own.
A label is cut short by `kernel_card_label` and compared by prefixes, so the model
does not identify names with cameras: `CardOf` gives each camera the name its loopback
gets and `Answers` the names that `find_loopback_by_label` may return for it, other
programs' names among them, and both are arbitrary. A creation may make up to two
devices and still fail (`Creatable`, `StartFail`). `raided` is a history variable.

**SerialState**, **BreakerView**, **TimedBreaker**: the circuit breaker without a clock,
as operators; the same as a machine; and the code with its deadlines, the saturating
counter and the capped exponent, which implements that machine.

**Status** puts the timed breaker of one camera, its worker, the state file and the
status command together on one clock.

**ShimWorker** is `run_shim_until` and all it calls, one action per call that can
fail or block; **Negotiation** is the choice of the capture mode as pure operators;
**LoopbackOutput** is the output stream, **WorkerContract** what the supervisor relies
on, and both are implemented by the worker. `OpenSource` and `Reopen` may fail with the
path present, since opening it can be refused.

**LoopbackPool** is `create_device_with_options` with all three ways of making a device,
and the registry with its two files; several processes. A name is again not a camera.
`last` is history: the number each camera's loopback really had.

**Hotplug** is the path from an event to a pass.

**CleanTool** is one run of a command against everything else. It reads the list of
devices, the map of holders and the list of ghosts in steps of their own. Daemons
make, adopt and remove loopbacks meanwhile, and fix may adopt another program's.
`came`, `gone`, `user`, `hit` and `kept` are history, read by properties only.

## 3. Runs

Passing runs (distinct states; seconds with two workers):

| run | instance | states | s |
|---|---|---|---|
| `Supervisor_one` | 1 camera, 2 nodes, 2 slots, 1 thread, 2 foreign names of which one answers; all disturbances but stalls | 1,530,403 | 70 |
| `Supervisor_live` | 1 camera, 1 node, 1 slot, 2 threads; stall, panic, create, clean; fairness | 159,210 | 124 |
| `ShimWorker` | 3 cameras, 2 polls, staleness 2, panics; fairness | 324,864 | 111 |
| `Status` | 2 failures to a quarantine, clock to 7 | 1,198,306 | 20 |
| `LoopbackPool` | 2 cameras, 2 processes, numbers 9 and 10 with Start 10, one foreign name that answers | 2,283,077 | 64 |
| `Hotplug` | 1 camera, debounce 2, settle step 2, limit 3; fairness | 156,257 | 34 |
| `CleanTool` | 2 numbers, 1 application, 1 daemon, 4 commands; fairness of the tool | 815,878 | 96 |

What they show:

- `Supervisor_one`: `ManagedIsClean`, `SnapshotDisjoint` (two maps updated on many
  paths stay in step); `PassConverges` (no candidate falls through the loop);
  `NoSecondOfAName` (a device left behind by a refused removal, a late failure or a
  crash is used again, never doubled); `ManagedLoopback` (a managed camera's loopback
  exists and suits it); `StrangersUntouched` (serve removes another program's device
  only if it adopted it by name, or its number was vacated behind serve's back).
- `Supervisor_live`: `EventuallyManaged`, `UnpluggedIsDropped`, `ShutdownCompletes`.
- `ShimWorker`: `ImplementsContract`, `ImplementsOutput`, `OutputInOrder`,
  `ModeIsSteady`, `ModeIsBest`, `StopHonoured`, `FramesResume`.
- `Status`: `ImplementsView`, `StaleMeansLate`, `ShownIsOfSession`,
  `ManagedNotQuarantined`.
- `LoopbackPool`: `NoForgottenCamera`, `NeverMisleads`, `ReturnsToItsNumber`, while
  `Calm`: no crash, failed write, broken file or second process at work. A creation
  that fails, early or late, does not end the calm.
- `Hotplug`: `ChangeIsPending`, `EventuallyKnown`, `DiscoveryEnds`, `ShutdownEnds`.
- `CleanTool`: `OthersUntouched`, `OnlyUsersSignalled`, `ReportIsTrue`,
  `HoldersReleased`, `CleanEnds`.

Each passing run checks its module's type invariant too, except `Supervisor_live`,
whose module `Supervisor_one` covers.

Runs that find a violation of what the repository says of the program:

| run | what it shows |
|---|---|
| `Supervisor_crash_loop` | a worker that dies after every start is never quarantined: each start clears the count |
| `Supervisor_same_model` | two cameras of one model, or with names that agree where they are cut, share one loopback |
| `ShimWorker_frameless` | a camera without frames never looks stale: each attempt touches the heartbeat |
| `LoopbackPool_moved` | a camera's registered number is handed to another camera, and the first one gets another |
| `CleanTool_others` | a plain `clean` removes another program's device that took a listed number |

### Behaviour worth knowing

The models contain these, and the properties are worded around them:

- A stop issued before a new thread has run is lost (`shim.rs:64`): the thread
  outlives its record until the process ends. Nothing in the code prevents it.
- A loopback is recognised by the beginning of its name. A device of another program
  with a short name can be adopted for a camera, and is then removed when the camera
  is stopped or fix ends. `StrangersUntouched` speaks of names no camera answers to.
- If two cameras share a name, stopping one removes the loopback under the other;
  `ManagedLoopback` assumes `Apart`, that no name suits two cameras.
- `NoSecondOfAName` assumes that a name cam-shim gives is found again under the label
  it was made from (`Recognised`).
- serve and fix remove by a remembered number, clean by a listed one. If the device was
  removed meanwhile and another program took the number, that one is removed. `raided`
  and `came` mark exactly these numbers; the properties say there is no other way.
- A creation can fail after the device was made; the device stays, unregistered.
- "MJPEG when available" holds if MJPEG is the camera's only compressed format:
  another one enumerated first, or in use already, wins. "At or below 1920x1080" holds
  if every pixel format has a size there: a format listed only above the cap is used
  above it. `ModeIsBest` claims both promises for just those cameras; for the others
  the code departs from `Readme.md:172` and `shim.rs:40`, `shim.rs:402`.
- After a reopen the camera may settle on another mode than the loopback's
  (`shim.rs:154`); larger frames are then refused for ever. `FramesResume` has that
  premise.
- The capture stream opened after an error has no timeout (`shim.rs:155`), so a stop
  can wait for a frame; `StopHonoured` names the exception.
- The failures of a camera that leaves while it is not managed are still counted when
  it returns (`serve.rs:294`).
- A node held by a worker is judged from sysfs alone until that worker is stopped
  (`probe.rs:160`).
- The registry is truncated before it is written, and read and written without a lock:
  a crash or a second process can empty it (`device_registry.rs:55`, `:94`).
- A ghost node that vanishes during the repair fails the whole command
  (`devices.rs:107`).
- Two cameras of one model may be recommended each other's loopback
  (`camera_view.rs:112`).

### Bounds

One camera suffices in `Supervisor_one` because passes treat cameras one after the
other and share only devices and nodes; what sharing does is the subject of
`Supervisor_same_model`, and the theorems hold for any number of cameras. Two slots let
one be raided or adopted while the other is used, and let one creation leave two
devices. `MaxFailures` 2 reaches the quarantine and `CountMax` 2 the saturated counter.
A thread is a bound of the model, not of the code: a start with no idle thread waits.
`Supervisor_live` has two, so that a thread that timed out in its join does not stop the
camera from being managed. In `Status` the clock runs to 7, past a quarantine, a
restart and the display limit. `Polls`, `Stale`, `QueueMax`, `NoteMax`, `Debounce` and
the settle times keep the order they have in the code and reach each side of every
comparison. In `LoopbackPool` one number lies below Start and one at it. CleanTool's four
commands go through every branch of the tool between them.

Symmetry is used in `Supervisor_one` (nodes, slots, threads; no liveness there, and its
chosen names are not among the permuted values) and in `LoopbackPool` (cameras and
processes). `Status` and the two `CleanTool` runs stop at their bounds or ends, so
deadlock is not checked there; it is everywhere else.

## 4. Fairness

- `Supervisor_live`: weak fairness of the supervisor's own step (its thread runs and
  every call it makes returns, the join thanks to its timeout) and of a spawned thread
  entering and of an ending thread leaving; strong fairness of a successful start (a start
  that is possible again and again succeeds once) and of the expiry of both deadlines.
  Nothing is assumed of cameras, applications or frames, nor that a worker beats. A camera
  whose creation fails for ever is, by the strong fairness, excluded.
- `ShimWorker`: the thread is scheduled and time passes; frames need not come and stops
  need not happen. `FramesResume` and `FramelessIsStale` name what they need.
- `Hotplug`: supervisor and monitor threads run, time passes. Events may all be lost.
- `CleanTool`: only the tool's steps; the world may interfere at every one.

## 5. Proofs

Checked by tlapm with Z3, Zenon and LS4; no step is left open. The only assumptions are
the named ASSUMEs on constants, which TLC evaluates on every run.

| module | theorem | |
|---|---|---|
| SupervisorProofs | `TypeCorrect` | types of the supervisor, from `TInv` |
| | `ContractIsCovered`, `WorkersKeepContract` | workers of Supervisor do what WorkerContract allows, and are treated as it says |
| | `BreakersFollowView`, `QuarantineIsEarned` | breakers move as the view does; a quarantine has its failures |
| SupervisorSafety | `ManagedAlwaysClean`, `SnapshotAlwaysDisjoint`, `PassAlwaysConverges` | |
| SupervisorLoopbacks | `LeftoversAreReused`, `AtMostTwoOfAName` | devices without a record do not pile up |
| | `ManagedHasLoopback`, `NoSharedLoopback`, `StrangersNeverTouched` | if no name suits two cameras, up to raided numbers |
| ShimWorkerProofs | `TypeCorrect`, `OutputAlwaysInOrder`, `OutputImplemented`, `ContractImplemented` | |
| | `ModeAlwaysSteady`, `ModeAlwaysBest`, `GivingUpIsJustified` | the negotiation, for any camera and cap |
| StatusProofs | `ViewImplemented`, `StatusView`, `StatusTypeCorrect`, `NeverQuarantined`, `ShownBelongs`, `StaleIsLate` | for any durations |
| LoopbackPoolProofs | `TypeCorrect`, `RegistryRemembers`, `RegistryIsRight`, `NumberIsKept` | |
| HotplugProofs | `TypeCorrect`, `NoChangeLost` | for a debounce within the settle step |
| CleanToolProofs | `TypeCorrect`, `OnlyUsersEverSignalled`, `ReportAlwaysTrue`, `HoldersAlwaysReleased`, `OthersNeverTouched` | |

The arguments:

- *Supervisor.* `TInv` adds to the types what links them: a stop in progress names a
  camera out of the map, a worker that runs has its paths, the loop's rest is among the
  candidates. `BreakerInv` then is inductive: failures are recorded only after the camera
  has left the map. `PassInv` says of the loop what `PassConverges` says of its end.
- *Loopbacks.* `NoSecondOfAName` needs no invariant: a device is made only when none
  answers. `AtMostTwoOfAName` is its invariant form. `SlotInv` says that the loopback of a
  managed camera, and of the one being stopped, suits it unless it was raided; with
  `Apart` no other camera's removal can hit it.
- *Worker.* `IInv` fixes what is open and in which state the output is at each place,
  which yields both refinements. `MInv` adds where a mode is in hand, that it is the
  camera's mode while steady and an outcome of a negotiation without faults; lemmas on
  Negotiation say that such an outcome is the best and is found again when asked again.
- *Status.* `Written` and `Recent` bound the ages recorded in the file by the passes that
  wrote it; the rest is arithmetic on the clock.
- *Registry.* `CalmInv` says for each place of the one process at work what the two files
  and its memory hold of `last`; a second process or a fault ends the calm, and it never
  returns.
- *Hotplug.* `WindowCovered`: while the debounce lasts, a note is pending or the pass at
  work will scan again after its end.
- *Clean tool.* `NotedOK`: another program's device at a noted number came since;
  `KeptOK`: whoever held a device since the tool looked is in the map of holders, and is
  off the current device once it has been released.

Model-checked only: everything under fairness (`EventuallyManaged`, `UnpluggedIsDropped`,
`ShutdownCompletes`, `StopHonoured`, `FramesResume`, `EventuallyKnown`, `DiscoveryEnds`,
`ShutdownEnds`, `CleanEnds`), since the prover does not handle ENABLED. No module declares
a RECURSIVE operator.

## 6. Not modelled

- The encoding of ioctls, netlink datagrams and JSON; buffer layout; wording of output.
- Reading serials from sysfs and udev, and the arithmetic of frame intervals.
- The watchdog thread, which only logs.
- `camera_view.rs`: a pure pairing of names for display.
- Process numbers that the system gives to another process between a look at the
  holders and the signal (`loopback.rs:606`).
- That an old state file makes status say active for up to 30 s after serve has hung:
  `StaleMeansLate` is the other direction.
- Argument parsing, error text, packaging, scripts.

## 7. Plan

1. Compose Hotplug's loop with the pass of Supervisor for two cameras.
2. Status of two cameras, and the age of the whole file.
3. The scan of `probe.rs` with its stale list of holders as a module of its own.
4. Proofs of the single steps behind the liveness properties (what each pass makes
   progress in).
