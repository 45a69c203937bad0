----------------------------- MODULE LoopbackPool -----------------------------
(***************************************************************************)
(* create_device_with_options and the device registry behind it: which     *)
(* /dev/video number a camera's loopback gets, and what devices.json says  *)
(* about it afterwards.  Several cam-shim processes (serve, fix) may work  *)
(* at once.  A registry file is Missing, Broken (it does not parse: a      *)
(* write truncates it first) or a registry; updated_at_ms and the labels   *)
(* in it are read by nobody and are left out.  A device is known by its    *)
(* name only, as in Supervisor: cameras may share a name, and a camera may *)
(* be given a device that another program made.                            *)
(***************************************************************************)
EXTENDS Integers

CONSTANTS
    Camera,       \* camera keys
    Slot,         \* /dev/video numbers
    Start,        \* PREFERRED_LOOPBACK_NR_START
    Process,      \* cam-shim processes
    Card,         \* device names cam-shim gives
    OtherCard,    \* names of other programs' loopbacks and of real cameras
    CardOf,       \* camera -> name given, kernel_card_label of its label
    Answers,      \* camera -> names find_loopback_by_label takes for its own
    Disturbances, \* what may go wrong here, a subset of AllDisturbances
    None, Free, Missing, Broken

AllDisturbances == {"crash", "write", "refuse", "foreign"}

Registry == [Camera -> Slot \cup {None}]

ASSUME PoolAssumption ==
    /\ Slot \subseteq Nat /\ Start \in Nat
    /\ Disturbances \subseteq AllDisturbances
    /\ CardOf \in [Camera -> Card]
    /\ Answers \in [Camera -> SUBSET (Card \cup OtherCard)]
    /\ None \notin Slot \cup Camera /\ Free \notin Card \cup OtherCard
    /\ {None, Missing, Broken} \cap Registry = {} /\ Missing # Broken

VARIABLES
    dev,        \* number -> name of the device, or Free
    persistent, \* /var/lib/cam-shim/devices.json
    runtime,    \* /run/cam-shim/devices.json, of an older version
    proc,       \* what each process is doing
    last        \* history: the number each camera's loopback had when it was
                \* last created or found, at first that of the files; None as
                \* soon as there was a crash, a failed write, a broken file or
                \* two processes at work at once

vars == <<dev, persistent, runtime, proc, last>>

Calm == last # None

Nothing == [c \in Camera |-> None]
File == Registry \cup {Missing, Broken}

Idle == [pc |-> "idle", why |-> "none", cam |-> None, slot |-> None,
         mem |-> Nothing]

Pc == {"idle", "persistent", "runtime", "migrate", "migrateWrite",
       "removeRuntime", "create", "retry", "truncate", "write"}

TypeOK ==
    /\ dev \in [Slot -> Card \cup OtherCard \cup {Free}]
    /\ persistent \in File /\ runtime \in File
    /\ proc \in [Process -> [pc: Pc,
                             why: {"none", "resolve", "previous", "assign"},
                             cam: Camera \cup {None}, slot: Slot \cup {None},
                             mem: Registry]]
    /\ \A p \in Process : proc[p].pc # "idle" => proc[p].cam \in Camera
    /\ last \in Registry \cup {None}

-----------------------------------------------------------------------------
(* device_registry.rs on values *)

(* A file that is not there counts as an empty registry. *)
Content(file) == IF file = Missing THEN Nothing ELSE file

Merge(primary, secondary) ==
    [c \in Camera |-> IF primary[c] # None THEN primary[c] ELSE secondary[c]]

(* What the two files together say. *)
Lookup == Merge(Content(persistent), Content(runtime))

FreeSlots == {s \in Slot : dev[s] = Free}

(* Mutant: the loop falls through to the number after the last. *)
MutantPreferredSlot ==
    LET S == {s \in FreeSlots : s >= Start}
        top == CHOOSE s \in Slot : \A r \in Slot : s >= r
    IN  IF S = {} THEN top + 1 ELSE CHOOSE s \in S : \A r \in S : s <= r

(* The lowest free number from Start on; None stands for -1. *)
PreferredSlot ==
    LET S == {s \in FreeSlots : s >= Start}
    IN  IF S = {} THEN None ELSE CHOOSE s \in S : \A r \in S : s <= r

(* Mutant: a registered number below Start is not asked for. *)
MutantResolve(c, registry) ==
    IF registry[c] # None /\ registry[c] >= Start
      THEN registry[c] ELSE PreferredSlot

(* A registered number is asked for even when it is busy. *)
Resolve(c, registry) == IF registry[c] # None THEN registry[c] ELSE PreferredSlot

-----------------------------------------------------------------------------
Init ==
    /\ dev = [s \in Slot |-> Free]
    /\ persistent \in File /\ runtime \in File
    /\ proc = [p \in Process |-> Idle]
    /\ last = IF Broken \in {persistent, runtime} THEN None ELSE Lookup

Becomes(p, q) == proc' = [proc EXCEPT ![p] = q]

(* A number the camera's loopback has from now on, whoever made it. *)
Has(c, s) == last' = IF Calm THEN [last EXCEPT ![c] = s] ELSE None

Alone == \A q \in Process : proc[q] = Idle

(* The loopbacks that find_loopback_by_label may return for c. *)
Answering(c) == {s \in Slot : dev[s] \in Answers[c]}

(* A device that answers to the camera's label is reused as it is. *)
Reuse(p, c) ==
    /\ proc[p] = Idle
    /\ \E s \in Answering(c) :
         /\ Becomes(p, [pc |-> "persistent", why |-> "previous",
                        cam |-> c, slot |-> s, mem |-> Nothing])
         /\ IF Alone THEN Has(c, s) ELSE last' = None
    /\ UNCHANGED <<dev, persistent, runtime>>

BeginCreate(p, c) ==
    /\ proc[p] = Idle /\ Answering(c) = {}
    /\ Becomes(p, [pc |-> "persistent", why |-> "resolve",
                   cam |-> c, slot |-> None, mem |-> Nothing])
    /\ last' = IF Alone THEN last ELSE None
    /\ UNCHANGED <<dev, persistent, runtime>>

-----------------------------------------------------------------------------
(* read_device_registry, called by both lookups and by the assignment.     *)
(* A lookup that fails finds nothing; an assignment whose read fails goes  *)
(* on from an empty registry.                                              *)
Returns(q, registry) ==
    CASE q.why = "resolve"  -> [q EXCEPT !.pc = "create", !.mem = Nothing,
                                         !.slot = Resolve(q.cam, registry)]
      [] q.why = "previous" -> [q EXCEPT !.pc = "persistent", !.mem = Nothing,
                                         !.why = "assign"]
      [] q.why = "assign"   -> [q EXCEPT !.pc = "truncate",
                                         !.mem = [registry EXCEPT ![q.cam] = q.slot]]

ReadPersistent(p) ==
    /\ proc[p].pc = "persistent"
    /\ IF persistent = Broken
         THEN Becomes(p, Returns(proc[p], Nothing))
         ELSE Becomes(p, [proc[p] EXCEPT !.pc = "runtime",
                                         !.mem = Content(persistent)])
    /\ UNCHANGED <<dev, persistent, runtime, last>>

ReadRuntime(p) ==
    /\ proc[p].pc = "runtime"
    /\ CASE runtime = Broken  -> Becomes(p, Returns(proc[p], Nothing))
         [] runtime = Missing -> Becomes(p, Returns(proc[p], proc[p].mem))
         [] OTHER             -> Becomes(p, [proc[p] EXCEPT !.pc = "migrate",
                                               !.mem = Merge(@, runtime)])
    /\ UNCHANGED <<dev, persistent, runtime, last>>

(* Mutant: the file is never written. *)
MutantMigrate(p) ==
    /\ proc[p].pc = "migrate" /\ runtime # Missing /\ persistent # Broken
    /\ Becomes(p, [proc[p] EXCEPT !.pc = "removeRuntime"])
    /\ UNCHANGED <<dev, persistent, runtime, last>>

(* migrate_runtime_registry; the file is written only when it gains by it. *)
Migrate(p) ==
    /\ proc[p].pc = "migrate" /\ runtime # Missing /\ persistent # Broken
    /\ IF Content(persistent) = proc[p].mem
         THEN persistent' = persistent
              /\ Becomes(p, [proc[p] EXCEPT !.pc = "removeRuntime"])
         ELSE persistent' = Broken
              /\ Becomes(p, [proc[p] EXCEPT !.pc = "migrateWrite"])
    /\ UNCHANGED <<dev, runtime, last>>

(* Another process was there before, or is writing right now. *)
MigrateGivesUp(p) ==
    /\ proc[p].pc = "migrate"
    /\ \/ runtime = Missing /\ Becomes(p, Returns(proc[p], proc[p].mem))
       \/ /\ runtime # Missing /\ persistent = Broken
          /\ Becomes(p, Returns(proc[p], Nothing))
    /\ UNCHANGED <<dev, persistent, runtime, last>>

MigrateWrite(p) ==
    /\ proc[p].pc = "migrateWrite"
    /\ persistent' = proc[p].mem
    /\ Becomes(p, [proc[p] EXCEPT !.pc = "removeRuntime"])
    /\ UNCHANGED <<dev, runtime, last>>

RemoveRuntime(p) ==
    /\ proc[p].pc = "removeRuntime"
    /\ runtime' = Missing
    /\ Becomes(p, Returns(proc[p], proc[p].mem))
    /\ UNCHANGED <<dev, persistent, last>>

-----------------------------------------------------------------------------
(* create_with_ioctl, and the other ways to create a device.  A way that   *)
(* fails may do so after the kernel has made its device, which then stays. *)

Made(p, s) ==
    /\ dev' = [dev EXCEPT ![s] = CardOf[proc[p].cam]]
    /\ Has(proc[p].cam, s)
    /\ UNCHANGED <<persistent, runtime>>

Given(p, s) ==
    Becomes(p, [proc[p] EXCEPT !.pc = "persistent", !.why = "previous",
                               !.slot = s])

Asked(p) == IF proc[p].slot \in FreeSlots THEN {proc[p].slot} ELSE FreeSlots

(* Mutant: the number asked for is taken for the one that was given. *)
MutantCreate(p) ==
    /\ proc[p].pc = "create"
    /\ \E s \in Asked(p) :
         /\ Made(p, s)
         /\ Given(p, IF proc[p].slot = None THEN s ELSE proc[p].slot)

(* The kernel picks any number when the one asked for is busy. *)
Create(p) ==
    /\ proc[p].pc = "create"
    /\ \E s \in Asked(p) : Made(p, s) /\ Given(p, s)

(* v4l2loopback-ctl or modprobe do what the ioctl did not. *)
CreateElsewhere(p) ==
    /\ proc[p].pc = "retry"
    /\ \E s \in FreeSlots : Made(p, s) /\ Given(p, s)

(* What a way that fails leaves behind. *)
LeftBehind == {{}} \cup {{s} : s \in FreeSlots}

CreateFails(p) ==
    /\ proc[p].pc \in {"create", "retry"}
    /\ FreeSlots = {} \/ "refuse" \in Disturbances
    /\ \E new \in LeftBehind :
         dev' = [s \in Slot |-> IF s \in new THEN CardOf[proc[p].cam] ELSE dev[s]]
    /\ Becomes(p, IF proc[p].pc = "retry" THEN Idle
                  ELSE [proc[p] EXCEPT !.pc = "retry", !.slot = None])
    /\ UNCHANGED <<persistent, runtime, last>>

-----------------------------------------------------------------------------
(* write_device_registry at the end of assign_loopback_index *)

Truncate(p) ==
    /\ proc[p].pc = "truncate"
    /\ persistent' = Broken
    /\ Becomes(p, [proc[p] EXCEPT !.pc = "write"])
    /\ UNCHANGED <<dev, runtime, last>>

Write(p) ==
    /\ proc[p].pc = "write"
    /\ persistent' = proc[p].mem
    /\ Becomes(p, Idle)
    /\ UNCHANGED <<dev, runtime, last>>

(* The file cannot be opened, or the disk is full after it was truncated.  *)
(* The loopback stays without an entry; a migration just fails the read.   *)
WriteFails(p) ==
    /\ "write" \in Disturbances
    /\ \/ proc[p].pc \in {"truncate", "write"} /\ Becomes(p, Idle)
       \/ proc[p].pc = "migrateWrite" /\ Becomes(p, Returns(proc[p], Nothing))
    /\ last' = None
    /\ UNCHANGED <<dev, persistent, runtime>>

-----------------------------------------------------------------------------
(* The rest of the world *)

(* serve, fix, clean or the program that made it removes a device. *)
RemoveDevice(s) ==
    /\ dev[s] # Free
    /\ dev' = [dev EXCEPT ![s] = Free]
    /\ UNCHANGED <<persistent, runtime, proc, last>>

(* Another program adds a virtual camera, or a real one is plugged in. *)
ForeignDevice(s, k) ==
    /\ "foreign" \in Disturbances /\ dev[s] = Free
    /\ dev' = [dev EXCEPT ![s] = k]
    /\ UNCHANGED <<persistent, runtime, proc, last>>

Crash(p) ==
    /\ "crash" \in Disturbances /\ proc[p] # Idle
    /\ Becomes(p, Idle) /\ last' = None
    /\ UNCHANGED <<dev, persistent, runtime>>

(* /run is emptied, and the kernel's devices are gone. *)
Reboot ==
    /\ "crash" \in Disturbances
    /\ last' = IF runtime = Missing /\ Alone THEN last ELSE None
    /\ runtime' = Missing
    /\ dev' = [s \in Slot |-> Free]
    /\ proc' = [p \in Process |-> Idle]
    /\ UNCHANGED persistent

Work(p) ==
    \/ ReadPersistent(p) \/ ReadRuntime(p) \/ Migrate(p) \/ MigrateGivesUp(p)
    \/ MigrateWrite(p) \/ RemoveRuntime(p)
    \/ Create(p) \/ CreateElsewhere(p) \/ CreateFails(p)
    \/ Truncate(p) \/ Write(p) \/ WriteFails(p)

Next ==
    \/ \E p \in Process :
         \/ Work(p) \/ Crash(p)
         \/ \E c \in Camera : BeginCreate(p, c) \/ Reuse(p, c)
    \/ \E s \in Slot : \/ RemoveDevice(s)
                       \/ \E k \in OtherCard : ForeignDevice(s, k)
    \/ Reboot

Spec == Init /\ [][Next]_vars

-----------------------------------------------------------------------------
(* Properties *)

(* While all is calm, a camera that has had a number is found again: in     *)
(* devices.json, in the file still to be migrated, or with the process that *)
(* is about to register it, whatever else was registered or migrated since. *)
NoForgottenCamera ==
    Calm /\ persistent # Broken =>
        \A c \in Camera : last[c] # None =>
            \/ Lookup[c] # None
            \/ \E p \in Process :
                 proc[p].cam = c /\ proc[p].why \in {"previous", "assign"}

(* While all is calm and no creation is under way, a lookup finds for every *)
(* camera the number its loopback was last really given, whether the kernel *)
(* gave the number asked for or another, whichever way of creating it       *)
(* failed before, late or early, and whatever was migrated in between.      *)
NeverMisleads ==
    Calm /\ Alone => persistent # Broken /\ Lookup = last

(* While all is calm, a camera that devices.json knows when its loopback is *)
(* created gets that number again if it is free then, wherever it lies,     *)
(* unless the ioctl that asks for it fails.                                 *)
ReturnsToItsNumber ==
    [][\A p \in Process :
         Calm' /\ proc[p].pc = "create" /\ proc'[p].pc = "persistent" =>
            LET s == Content(persistent)[proc[p].cam]
            IN  s \in FreeSlots =>
                  proc'[p].slot = s /\ dev'[s] = CardOf[proc[p].cam]]_vars

(* A camera keeps the number it once had. *)
StableIndex ==
    [][\A c \in Camera :
         Calm' /\ last[c] # None => last'[c] = last[c]]_vars
=============================================================================
