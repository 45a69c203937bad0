-------------------------- MODULE LoopbackPoolProofs --------------------------
(* Proofs about LoopbackPool: while all is calm the registry is complete   *)
(* and right, whatever devices come and go.                                *)
EXTENDS LoopbackPool, WellFoundedInduction, TLAPS

Why == {"none", "resolve", "previous", "assign"}

Record == [pc: Pc, why: Why, cam: Camera \cup {None}, slot: Slot \cup {None},
           mem: Registry]

Places(q) ==
    /\ q.pc = "idle" => q = Idle
    /\ q.pc # "idle" => q.cam \in Camera /\ q.why # "none"
    /\ q.pc \in {"create", "retry"} => q.why = "resolve"
    /\ q.pc \in {"truncate", "write"} => q.why = "assign"
    /\ q.why \in {"previous", "assign"} => q.slot \in Slot

TInv == TypeOK /\ \A p \in Process : Places(proc[p])

-----------------------------------------------------------------------------
(* The operators the model is built from *)

(* A set of numbers that is not empty has a least one. *)
LEMMA Least ==
    ASSUME NEW S \in SUBSET Nat, S # {}
    PROVE  \E s \in S : \A r \in S : s <= r
<1>1. \E s \in S : \A r \in S : ~ (<<r, s>> \in OpToRel(<, Nat))
  BY NatLessThanWellFounded, WFMin, Zenon
<1>2. PICK s \in S : \A r \in S : ~ (<<r, s>> \in OpToRel(<, Nat))
  BY <1>1
<1>3. ASSUME NEW r \in S PROVE s <= r
  <2>1. ~ (r < s)
    BY <1>2 DEF OpToRel
  <2> QED
    BY <2>1
<1> QED
  BY <1>2, <1>3

(* preferred_loopback_output_nr asks for a free number or leaves it open.  *)
LEMMA PreferredSlotType ==
    TypeOK => PreferredSlot \in Slot \cup {None}
<1> DEFINE S == {s \in FreeSlots : s >= Start}
<1>1. S \subseteq Slot /\ S \in SUBSET Nat
  BY PoolAssumption DEF FreeSlots
<1>2. CASE S = {}
  BY <1>2 DEF PreferredSlot
<1>3. CASE S # {}
  <2>1. \E s \in S : \A r \in S : s <= r
    BY <1>1, <1>3, Least
  <2>2. (CHOOSE s \in S : \A r \in S : s <= r) \in S
    BY <2>1, Zenon
  <2>3. PreferredSlot = CHOOSE s \in S : \A r \in S : s <= r
    BY <1>3 DEF PreferredSlot
  <2> QED
    BY <2>2, <2>3, <1>1
<1> QED
  BY <1>2, <1>3

LEMMA ResolveType ==
    ASSUME TypeOK, NEW c \in Camera, NEW reg \in Registry
    PROVE  Resolve(c, reg) \in Slot \cup {None}
BY PreferredSlotType DEF Resolve, Registry

LEMMA ContentType ==
    ASSUME NEW file \in File, file # Broken
    PROVE  Content(file) \in Registry
BY DEF Content, File, Registry, Nothing

LEMMA NothingType == Nothing \in Registry
BY DEF Nothing, Registry

LEMMA MergeType ==
    ASSUME NEW a \in Registry, NEW b \in Registry
    PROVE  Merge(a, b) \in Registry
BY DEF Merge, Registry

(* What read_device_registry leaves its caller with, field by field. *)
LEMMA ReturnsFields ==
    ASSUME NEW q \in Record, NEW reg \in Registry
    PROVE  /\ q.why = "resolve" =>
                Returns(q, reg) =
                  [pc |-> "create", why |-> "resolve", cam |-> q.cam,
                   slot |-> Resolve(q.cam, reg), mem |-> Nothing]
           /\ q.why = "previous" =>
                Returns(q, reg) =
                  [pc |-> "persistent", why |-> "assign", cam |-> q.cam,
                   slot |-> q.slot, mem |-> Nothing]
           /\ q.why = "assign" =>
                Returns(q, reg) =
                  [pc |-> "truncate", why |-> "assign", cam |-> q.cam,
                   slot |-> q.slot, mem |-> [reg EXCEPT ![q.cam] = q.slot]]
BY DEF Returns, Record

LEMMA ReturnsType ==
    ASSUME TypeOK, NEW q \in Record, NEW reg \in Registry,
           q.cam \in Camera, q.why # "none", Places(q)
    PROVE  /\ Returns(q, reg) \in Record
           /\ Places(Returns(q, reg))
           /\ Returns(q, reg).pc # "idle"
           /\ Returns(q, reg).cam = q.cam
<1>1. q.why \in {"resolve", "previous", "assign"}
  BY DEF Record, Why
<1>2. Resolve(q.cam, reg) \in Slot \cup {None}
  BY ResolveType
<1>3. [reg EXCEPT ![q.cam] = q.slot] \in Registry
  BY DEF Registry, Record
<1>4. CASE q.why = "resolve"
  BY <1>4, <1>2, ReturnsFields, NothingType DEF Record, Pc, Why, Places
<1>5. CASE q.why = "previous"
  BY <1>5, ReturnsFields, NothingType DEF Record, Pc, Why, Places
<1>6. CASE q.why = "assign"
  BY <1>6, <1>3, ReturnsFields DEF Record, Pc, Why, Places
<1> QED
  BY <1>1, <1>4, <1>5, <1>6

LEMMA IdleFacts ==
    /\ Idle \in Record /\ Places(Idle)
    /\ Idle.pc = "idle" /\ Idle.why = "none"
BY NothingType DEF Idle, Record, Pc, Why, Places

(* A step of one process changes its record only. *)
LEMMA BecomesType ==
    ASSUME TInv, NEW p \in Process, NEW q \in Record, Becomes(p, q), Places(q)
    PROVE  /\ proc' \in [Process -> Record]
           /\ proc'[p] = q
           /\ \A r \in Process : r # p => proc'[r] = proc[r]
           /\ \A r \in Process : Places(proc'[r])
           /\ \A r \in Process : proc'[r].pc # "idle" => proc'[r].cam \in Camera
<1>1. proc \in [Process -> Record]
  BY DEF TInv, TypeOK, Record, Why
<1>2. /\ proc' \in [Process -> Record] /\ proc'[p] = q
      /\ \A r \in Process : r # p => proc'[r] = proc[r]
  BY <1>1 DEF Becomes
<1>3. \A r \in Process : Places(proc'[r])
  BY <1>2 DEF TInv
<1> QED
  BY <1>2, <1>3 DEF Places

-----------------------------------------------------------------------------
(* Type correctness *)

Devices == [Slot -> Card \cup OtherCard \cup {Free}]

Rest ==
    /\ dev \in Devices /\ persistent \in File /\ runtime \in File
    /\ last \in Registry \cup {None}

LEMMA TInvParts ==
    TInv <=> /\ Rest /\ proc \in [Process -> Record]
             /\ \A p \in Process : Places(proc[p])
<1>1. TInv => Rest /\ proc \in [Process -> Record]
  BY DEF TInv, TypeOK, Rest, Devices, Record, Why
<1>2. ASSUME Rest, proc \in [Process -> Record],
             \A p \in Process : Places(proc[p])
      PROVE  TInv
  BY <1>2 DEF TInv, TypeOK, Rest, Devices, Record, Why, Places
<1> QED
  BY <1>1, <1>2 DEF TInv

LEMMA StepTInv ==
    ASSUME TInv, NEW p \in Process, NEW q \in Record, Becomes(p, q), Places(q),
           Rest'
    PROVE  TInv'
<1>1. proc' \in [Process -> Record] /\ \A r \in Process : Places(proc'[r])
  BY BecomesType
<1>2. \A r \in Process : proc'[r].pc # "idle" => proc'[r].cam \in Camera
  BY BecomesType
<1> QED
  BY <1>1, <1>2 DEF TInv, TypeOK, Rest, Devices, Record, Why

LEMMA KeepTInv ==
    ASSUME TInv, Rest', proc' = proc \/ proc' = [p \in Process |-> Idle]
    PROVE  TInv'
<1>1. proc' \in [Process -> Record] /\ \A r \in Process : Places(proc'[r])
  BY TInvParts, IdleFacts
<1>2. \A r \in Process : proc'[r].pc # "idle" => proc'[r].cam \in Camera
  BY <1>1 DEF Places
<1> QED
  BY <1>1, <1>2 DEF TInv, TypeOK, Rest, Devices, Record, Why

LEMMA InitTInv == Init => TInv
<1> SUFFICES ASSUME Init PROVE TInv
  OBVIOUS
<1>1. dev \in Devices /\ persistent \in File /\ runtime \in File
  BY DEF Init, Devices
<1>2. last \in Registry \cup {None}
  <2>1. CASE Broken \in {persistent, runtime}
    BY <2>1 DEF Init
  <2>2. CASE Broken \notin {persistent, runtime}
    <3>1. Lookup \in Registry
      BY <2>2, ContentType, MergeType DEF Init, Lookup
    <3> QED
      BY <2>2, <3>1 DEF Init
  <2> QED
    BY <2>1, <2>2
<1>3. proc \in [Process -> Record] /\ \A p \in Process : Places(proc[p])
  BY IdleFacts DEF Init
<1> QED
  BY <1>1, <1>2, <1>3, TInvParts DEF Rest

(* What a busy process is at: its record, written out. *)
LEMMA BusyFacts ==
    ASSUME TInv, NEW p \in Process
    PROVE  /\ proc[p] \in Record /\ Places(proc[p])
           /\ proc[p].pc # "idle" => /\ proc[p].cam \in Camera
                                     /\ proc[p].why # "none"
BY TInvParts DEF Places

(* The history keeps its type when a camera is given a number. *)
LEMMA HasType ==
    ASSUME TInv, NEW c \in Camera, NEW s \in Slot, Has(c, s)
    PROVE  last' \in Registry \cup {None}
<1>1. CASE Calm
  <2>1. last \in Registry
    BY <1>1, TInvParts DEF Calm, Rest
  <2>2. [last EXCEPT ![c] = s] \in Registry
    BY <2>1 DEF Registry
  <2> QED
    BY <1>1, <2>2 DEF Has
<1>2. CASE ~Calm
  BY <1>2 DEF Has
<1> QED
  BY <1>1, <1>2

LEMMA NextTInv == TInv /\ [Next]_vars => TInv'
<1> SUFFICES ASSUME TInv, [Next]_vars PROVE TInv'
  OBVIOUS
<1> USE TInvParts DEF Rest
<1>1. ASSUME NEW p \in Process, NEW c \in Camera, BeginCreate(p, c) PROVE TInv'
  <2> DEFINE q == [pc |-> "persistent", why |-> "resolve",
                   cam |-> c, slot |-> None, mem |-> Nothing]
  <2>1. q \in Record /\ Places(q)
    BY NothingType DEF Record, Pc, Why, Places
  <2>2. last' \in Registry \cup {None} /\ Becomes(p, q)
    BY <1>1 DEF BeginCreate
  <2> QED
    BY <1>1, <2>1, <2>2, StepTInv DEF BeginCreate
<1>8. ASSUME NEW p \in Process, NEW c \in Camera, Reuse(p, c) PROVE TInv'
  <2>1. PICK s \in Slot :
          /\ Becomes(p, [pc |-> "persistent", why |-> "previous",
                         cam |-> c, slot |-> s, mem |-> Nothing])
          /\ Has(c, s) \/ last' = None
    BY <1>8 DEF Reuse, Answering
  <2> DEFINE q == [pc |-> "persistent", why |-> "previous",
                   cam |-> c, slot |-> s, mem |-> Nothing]
  <2>2. q \in Record /\ Places(q)
    BY NothingType DEF Record, Pc, Why, Places
  <2>3. last' \in Registry \cup {None}
    BY <2>1, HasType
  <2> QED
    BY <1>8, <2>1, <2>2, <2>3, StepTInv DEF Reuse
<1>2. ASSUME NEW p \in Process, Work(p) PROVE TInv'
  <2> DEFINE q == proc[p]
  <2>1. q \in Record /\ Places(q)
        /\ (q.pc # "idle" => q.cam \in Camera /\ q.why # "none")
    BY BusyFacts
  <2>2. ASSUME NEW reg \in Registry, Becomes(p, Returns(proc[p], reg)), Rest',
               q.pc # "idle"
        PROVE  TInv'
    <3>1. Returns(q, reg) \in Record /\ Places(Returns(q, reg))
      BY <2>1, <2>2, ReturnsType DEF TInv
    <3> QED
      BY <2>2, <3>1, StepTInv
  <2>3. ASSUME NEW pc \in {"runtime", "migrateWrite", "removeRuntime", "migrate"},
               NEW m \in Registry, q.pc # "idle"
        PROVE  LET r == [q EXCEPT !.pc = pc, !.mem = m]
               IN  r \in Record /\ Places(r)
    BY <2>1, <2>3 DEF Record, Pc, Why, Places
  <2>4. CASE ReadPersistent(p)
    <3>1. CASE persistent = Broken
      BY <2>4, <3>1, <2>2, NothingType DEF ReadPersistent
    <3>2. CASE persistent # Broken
      <4>1. Content(persistent) \in Registry
        BY <3>2, ContentType
      <4> QED
        BY <2>4, <3>2, <4>1, <2>3, StepTInv DEF ReadPersistent
    <3> QED
      BY <3>1, <3>2
  <2>5. CASE ReadRuntime(p)
    <3>1. CASE runtime \in {Broken, Missing}
      <4>1. q.mem \in Registry
        BY <2>1 DEF Record
      <4> QED
        BY <2>5, <3>1, <4>1, <2>2, NothingType, PoolAssumption DEF ReadRuntime
    <3>2. CASE runtime \notin {Broken, Missing}
      <4>1. Merge(q.mem, runtime) \in Registry
        BY <2>1, <3>2, MergeType DEF Record, File
      <4>2. Becomes(p, [q EXCEPT !.pc = "migrate", !.mem = Merge(q.mem, runtime)])
        BY <2>5, <3>2 DEF ReadRuntime
      <4> QED
        BY <2>5, <4>1, <4>2, <2>3, StepTInv DEF ReadRuntime
    <3> QED
      BY <3>1, <3>2
  <2>6. CASE Migrate(p)
    <3>1. q.mem \in Registry /\ q.pc # "idle"
      BY <2>1, <2>6 DEF Record, Migrate
    <3>2. ASSUME NEW pc \in {"migrateWrite", "removeRuntime"}
          PROVE  LET r == [q EXCEPT !.pc = pc] IN r \in Record /\ Places(r)
      BY <2>1, <3>1 DEF Record, Pc, Why, Places
    <3>3. Rest'
      BY <2>6 DEF Migrate, File
    <3> QED
      BY <2>6, <3>2, <3>3, StepTInv DEF Migrate
  <2>7. CASE MigrateGivesUp(p)
    <3>1. q.mem \in Registry
      BY <2>1 DEF Record
    <3> QED
      BY <2>7, <3>1, <2>2, NothingType DEF MigrateGivesUp
  <2>8. CASE MigrateWrite(p)
    <3>1. q.mem \in Registry /\ q.pc # "idle"
      BY <2>1, <2>8 DEF Record, MigrateWrite
    <3>2. LET r == [q EXCEPT !.pc = "removeRuntime"] IN r \in Record /\ Places(r)
      BY <2>1, <3>1 DEF Record, Pc, Why, Places
    <3> QED
      BY <2>8, <3>1, <3>2, StepTInv DEF MigrateWrite, File
  <2>9. CASE RemoveRuntime(p)
    <3>1. q.mem \in Registry
      BY <2>1 DEF Record
    <3> QED
      BY <2>9, <3>1, <2>2 DEF RemoveRuntime, File
  <2>10. ASSUME NEW s \in Slot, Made(p, s), Given(p, s),
                q.pc \in {"create", "retry"}
         PROVE  TInv'
    <3>1. LET r == [q EXCEPT !.pc = "persistent", !.why = "previous", !.slot = s]
          IN  r \in Record /\ Places(r)
      BY <2>1, <2>10 DEF Record, Pc, Why, Places
    <3>2. dev' \in Devices
      BY <2>1, <2>10, PoolAssumption DEF Made, Devices
    <3>3. last' \in Registry \cup {None}
      BY <2>1, <2>10, HasType DEF Made
    <3> QED
      BY <2>10, <3>1, <3>2, <3>3, StepTInv DEF Made, Given
  <2>11. CASE Create(p) \/ CreateElsewhere(p)
    <3>1. FreeSlots \subseteq Slot /\ Asked(p) \subseteq Slot
      BY DEF FreeSlots, Asked
    <3>2. \E s \in Slot : Made(p, s) /\ Given(p, s)
      BY <2>11, <3>1 DEF Create, CreateElsewhere
    <3>3. q.pc \in {"create", "retry"}
      BY <2>11 DEF Create, CreateElsewhere
    <3> QED
      BY <3>2, <3>3, <2>10
  <2>16. ASSUME Becomes(p, Idle), Rest' PROVE TInv'
    BY <2>16, IdleFacts, StepTInv
  <2>12. CASE CreateFails(p)
    <3>1. dev' \in Devices
      BY <2>1, <2>12, PoolAssumption DEF CreateFails, Devices
    <3>2. Rest' /\ q.pc \in {"create", "retry"}
      BY <2>12, <3>1 DEF CreateFails
    <3>3. LET r == [q EXCEPT !.pc = "retry", !.slot = None]
          IN  r \in Record /\ Places(r)
      BY <2>1, <3>2 DEF Record, Pc, Why, Places
    <3>4. CASE q.pc = "retry"
      BY <2>12, <3>2, <3>4, <2>16 DEF CreateFails
    <3>5. CASE q.pc # "retry"
      BY <2>12, <3>2, <3>3, <3>5, StepTInv DEF CreateFails
    <3> QED
      BY <3>4, <3>5
  <2>13. CASE Truncate(p)
    <3>1. LET r == [q EXCEPT !.pc = "write"] IN r \in Record /\ Places(r)
      BY <2>1, <2>13 DEF Truncate, Record, Pc, Why, Places
    <3>2. Rest' /\ Becomes(p, [q EXCEPT !.pc = "write"])
      BY <2>13 DEF Truncate, File
    <3> QED
      BY <3>1, <3>2, StepTInv
  <2>14. CASE Write(p)
    <3>1. q.mem \in Registry /\ q.slot \in Slot
      BY <2>1, <2>14 DEF Record, Write, Places
    <3>2. Rest' /\ Becomes(p, Idle)
      BY <2>14, <3>1 DEF Write, File
    <3> QED
      BY <3>2, <2>16
  <2>15. CASE WriteFails(p)
    <3>1. Rest'
      BY <2>15 DEF WriteFails
    <3>2. CASE Becomes(p, Idle)
      BY <3>1, <3>2, <2>16
    <3>3. CASE q.pc = "migrateWrite" /\ Becomes(p, Returns(proc[p], Nothing))
      BY <3>1, <3>3, <2>2, NothingType
    <3> QED
      BY <2>15, <3>2, <3>3 DEF WriteFails
  <2> QED
    BY <1>2, <2>4, <2>5, <2>6, <2>7, <2>8, <2>9, <2>11, <2>12, <2>13, <2>14,
       <2>15 DEF Work
<1>3. ASSUME NEW p \in Process, Crash(p) PROVE TInv'
  BY <1>3, IdleFacts, StepTInv DEF Crash
<1>4. ASSUME NEW s \in Slot, RemoveDevice(s) PROVE TInv'
  BY <1>4, KeepTInv DEF RemoveDevice, Devices
<1>5. ASSUME NEW s \in Slot, NEW k \in OtherCard, ForeignDevice(s, k)
      PROVE  TInv'
  <2>1. dev' \in Devices
    BY <1>5 DEF ForeignDevice, Devices
  <2> QED
    BY <1>5, <2>1, KeepTInv DEF ForeignDevice
<1>6. CASE Reboot
  <2>1. dev' \in Devices /\ runtime' \in File
    BY <1>6 DEF Reboot, Devices, File
  <2>2. last' \in Registry \cup {None}
    BY <1>6 DEF Reboot
  <2> QED
    BY <1>6, <2>1, <2>2, KeepTInv DEF Reboot
<1>7. CASE UNCHANGED vars
  BY <1>7, KeepTInv DEF vars
<1> QED
  BY <1>1, <1>2, <1>3, <1>4, <1>5, <1>6, <1>7, <1>8 DEF Next

LEMMA TInvInvariant == Spec => []TInv
  BY InitTInv, NextTInv, PTL DEF Spec

(* Numbers, files and the processes' records keep their types: what is     *)
(* registered, asked for and created is always a number there is.          *)
THEOREM TypeCorrect == Spec => []TypeOK
<1>1. TInv => TypeOK
  BY DEF TInv
<1> QED
  BY <1>1, TInvInvariant, PTL

-----------------------------------------------------------------------------
(* The strengthening: what a busy process may take for granted while all   *)
(* is calm.  q is its record, file and run are the two files and l is the  *)
(* history.  The devices do not come into it.                              *)

Known(file, run) == Merge(Content(file), Content(run))

(* reg is right, but for the camera whose new number is not in it yet. *)
Right(q, reg, l) ==
    \A c \in Camera :
        c # q.cam \/ q.why \in {"none", "resolve"} => reg[c] = l[c]

Good(q, file, run, l) ==
    /\ q.why \in {"previous", "assign"} => l[q.cam] = q.slot
    /\ q.pc \in {"idle", "persistent", "runtime", "migrate"} =>
         file # Broken /\ Right(q, Known(file, run), l)
    /\ q.pc = "runtime" => q.mem = Content(file)
    /\ q.pc = "migrate" => run # Missing /\ q.mem = Merge(Content(file), run)
    /\ q.pc = "migrateWrite" => file = Broken /\ Right(q, q.mem, l)
    /\ q.pc = "removeRuntime" =>
         file # Broken /\ q.mem = Content(file) /\ Right(q, q.mem, l)
    /\ q.pc \in {"create", "retry", "truncate"} =>
         file # Broken /\ run = Missing /\ Right(q, Content(file), l)
    /\ q.pc = "create" =>
         (Content(file)[q.cam] # None => q.slot = Content(file)[q.cam])
    /\ q.pc \in {"truncate", "write"} => run = Missing /\ q.mem = l
    /\ q.pc = "write" => file = Broken

CalmInv ==
    Calm =>
        /\ runtime # Broken
        /\ \A p, q \in Process : proc[p] # Idle /\ proc[q] # Idle => p = q
        /\ \A p \in Process :
             proc[p] # Idle => Good(proc[p], persistent, runtime, last)
        /\ Alone => Good(Idle, persistent, runtime, last)

IInv == TInv /\ CalmInv

(* A registry merged with a file that is not there is the registry. *)
LEMMA KnownMissing ==
    ASSUME NEW file \in File, file # Broken
    PROVE  Known(file, Missing) = Content(file)
<1>1. Content(file) \in Registry
  BY ContentType
<1>2. Content(Missing) = Nothing
  BY DEF Content
<1> QED
  BY <1>1, <1>2 DEF Known, Merge, Registry, Nothing

(* The caller of read_device_registry got what is on record. *)
LEMMA ReturnsGood ==
    ASSUME TInv, NEW q \in Record, NEW file, NEW l \in Registry,
           NEW reg \in Registry,
           Places(q), q.cam \in Camera, q.why # "none", q.pc # "idle",
           q.why \in {"previous", "assign"} => l[q.cam] = q.slot,
           file # Broken, reg = Content(file), Right(q, reg, l)
    PROVE  Good(Returns(q, reg), file, Missing, l)
<1>1. q.why \in {"resolve", "previous", "assign"}
  BY DEF Record, Why
<1>2. CASE q.why = "resolve"
  <2>1. PICK r : r = Returns(q, reg)
    OBVIOUS
  <2>2. r.pc = "create" /\ r.why = "resolve" /\ r.cam = q.cam
        /\ r.slot = Resolve(q.cam, reg)
    BY <2>1, <1>2, ReturnsFields
  <2>3. Right(r, reg, l)
    BY <2>2, <1>2 DEF Right
  <2> QED
    BY <2>1, <2>2, <2>3 DEF Good, Resolve
<1>3. CASE q.why = "previous"
  <2>1. PICK r : r = Returns(q, reg)
    OBVIOUS
  <2>2. r.pc = "persistent" /\ r.why = "assign" /\ r.cam = q.cam
        /\ r.slot = q.slot
    BY <2>1, <1>3, ReturnsFields
  <2>3. reg = [c \in Camera |-> reg[c]] /\ Content(Missing) = Nothing
    BY DEF Registry, Content
  <2>4. Known(file, Missing) = reg
    BY <2>3 DEF Known, Merge, Nothing
  <2>5. Right(r, Known(file, Missing), l)
    BY <2>2, <2>4, <1>3 DEF Right
  <2> QED
    BY <2>1, <2>2, <2>5, <1>3 DEF Good
<1>4. CASE q.why = "assign"
  <2>1. PICK r : r = Returns(q, reg)
    OBVIOUS
  <2>2. r.pc = "truncate" /\ r.why = "assign" /\ r.cam = q.cam
        /\ r.slot = q.slot /\ r.mem = [reg EXCEPT ![q.cam] = q.slot]
    BY <2>1, <1>4, ReturnsFields
  <2>3. r.mem = l
    BY <2>2, <1>4 DEF Right, Registry
  <2>4. Right(r, Content(file), l)
    BY <2>2, <1>4 DEF Right
  <2> QED
    BY <2>1, <2>2, <2>3, <2>4, <1>4 DEF Good
<1> QED
  BY <1>1, <1>2, <1>3, <1>4

(* A step of the only busy process. *)
LEMMA StepCalm ==
    ASSUME TInv, NEW p \in Process, NEW r \in Record, Becomes(p, r), Places(r),
           \A o \in Process : o # p => proc[o] = Idle,
           runtime' # Broken, Good(r, persistent', runtime', last')
    PROVE  CalmInv'
<1>1. proc'[p] = r /\ \A o \in Process : o # p => proc'[o] = Idle
  BY BecomesType
<1>2. \A o \in Process :
        proc'[o] # Idle => Good(proc'[o], persistent', runtime', last')
  BY <1>1
<1>3. Alone' => Good(Idle, persistent', runtime', last')
  BY <1>1 DEF Alone
<1> QED
  BY <1>1, <1>2, <1>3 DEF CalmInv

LEMMA InitCalm == Init => CalmInv
<1> SUFFICES ASSUME Init, Calm PROVE CalmInv
  BY DEF CalmInv
<1>1. Broken \notin {persistent, runtime}
  BY DEF Init, Calm
<1>2. last = Known(persistent, runtime)
  BY <1>1 DEF Init, Lookup, Known
<1>3. Good(Idle, persistent, runtime, last)
  BY <1>1, <1>2, IdleFacts DEF Good, Right
<1> QED
  BY <1>1, <1>3 DEF Init, CalmInv

(* What a step of a busy process starts from. *)
LEMMA BusyCalm ==
    ASSUME IInv, Calm, NEW p \in Process, proc[p].pc # "idle"
    PROVE  /\ TInv /\ runtime # Broken /\ last \in Registry
           /\ persistent \in File /\ runtime \in File
           /\ Good(proc[p], persistent, runtime, last)
           /\ \A o \in Process : o # p => proc[o] = Idle
           /\ proc[p] \in Record /\ Places(proc[p])
           /\ proc[p].cam \in Camera /\ proc[p].why # "none"
<1>1. TInv /\ proc[p] # Idle
  BY IdleFacts DEF IInv
<1>2. last \in Registry /\ persistent \in File /\ runtime \in File
  BY <1>1, TInvParts DEF Rest, Calm
<1> QED
  BY <1>1, <1>2, BusyFacts DEF IInv, CalmInv

(* One lemma per action: as long as the step keeps the calm, it keeps what *)
(* the calm promises.                                                      *)

(* What the start of a call goes from. *)
LEMMA AloneCalm ==
    ASSUME IInv, Calm, Alone
    PROVE  /\ TInv /\ runtime # Broken /\ last \in Registry
           /\ persistent # Broken
           /\ \A c \in Camera : Known(persistent, runtime)[c] = last[c]
<1>1. TInv /\ Good(Idle, persistent, runtime, last) /\ runtime # Broken
  BY DEF IInv, CalmInv
<1>2. last \in Registry
  BY <1>1, TInvParts DEF Rest, Calm
<1> QED
  BY <1>1, <1>2, IdleFacts DEF Good, Right

LEMMA BeginCreateCalm ==
    ASSUME IInv, Calm', NEW p \in Process, NEW c \in Camera, BeginCreate(p, c)
    PROVE  CalmInv'
<1>1. Calm /\ last' = last /\ Alone
  BY DEF BeginCreate, Calm
<1>2. /\ TInv /\ runtime # Broken /\ persistent # Broken
      /\ \A d \in Camera : Known(persistent, runtime)[d] = last[d]
  BY <1>1, AloneCalm
<1>3. PICK r : r = [pc |-> "persistent", why |-> "resolve",
                    cam |-> c, slot |-> None, mem |-> Nothing]
  OBVIOUS
<1>4. r \in Record /\ Places(r) /\ Becomes(p, r)
  BY <1>3, NothingType DEF BeginCreate, Record, Pc, Why, Places
<1>5. Good(r, persistent, runtime, last)
  BY <1>2, <1>3 DEF Good, Right
<1> QED
  BY <1>1, <1>2, <1>4, <1>5, StepCalm DEF BeginCreate, Alone

LEMMA ReuseCalm ==
    ASSUME IInv, Calm', NEW p \in Process, NEW c \in Camera, Reuse(p, c)
    PROVE  CalmInv'
<1>1. PICK s \in Slot :
        /\ Becomes(p, [pc |-> "persistent", why |-> "previous",
                       cam |-> c, slot |-> s, mem |-> Nothing])
        /\ Alone /\ Has(c, s)
  BY DEF Reuse, Answering, Calm
<1>2. Calm /\ last' = [last EXCEPT ![c] = s]
  BY <1>1 DEF Has, Calm
<1>3. /\ TInv /\ runtime # Broken /\ persistent # Broken /\ last \in Registry
      /\ \A d \in Camera : Known(persistent, runtime)[d] = last[d]
  BY <1>1, <1>2, AloneCalm
<1>4. PICK r : r = [pc |-> "persistent", why |-> "previous",
                    cam |-> c, slot |-> s, mem |-> Nothing]
  OBVIOUS
<1>5. r \in Record /\ Places(r) /\ Becomes(p, r)
  BY <1>1, <1>4, NothingType DEF Record, Pc, Why, Places
<1>6. last'[c] = s /\ \A d \in Camera : d # c => last'[d] = last[d]
  BY <1>2, <1>3 DEF Registry
<1>7. Good(r, persistent, runtime, last')
  BY <1>3, <1>4, <1>6 DEF Good, Right
<1> QED
  BY <1>1, <1>3, <1>5, <1>7, StepCalm DEF Reuse, Alone

LEMMA ReadPersistentCalm ==
    ASSUME IInv, Calm', NEW p \in Process, ReadPersistent(p)
    PROVE  CalmInv'
<1> DEFINE q == proc[p]
<1>1. Calm /\ q.pc = "persistent"
  BY DEF ReadPersistent, Calm
<1>2. /\ TInv /\ runtime # Broken /\ persistent \in File
      /\ Good(q, persistent, runtime, last)
      /\ \A o \in Process : o # p => proc[o] = Idle
      /\ q \in Record /\ Places(q) /\ q.cam \in Camera /\ q.why # "none"
  BY <1>1, BusyCalm
<1>3. persistent # Broken /\ Content(persistent) \in Registry
  BY <1>1, <1>2, ContentType DEF Good
<1>4. PICK r : r = [q EXCEPT !.pc = "runtime", !.mem = Content(persistent)]
  OBVIOUS
<1>5. /\ r \in Record /\ r.pc = "runtime" /\ r.mem = Content(persistent)
      /\ r.cam = q.cam /\ r.why = q.why /\ r.slot = q.slot
  BY <1>2, <1>3, <1>4 DEF Record, Pc
<1>6. Places(r) /\ Becomes(p, r)
  BY <1>1, <1>2, <1>3, <1>4, <1>5 DEF Places, ReadPersistent
<1>7. Good(r, persistent, runtime, last)
  BY <1>1, <1>2, <1>3, <1>5 DEF Good, Right
<1> QED
  BY <1>2, <1>5, <1>6, <1>7, StepCalm DEF ReadPersistent

LEMMA ReadRuntimeCalm ==
    ASSUME IInv, Calm', NEW p \in Process, ReadRuntime(p)
    PROVE  CalmInv'
<1> DEFINE q == proc[p]
<1>1. Calm /\ q.pc = "runtime"
  BY DEF ReadRuntime, Calm
<1>2. /\ TInv /\ runtime # Broken /\ last \in Registry
      /\ persistent \in File /\ runtime \in File
      /\ Good(q, persistent, runtime, last)
      /\ \A o \in Process : o # p => proc[o] = Idle
      /\ q \in Record /\ Places(q) /\ q.cam \in Camera /\ q.why # "none"
  BY <1>1, BusyCalm
<1>3. /\ persistent # Broken /\ Right(q, Known(persistent, runtime), last)
      /\ q.mem = Content(persistent) /\ q.mem \in Registry
      /\ q.why \in {"previous", "assign"} => last[q.cam] = q.slot
  BY <1>1, <1>2 DEF Good, Record
<1>4. CASE runtime = Missing
  <2>1. Right(q, q.mem, last)
    BY <1>2, <1>3, <1>4, KnownMissing
  <2>2. PICK r : r = Returns(q, q.mem)
    OBVIOUS
  <2>3. r \in Record /\ Places(r)
    BY <1>1, <1>2, <1>3, <2>2, ReturnsType DEF TInv
  <2>4. Good(r, persistent, runtime, last)
    BY <1>1, <1>2, <1>3, <1>4, <2>1, <2>2, ReturnsGood
  <2>5. Becomes(p, r)
    BY <1>2, <1>4, <2>2 DEF ReadRuntime
  <2> QED
    BY <1>2, <2>3, <2>4, <2>5, StepCalm DEF ReadRuntime
<1>5. CASE runtime # Missing
  <2>1. runtime \in Registry
    BY <1>2, <1>5 DEF File
  <2>2. PICK r : r = [q EXCEPT !.pc = "migrate", !.mem = Merge(@, runtime)]
    OBVIOUS
  <2>3. Merge(q.mem, runtime) \in Registry
    BY <1>3, <2>1, MergeType
  <2>4. /\ r \in Record /\ r.pc = "migrate" /\ r.mem = Merge(q.mem, runtime)
        /\ r.cam = q.cam /\ r.why = q.why /\ r.slot = q.slot
    BY <1>2, <2>2, <2>3 DEF Record, Pc
  <2>5. Becomes(p, r)
    BY <1>2, <1>5, <2>2 DEF ReadRuntime
  <2>6. Places(r)
    BY <1>1, <1>2, <2>4 DEF Places
  <2>7. Good(r, persistent, runtime, last)
    BY <1>1, <1>3, <1>5, <2>4 DEF Good, Right
  <2> QED
    BY <1>2, <2>4, <2>5, <2>6, <2>7, StepCalm DEF ReadRuntime
<1> QED
  BY <1>4, <1>5

LEMMA MigrateCalm ==
    ASSUME IInv, Calm', NEW p \in Process, Migrate(p)
    PROVE  CalmInv'
<1> DEFINE q == proc[p]
<1>1. Calm /\ q.pc = "migrate"
  BY DEF Migrate, Calm
<1>2. /\ TInv /\ runtime # Broken
      /\ Good(q, persistent, runtime, last)
      /\ \A o \in Process : o # p => proc[o] = Idle
      /\ q \in Record /\ Places(q) /\ q.cam \in Camera /\ q.why # "none"
  BY <1>1, BusyCalm
<1>3. /\ persistent # Broken /\ Right(q, Known(persistent, runtime), last)
      /\ runtime # Missing /\ q.mem = Merge(Content(persistent), runtime)
  BY <1>1, <1>2 DEF Good
<1>4. Right(q, q.mem, last)
  BY <1>3 DEF Known, Content
<1>5. ASSUME NEW pc \in {"removeRuntime", "migrateWrite"}
      PROVE  LET r == [q EXCEPT !.pc = pc]
             IN  /\ r \in Record /\ Places(r) /\ r.pc = pc /\ r.mem = q.mem
                 /\ r.cam = q.cam /\ r.why = q.why /\ r.slot = q.slot
  BY <1>1, <1>2 DEF Record, Pc, Places
<1>6. CASE Content(persistent) = q.mem
  <2>1. PICK r : r = [q EXCEPT !.pc = "removeRuntime"]
    OBVIOUS
  <2>2. /\ r \in Record /\ Places(r) /\ r.pc = "removeRuntime"
        /\ r.mem = q.mem /\ r.cam = q.cam /\ r.why = q.why /\ r.slot = q.slot
    BY <1>5, <2>1
  <2>3. Becomes(p, r) /\ persistent' = persistent
    BY <1>6, <2>1 DEF Migrate
  <2>4. Good(r, persistent, runtime, last)
    BY <1>1, <1>2, <1>3, <1>4, <1>6, <2>2 DEF Good, Right
  <2> QED
    BY <1>2, <2>2, <2>3, <2>4, StepCalm DEF Migrate
<1>7. CASE Content(persistent) # q.mem
  <2>1. PICK r : r = [q EXCEPT !.pc = "migrateWrite"]
    OBVIOUS
  <2>2. /\ r \in Record /\ Places(r) /\ r.pc = "migrateWrite"
        /\ r.mem = q.mem /\ r.cam = q.cam /\ r.why = q.why /\ r.slot = q.slot
    BY <1>5, <2>1
  <2>3. Becomes(p, r) /\ persistent' = Broken
    BY <1>7, <2>1 DEF Migrate
  <2>4. Good(r, Broken, runtime, last)
    BY <1>1, <1>2, <1>4, <2>2 DEF Good, Right
  <2> QED
    BY <1>2, <2>2, <2>3, <2>4, StepCalm DEF Migrate
<1> QED
  BY <1>6, <1>7

LEMMA MigrateGivesUpCalm ==
    ASSUME IInv, Calm', NEW p \in Process, MigrateGivesUp(p)
    PROVE  FALSE
<1>1. Calm /\ proc[p].pc = "migrate"
  BY DEF MigrateGivesUp, Calm
<1>2. Good(proc[p], persistent, runtime, last)
  BY <1>1, BusyCalm
<1> QED
  BY <1>1, <1>2 DEF MigrateGivesUp, Good

LEMMA MigrateWriteCalm ==
    ASSUME IInv, Calm', NEW p \in Process, MigrateWrite(p)
    PROVE  CalmInv'
<1> DEFINE q == proc[p]
<1>1. Calm /\ q.pc = "migrateWrite"
  BY DEF MigrateWrite, Calm
<1>2. /\ TInv /\ runtime # Broken
      /\ Good(q, persistent, runtime, last)
      /\ \A o \in Process : o # p => proc[o] = Idle
      /\ q \in Record /\ Places(q) /\ q.cam \in Camera /\ q.why # "none"
  BY <1>1, BusyCalm
<1>3. Right(q, q.mem, last) /\ q.mem \in Registry
  BY <1>1, <1>2 DEF Good, Record
<1>4. q.mem # Broken /\ Content(q.mem) = q.mem
  BY <1>3, PoolAssumption DEF Content
<1>5. PICK r : r = [q EXCEPT !.pc = "removeRuntime"]
  OBVIOUS
<1>6. /\ r \in Record /\ r.pc = "removeRuntime" /\ r.mem = q.mem
      /\ r.cam = q.cam /\ r.why = q.why /\ r.slot = q.slot
  BY <1>2, <1>5 DEF Record, Pc
<1>7. Places(r) /\ Becomes(p, r)
  BY <1>1, <1>2, <1>5, <1>6 DEF Places, MigrateWrite
<1>8. Good(r, q.mem, runtime, last)
  BY <1>1, <1>2, <1>3, <1>4, <1>6 DEF Good, Right
<1> QED
  BY <1>2, <1>6, <1>7, <1>8, StepCalm DEF MigrateWrite

LEMMA RemoveRuntimeCalm ==
    ASSUME IInv, Calm', NEW p \in Process, RemoveRuntime(p)
    PROVE  CalmInv'
<1> DEFINE q == proc[p]
<1>1. Calm /\ q.pc = "removeRuntime"
  BY DEF RemoveRuntime, Calm
<1>2. /\ TInv /\ last \in Registry
      /\ Good(q, persistent, runtime, last)
      /\ \A o \in Process : o # p => proc[o] = Idle
      /\ q \in Record /\ Places(q) /\ q.cam \in Camera /\ q.why # "none"
  BY <1>1, BusyCalm
<1>3. /\ persistent # Broken /\ q.mem = Content(persistent)
      /\ q.mem \in Registry /\ Right(q, q.mem, last)
      /\ q.why \in {"previous", "assign"} => last[q.cam] = q.slot
  BY <1>1, <1>2 DEF Good, Record
<1>4. PICK r : r = Returns(q, q.mem)
  OBVIOUS
<1>5. r \in Record /\ Places(r)
  BY <1>1, <1>2, <1>3, <1>4, ReturnsType DEF TInv
<1>6. Good(r, persistent, Missing, last)
  BY <1>1, <1>2, <1>3, <1>4, ReturnsGood
<1>7. Becomes(p, r) /\ runtime' = Missing /\ Missing # Broken
  BY <1>4, PoolAssumption DEF RemoveRuntime
<1> QED
  BY <1>2, <1>5, <1>6, <1>7, StepCalm DEF RemoveRuntime

(* A device is made, under the number asked for or another. *)
LEMMA MadeCalm ==
    ASSUME IInv, Calm', NEW p \in Process, NEW s \in Slot,
           proc[p].pc \in {"create", "retry"}, Made(p, s), Given(p, s)
    PROVE  CalmInv'
<1> DEFINE q == proc[p]
<1>1. Calm /\ last' = [last EXCEPT ![q.cam] = s]
  BY DEF Made, Has, Calm
<1>2. /\ TInv /\ runtime # Broken /\ last \in Registry /\ persistent \in File
      /\ Good(q, persistent, runtime, last)
      /\ \A o \in Process : o # p => proc[o] = Idle
      /\ q \in Record /\ Places(q) /\ q.cam \in Camera /\ q.why # "none"
  BY <1>1, BusyCalm
<1>3. /\ persistent # Broken /\ runtime = Missing
      /\ Right(q, Content(persistent), last)
  BY <1>2 DEF Good
<1>4. PICK r : r = [q EXCEPT !.pc = "persistent", !.why = "previous", !.slot = s]
  OBVIOUS
<1>5. /\ r \in Record /\ r.pc = "persistent" /\ r.why = "previous"
      /\ r.cam = q.cam /\ r.slot = s
  BY <1>2, <1>4 DEF Record, Pc, Why
<1>6. Places(r) /\ Becomes(p, r)
  BY <1>2, <1>4, <1>5 DEF Places, Given
<1>7. /\ last'[q.cam] = s
      /\ \A c \in Camera : c # q.cam => last'[c] = last[c]
  BY <1>1, <1>2 DEF Registry
<1>8. Known(persistent, runtime) = Content(persistent)
  BY <1>2, <1>3, KnownMissing
<1>9. Right(r, Known(persistent, runtime), last')
  BY <1>3, <1>5, <1>7, <1>8 DEF Right
<1>10. Good(r, persistent, runtime, last')
  BY <1>3, <1>5, <1>7, <1>9 DEF Good
<1>11. UNCHANGED <<persistent, runtime>>
  BY DEF Made
<1> QED
  BY <1>2, <1>5, <1>6, <1>10, <1>11, StepCalm

LEMMA CreateCalm ==
    ASSUME IInv, Calm', NEW p \in Process, Create(p) \/ CreateElsewhere(p)
    PROVE  CalmInv'
<1>1. \E s \in Slot : Made(p, s) /\ Given(p, s)
  BY DEF Create, CreateElsewhere, Asked, FreeSlots
<1>2. proc[p].pc \in {"create", "retry"}
  BY DEF Create, CreateElsewhere
<1> QED
  BY <1>1, <1>2, MadeCalm

LEMMA CreateFailsCalm ==
    ASSUME IInv, Calm', NEW p \in Process, CreateFails(p)
    PROVE  CalmInv'
<1> DEFINE q == proc[p]
<1>1. Calm /\ q.pc \in {"create", "retry"}
      /\ UNCHANGED <<persistent, runtime, last>>
  BY DEF CreateFails, Calm
<1>2. /\ TInv /\ runtime # Broken /\ persistent \in File
      /\ Good(q, persistent, runtime, last)
      /\ \A o \in Process : o # p => proc[o] = Idle
      /\ q \in Record /\ Places(q) /\ q.cam \in Camera /\ q.why # "none"
  BY <1>1, BusyCalm
<1>3. /\ persistent # Broken /\ runtime = Missing /\ q.why = "resolve"
      /\ Right(q, Content(persistent), last)
  BY <1>1, <1>2 DEF Good, Places
<1>4. CASE q.pc = "retry"
  <2>1. Known(persistent, runtime) = Content(persistent)
    BY <1>2, <1>3, KnownMissing
  <2>2. Right(Idle, Known(persistent, runtime), last)
    BY <1>3, <2>1 DEF Right
  <2>3. Good(Idle, persistent, runtime, last)
    BY <1>3, <2>2, IdleFacts DEF Good
  <2>4. Becomes(p, Idle)
    BY <1>4 DEF CreateFails
  <2>5. PICK r \in Record : r = Idle
    BY IdleFacts
  <2> QED
    BY <1>1, <1>2, <2>3, <2>4, <2>5, IdleFacts, StepCalm
<1>5. CASE q.pc = "create"
  <2>1. PICK r : r = [q EXCEPT !.pc = "retry", !.slot = None]
    OBVIOUS
  <2>2. /\ r \in Record /\ r.pc = "retry" /\ r.cam = q.cam /\ r.why = q.why
    BY <1>2, <2>1 DEF Record, Pc
  <2>3. Places(r) /\ Becomes(p, r)
    BY <1>2, <1>3, <1>5, <2>1, <2>2 DEF Places, CreateFails
  <2>4. Good(r, persistent, runtime, last)
    BY <1>3, <2>2 DEF Good, Right
  <2> QED
    BY <1>1, <1>2, <2>2, <2>3, <2>4, StepCalm
<1> QED
  BY <1>1, <1>4, <1>5

LEMMA TruncateCalm ==
    ASSUME IInv, Calm', NEW p \in Process, Truncate(p)
    PROVE  CalmInv'
<1> DEFINE q == proc[p]
<1>1. Calm /\ q.pc = "truncate"
  BY DEF Truncate, Calm
<1>2. /\ TInv /\ runtime # Broken
      /\ Good(q, persistent, runtime, last)
      /\ \A o \in Process : o # p => proc[o] = Idle
      /\ q \in Record /\ Places(q) /\ q.cam \in Camera /\ q.why # "none"
  BY <1>1, BusyCalm
<1>3. runtime = Missing /\ q.mem = last
  BY <1>1, <1>2 DEF Good
<1>4. PICK r : r = [q EXCEPT !.pc = "write"]
  OBVIOUS
<1>5. /\ r \in Record /\ r.pc = "write" /\ r.mem = q.mem
      /\ r.cam = q.cam /\ r.why = q.why /\ r.slot = q.slot
  BY <1>2, <1>4 DEF Record, Pc
<1>6. Places(r) /\ Becomes(p, r)
  BY <1>1, <1>2, <1>4, <1>5 DEF Places, Truncate
<1>7. Good(r, Broken, runtime, last)
  BY <1>2, <1>3, <1>5 DEF Good
<1> QED
  BY <1>2, <1>5, <1>6, <1>7, StepCalm DEF Truncate

LEMMA WriteCalm ==
    ASSUME IInv, Calm', NEW p \in Process, Write(p)
    PROVE  CalmInv'
<1> DEFINE q == proc[p]
<1>1. q.pc = "write" /\ Calm
  BY DEF Write, Calm
<1>2. /\ TInv /\ runtime # Broken /\ last \in Registry
      /\ Good(q, persistent, runtime, last)
      /\ \A o \in Process : o # p => proc[o] = Idle
      /\ q \in Record /\ Places(q)
  BY <1>1, BusyCalm
<1>3. q.mem = last /\ runtime = Missing
  BY <1>1, <1>2 DEF Good
<1>4. last # Broken /\ last \in File /\ Content(last) = last
  BY <1>2, PoolAssumption DEF Content, File
<1>5. Known(last, runtime) = last
  BY <1>3, <1>4, KnownMissing
<1>6. Good(Idle, last, runtime, last)
  BY <1>4, <1>5, IdleFacts DEF Good, Right
<1>7. /\ Becomes(p, Idle) /\ persistent' = last
      /\ UNCHANGED <<runtime, last>>
  BY <1>3 DEF Write
<1>8. PICK r \in Record : r = Idle
  BY IdleFacts
<1> QED
  BY <1>2, <1>6, <1>7, <1>8, IdleFacts, StepCalm

LEMMA RebootCalm ==
    ASSUME IInv, Calm', Reboot
    PROVE  CalmInv'
<1>1. Calm /\ last' = last /\ runtime = Missing /\ Alone
  BY DEF Reboot, Calm
<1>2. /\ UNCHANGED <<persistent, runtime>>
      /\ \A p \in Process : proc'[p] = Idle
  BY <1>1 DEF Reboot
<1> QED
  BY <1>1, <1>2 DEF IInv, CalmInv

LEMMA NextCalm == IInv /\ [Next]_vars => CalmInv'
<1> SUFFICES ASSUME IInv, [Next]_vars, Calm' PROVE CalmInv'
  BY DEF CalmInv
<1>1. ASSUME NEW p \in Process, NEW c \in Camera,
             BeginCreate(p, c) \/ Reuse(p, c)
      PROVE  CalmInv'
  BY <1>1, BeginCreateCalm, ReuseCalm
<1>2. ASSUME NEW p \in Process, Work(p) PROVE CalmInv'
  <2>1. CASE ReadPersistent(p)
    BY <2>1, ReadPersistentCalm
  <2>2. CASE ReadRuntime(p)
    BY <2>2, ReadRuntimeCalm
  <2>3. CASE Migrate(p)
    BY <2>3, MigrateCalm
  <2>4. CASE MigrateGivesUp(p)
    BY <2>4, MigrateGivesUpCalm
  <2>5. CASE MigrateWrite(p)
    BY <2>5, MigrateWriteCalm
  <2>6. CASE RemoveRuntime(p)
    BY <2>6, RemoveRuntimeCalm
  <2>7. CASE Create(p) \/ CreateElsewhere(p)
    BY <2>7, CreateCalm
  <2>8. CASE WriteFails(p)
    BY <2>8 DEF WriteFails, Calm
  <2>9. CASE CreateFails(p)
    BY <2>9, CreateFailsCalm
  <2>10. CASE Truncate(p)
    BY <2>10, TruncateCalm
  <2>11. CASE Write(p)
    BY <2>11, WriteCalm
  <2> QED
    BY <1>2, <2>1, <2>2, <2>3, <2>4, <2>5, <2>6, <2>7, <2>8, <2>9, <2>10,
       <2>11 DEF Work
<1>3. ASSUME NEW p \in Process, Crash(p) PROVE CalmInv'
  BY <1>3 DEF Crash, Calm
<1>4. CASE UNCHANGED <<persistent, runtime, proc, last>>
  BY <1>4 DEF IInv, CalmInv, Calm, Alone
<1>5. ASSUME NEW s \in Slot, NEW k \in OtherCard,
             RemoveDevice(s) \/ ForeignDevice(s, k)
      PROVE  CalmInv'
  BY <1>4, <1>5 DEF RemoveDevice, ForeignDevice
<1>8. ASSUME NEW s \in Slot, RemoveDevice(s) PROVE CalmInv'
  BY <1>4, <1>8 DEF RemoveDevice
<1>6. CASE Reboot
  BY <1>6, RebootCalm
<1>7. CASE UNCHANGED vars
  BY <1>4, <1>7 DEF vars
<1> QED
  BY <1>1, <1>2, <1>3, <1>5, <1>6, <1>7, <1>8 DEF Next

(* The strengthening holds in every reachable state. *)
LEMMA IInvInvariant == Spec => []IInv
<1>1. Init => IInv
  BY InitTInv, InitCalm DEF IInv
<1>2. IInv /\ [Next]_vars => IInv'
  <2>1. IInv => TInv
    BY DEF IInv
  <2> QED
    BY <2>1, NextTInv, NextCalm DEF IInv
<1> QED
  BY <1>1, <1>2, PTL DEF Spec

-----------------------------------------------------------------------------
(* The properties *)

(* No number of cameras, migrations, registrations and creations that end  *)
(* in an error, one process at a time, makes the registry forget a camera. *)
THEOREM RegistryRemembers == Spec => []NoForgottenCamera
<1>1. IInv => NoForgottenCamera
  <2> SUFFICES ASSUME IInv, Calm, persistent # Broken,
                      NEW c \in Camera, last[c] # None,
                      \A p \in Process :
                        ~ (proc[p].cam = c /\ proc[p].why \in {"previous", "assign"})
               PROVE  Lookup[c] # None
    BY DEF NoForgottenCamera
  <2>1. CASE Alone
    BY <2>1, AloneCalm DEF Known, Lookup
  <2>2. CASE ~Alone
    <3>1. PICK p \in Process : proc[p] # Idle
      BY <2>2 DEF Alone
    <3> DEFINE q == proc[p]
    <3>2. Good(q, persistent, runtime, last)
      BY <3>1 DEF IInv, CalmInv
    <3>3. q \in Record /\ Places(q)
      BY BusyFacts DEF IInv
    <3>4. q.why \in {"none", "resolve"} \/ c # q.cam
      BY <3>3 DEF Record, Why
    <3>5. persistent \in File /\ Content(persistent) \in Registry
      BY ContentType, TInvParts DEF IInv, Rest
    <3>6. Lookup = Known(persistent, runtime)
      BY DEF Lookup, Known
    <3>7. CASE q.pc \in {"idle", "persistent", "runtime", "migrate"}
      BY <3>2, <3>4, <3>6, <3>7 DEF Good, Right
    <3>8. CASE q.pc \in {"create", "retry", "truncate"}
      <4>1. Right(q, Content(persistent), last) /\ runtime = Missing
        BY <3>2, <3>8 DEF Good
      <4> QED
        BY <3>4, <3>5, <3>6, <4>1, KnownMissing DEF Right
    <3>9. CASE q.pc = "removeRuntime"
      <4>1. Content(persistent)[c] = last[c]
        BY <3>2, <3>4, <3>9 DEF Good, Right
      <4> QED
        BY <3>5, <4>1 DEF Lookup, Merge
    <3>10. q.pc \notin {"migrateWrite", "write"}
      BY <3>2 DEF Good
    <3> QED
      BY <3>3, <3>7, <3>8, <3>9, <3>10 DEF Record, Pc
  <2> QED
    BY <2>1, <2>2
<1> QED
  BY <1>1, IInvInvariant, PTL

(* Between two calls the registry holds the numbers really given last,     *)
(* also where a way of creating the device failed after making one.        *)
THEOREM RegistryIsRight == Spec => []NeverMisleads
<1>1. IInv => NeverMisleads
  <2> SUFFICES ASSUME IInv, Calm, Alone
               PROVE  persistent # Broken /\ Lookup = last
    BY DEF NeverMisleads
  <2>1. /\ persistent # Broken /\ last \in Registry
        /\ \A c \in Camera : Known(persistent, runtime)[c] = last[c]
    BY AloneCalm
  <2>2. Known(persistent, runtime) = [c \in Camera |-> Known(persistent, runtime)[c]]
    BY DEF Known, Merge
  <2>3. last = [c \in Camera |-> last[c]]
    BY <2>1 DEF Registry
  <2> QED
    BY <2>1, <2>2, <2>3 DEF Known, Lookup
<1> QED
  BY <1>1, IInvInvariant, PTL

(* A camera on record is created under its own number whenever that number *)
(* is free and the ioctl succeeds.                                         *)
THEOREM NumberIsKept == Spec => ReturnsToItsNumber
<1> DEFINE Kept(p) ==
      Calm' /\ proc[p].pc = "create" /\ proc'[p].pc = "persistent" =>
        LET s == Content(persistent)[proc[p].cam]
        IN  s \in FreeSlots =>
              proc'[p].slot = s /\ dev'[s] = CardOf[proc[p].cam]
<1>1. ASSUME IInv, [Next]_vars, NEW p \in Process PROVE Kept(p)
  <2> SUFFICES ASSUME Calm', proc[p].pc = "create", proc'[p].pc = "persistent",
                      Content(persistent)[proc[p].cam] \in FreeSlots
               PROVE  /\ proc'[p].slot = Content(persistent)[proc[p].cam]
                      /\ dev'[Content(persistent)[proc[p].cam]]
                           = CardOf[proc[p].cam]
    OBVIOUS
  <2> DEFINE s == Content(persistent)[proc[p].cam]
  <2>1. proc \in [Process -> Record] /\ dev \in Devices
    BY <1>1, TInvParts DEF IInv, Rest
  <2>2. PICK o \in Process :
          Work(o) \/ Crash(o) \/ \E c \in Camera : BeginCreate(o, c) \/ Reuse(o, c)
    BY <1>1, IdleFacts DEF Next, Reboot, RemoveDevice, ForeignDevice, vars
  <2>3. o = p
    <3>1. ASSUME o # p PROVE proc'[p] = proc[p]
      <4>1. ASSUME NEW r, Becomes(o, r) PROVE proc'[p] = proc[p]
        BY <2>1, <3>1, <4>1 DEF Becomes
      <4>2. \E r : Becomes(o, r)
        BY <2>2 DEF Work, Crash, BeginCreate, Reuse, ReadPersistent, ReadRuntime,
           Migrate, MigrateGivesUp, MigrateWrite, RemoveRuntime, Create,
           CreateElsewhere, CreateFails, Truncate, Write, WriteFails, Given
      <4> QED
        BY <4>1, <4>2
    <3> QED
      BY <3>1
  <2>4. Create(p) \/ CreateFails(p) \/ Crash(p)
    BY <2>2, <2>3, IdleFacts DEF Work, BeginCreate, Reuse, ReadPersistent,
       ReadRuntime, Migrate, MigrateGivesUp, MigrateWrite, RemoveRuntime,
       CreateElsewhere, Truncate, Write, WriteFails
  <2>5. ~ Crash(p)
    BY DEF Crash, Calm
  <2>6. ~ CreateFails(p)
    <3>1. SUFFICES ASSUME CreateFails(p) PROVE FALSE
      OBVIOUS
    <3>2. proc'[p] = [proc[p] EXCEPT !.pc = "retry", !.slot = None]
      BY <2>1, <3>1 DEF CreateFails, Becomes
    <3> QED
      BY <2>1, <3>2 DEF Record
  <2>7. PICK t \in Asked(p) : Made(p, t) /\ Given(p, t)
    BY <2>4, <2>5, <2>6 DEF Create
  <2>8. Calm
    BY <2>7 DEF Made, Has, Calm
  <2>9. Good(proc[p], persistent, runtime, last)
    BY <1>1, <2>8, BusyCalm
  <2>10. s # None
    BY PoolAssumption DEF FreeSlots
  <2>11. proc[p].slot = s
    BY <2>9, <2>10 DEF Good
  <2>12. t = s
    BY <2>7, <2>11 DEF Asked
  <2>13. proc'[p] = [proc[p] EXCEPT !.pc = "persistent", !.why = "previous",
                                    !.slot = s]
    BY <2>1, <2>7, <2>12 DEF Given, Becomes
  <2>14. proc'[p].slot = s
    BY <2>1, <2>13 DEF Record
  <2>15. dev'[s] = CardOf[proc[p].cam]
    BY <2>1, <2>7, <2>12 DEF Made, FreeSlots, Devices
  <2> QED
    BY <2>14, <2>15
<1>2. IInv /\ [Next]_vars => [\A p \in Process : Kept(p)]_vars
  BY <1>1
<1> QED
  BY <1>2, IInvInvariant, PTL DEF Spec, ReturnsToItsNumber
=============================================================================
