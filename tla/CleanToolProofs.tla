---------------------------- MODULE CleanToolProofs ----------------------------
(***************************************************************************)
(* Theorems about CleanTool, for any numbers of devices, applications and  *)
(* daemons and any set of command lines: whom the tool may signal, what    *)
(* its report is worth, and what it leaves alone.                          *)
(***************************************************************************)
EXTENDS CleanTool, FiniteSetTheorems, WellFoundedInduction, TLAPS

(* The tool is dealing with the device of the highest number left. *)
Working == pc \in {"signal", "rebuild", "fuser", "refresh", "remove", "judge"}

(* Only a running process holds anything, and only what exists.            *)
WorldOK ==
    /\ \A p \in Process : holds[p] # None => p \in alive /\ holds[p] \in Devices
    /\ \A d \in Daemon : session[d] # None => d \in alive

(* What the tool will remove or unlink is no device of another program,    *)
(* unless that came after the number was noted.                            *)
NotedOK == \A i \in Noted : dev[i] = "other" => i \in came

(* Whoever holds a device of cam-shim, or is in the map as the holder of a *)
(* device still on the list, has been a user of one.                       *)
UsersOK ==
    /\ \A p \in App, i \in Index :
          holds[p] = i /\ (dev[i] = "shim" \/ i \in came) => p \in user
    /\ \A i \in todo \cap mine : map[i] \cap App \subseteq user

(* Outside clean_loopback_devices its variables are empty. *)
IdleOK ==
    /\ pc \notin {"device"} /\ ~Working =>
          map = [i \in Index |-> {}] /\ \A i \in Index : report[i] = "none"
    /\ ~Cleaning => kept = {}

WorkOK == Working => todo # {} /\ Ours(Current)

(* What was listed and is no more has gone since the listing. *)
GoneOK == Cleaning => \A i \in todo : dev[i] = "free" => i \in gone

(* The holders that matter are those found when the tool looked: each is   *)
(* still there and in the map, and none is left on the current device once *)
(* it has been released.                                                   *)
Released == pc \in {"fuser", "refresh", "remove", "judge"} \/ (pc = "rebuild" /\ pass = 2)

KeptOK ==
    /\ pc = "device" \/ Working =>
          \A h \in kept :
              /\ holds[h[1]] = h[2]
              /\ cmd.force /\ h[2] \in todo => h[1] \in map[h[2]]
    /\ cmd.force /\ Released => \A h \in kept : h[2] # Current

IInv ==
    /\ TypeOK /\ WorldOK /\ NotedOK /\ UsersOK /\ IdleOK /\ WorkOK
    /\ GoneOK /\ ReportIsTrue
    /\ KeptOK /\ HoldersReleased
    /\ OnlyUsersSignalled

-----------------------------------------------------------------------------
(* Lemmas about the operators *)

(* A finite set of numbers that is not empty has a largest element: of the *)
(* sets {y \in S : y > x} the smallest is empty.                           *)
LEMMA MaxInSet ==
    ASSUME NEW S, IsFiniteSet(S), S \subseteq Nat, S # {}
    PROVE  Max(S) \in S
<1> DEFINE Above(x) == {y \in S : y > x}
           T == {Above(x) : x \in S}
<1>1. IsWellFoundedOn(StrictSubsetOrdering(S), SUBSET S)
  BY FS_StrictSubsetOrderingWellFounded, FS_FiniteSubsetsOfFinite
<1>2. T \subseteq SUBSET S /\ T # {}
  OBVIOUS
<1>3. PICK U \in T : \A V \in T : <<V, U>> \notin StrictSubsetOrdering(S)
  <2> HIDE DEF T
  <2> QED BY <1>1, <1>2, WFMin, Zenon
<1>4. PICK x \in S : U = Above(x)
  OBVIOUS
<1>5. ASSUME NEW y \in S, y > x PROVE FALSE
  <2>1. Above(y) \subseteq U /\ y \in U /\ y \notin Above(y)
    <3>1. x \in Nat /\ y \in Nat /\ \A z \in S : z \in Nat
      OBVIOUS
    <3>2. U = {z \in S : z > x}
      BY <1>4
    <3>3. \A z \in S : z > y => z > x
      BY <3>1, <1>5
    <3>4. y \in U
      BY <3>2, <1>5
    <3>5. y \notin Above(y)
      BY <3>1
    <3> QED BY <3>2, <3>3, <3>4, <3>5
  <2>2. <<Above(y), U>> \in StrictSubsetOrdering(S)
    BY <2>1, <1>2 DEF StrictSubsetOrdering
  <2> QED BY <2>2, <1>3
<1>6. \A y \in S : x >= y
  BY <1>5
<1> QED BY <1>6 DEF Max

LEMMA CurrentListed ==
    ASSUME TypeOK, todo # {}
    PROVE  Current \in todo /\ Current \in Index
<1>1. IsFiniteSet(todo) /\ todo \subseteq Nat
  BY CleanAssumption, FS_Subset DEF TypeOK
<1> QED BY <1>1, MaxInSet DEF Current, TypeOK

LEMMA CurrentListedNext ==
    ASSUME TypeOK', todo' # {}
    PROVE  Current' \in todo'
<1>1. IsFiniteSet(todo') /\ todo' \subseteq Nat
  BY CleanAssumption, FS_Subset DEF TypeOK
<1> QED BY <1>1, MaxInSet DEF Current

LEMMA CommandType ==
    ASSUME cmd \in Command
    PROVE  /\ cmd.tool \in {"clean", "restore", "doctor", "serve"}
           /\ cmd.all \in BOOLEAN /\ cmd.force \in BOOLEAN
           /\ cmd.reload \in BOOLEAN
BY CleanAssumption DEF AllCommands

LEMMA DieType ==
    ASSUME TypeOK, NEW S, Die(S)
    PROVE  /\ alive' \subseteq Process
           /\ holds' \in [Process -> Index \cup {None}]
           /\ session' \in [Daemon -> Index \cup {None}]
BY DEF TypeOK, Die

LEMMA RemovedType ==
    ASSUME TypeOK, NEW i, Removed(i)
    PROVE  /\ dev' \in [Index -> {"free", "shim", "other"}]
           /\ node' \subseteq Index
BY DEF TypeOK, Removed

-----------------------------------------------------------------------------
(* Types *)

LEMMA InitType == Init => TypeOK
<1> SUFFICES ASSUME Init PROVE TypeOK
  OBVIOUS
<1>1. pc \in Pc
  BY CommandType DEF Init, First, Pc
<1>2. loaded \in BOOLEAN /\ retry \in BOOLEAN
  BY DEF Init
<1> QED BY <1>1, <1>2 DEF Init, TypeOK

LEMMA HistoryType ==
    ASSUME TypeOK, History
    PROVE  /\ gone' \subseteq Index /\ came' \subseteq Index
           /\ user' \subseteq App /\ kept' \subseteq Process \X Index
<1>1. gone' \subseteq Index
  BY DEF TypeOK, History
<1>2. user' \subseteq App
  BY DEF TypeOK, History
<1>3. kept' \subseteq Process \X Index
  BY DEF TypeOK, History
<1>4. came' \subseteq Index
  BY DEF TypeOK, History
<1> QED BY <1>1, <1>2, <1>3, <1>4

LEMMA WorldType == TypeOK /\ World /\ History => TypeOK'
<1> SUFFICES ASSUME TypeOK, World, History PROVE TypeOK'
  OBVIOUS
<1> USE HistoryType DEF TypeOK, ToolSame, loop
<1>1. CASE \E p \in App, i \in Index : AppOpens(p, i)
  BY <1>1 DEF AppOpens, Process
<1>2. CASE \E p \in Process : Closes(p)
  BY <1>2 DEF Closes
<1>3. CASE \E i \in Index : OtherCreates(i)
  BY <1>3 DEF OtherCreates
<1>4. CASE \E i \in Index : GhostVanishes(i)
  BY <1>4 DEF GhostVanishes
<1>5. CASE \E d \in Daemon : DaemonOpens(d)
  BY <1>5 DEF DaemonOpens, Devices
<1>6. CASE \E d \in Daemon : DaemonCleans(d)
  <2>1. PICK d \in Daemon : DaemonCleans(d)
    BY <1>6
  <2>2. /\ dev' \in [Index -> {"free", "shim", "other"}]
        /\ node' \subseteq Index
    BY <2>1, RemovedType DEF DaemonCleans
  <2>3. session' \in [Daemon -> Index \cup {None}]
    BY <2>1 DEF DaemonCleans
  <2> QED BY <2>1, <2>2, <2>3 DEF DaemonCleans
<1>7. CASE \E d \in Daemon : DaemonStarts(d)
  <2>1. map' \in [Index -> SUBSET Process]
    BY <1>7 DEF DaemonStarts
  <2> QED BY <1>7, <2>1 DEF DaemonStarts, Process
<1>8. CASE \E d \in Daemon, i \in Index : DaemonCreates(d, i)
  <2>1. loaded' \in BOOLEAN
    BY <1>8 DEF DaemonCreates
  <2> QED BY <1>8, <2>1 DEF DaemonCreates
<1> QED
  BY <1>1, <1>2, <1>3, <1>4, <1>5, <1>6, <1>7, <1>8 DEF World

LEMMA HolderMapType == TypeOK => HolderMap \in [Index -> SUBSET Process]
BY DEF TypeOK, HolderMap, Holders

LEMMA ToolType == TypeOK /\ Tool /\ History => TypeOK'
<1> SUFFICES ASSUME TypeOK, Tool, History PROVE TypeOK'
  OBVIOUS
<1> USE HistoryType, CommandType DEF TypeOK, world, loop, Goto, Pc
<1>1. CASE Before \/ Repaired \/ Handle \/ NobodyToSignal \/ NoFuser \/ UnloadFails
  BY <1>1 DEF Before, Repaired, Handle, NobodyToSignal, NoFuser, UnloadFails
<1>2. CASE StopDaemons
  BY <1>2, DieType DEF StopDaemons, AfterStop
<1>3. CASE CountGhosts
  BY <1>3 DEF CountGhosts, GhostNodes
<1>4. CASE \E i \in Index : Unlink(i)
  BY <1>4 DEF Unlink
<1>5. CASE ListDevices
  BY <1>5 DEF ListDevices, Devices
<1>6. CASE LookForHolders \/ Rebuild \/ Refresh
  BY <1>6, HolderMapType DEF LookForHolders, Rebuild, Refresh
<1>7. CASE Skip \/ Judge
  <2>1. PICK w \in {"removed", "failed", "skipped"} : Reported(w)
    BY <1>7 DEF Skip, Judge, Verdict
  <2>2. retry' \in BOOLEAN
    BY <2>1 DEF Reported
  <2>3. report' \in [Index -> {"none", "removed", "failed", "skipped"}]
    BY <2>1 DEF Reported
  <2> QED BY <2>1, <2>2, <2>3 DEF Reported
<1>8. CASE CleanEnded
  <2>1. pc' \in Pc
    BY <1>8 DEF CleanEnded, AfterClean, Reload
  <2> QED BY <1>8, <2>1 DEF CleanEnded
<1>9. CASE Signal \/ Fuser
  <2>1. hit' \subseteq App
    BY <1>9 DEF Signal, Fuser, Signalled
  <2>2. \/ \E S : Die(S)
        \/ UNCHANGED <<alive, holds, session>>
    BY <1>9 DEF Signal, Fuser, Signalled
  <2>3. UNCHANGED <<dev, node, loaded, cmd, loop>> /\ pc' \in Pc
    BY <1>9 DEF Signal, Fuser
  <2> QED BY <2>1, <2>2, <2>3, DieType
<1>10. CASE Remove
  <2>1. /\ dev' \in [Index -> {"free", "shim", "other"}]
        /\ node' \subseteq Index
    BY <1>10, RemovedType DEF Remove
  <2>2. retry' \in BOOLEAN /\ result' \in {"none", "ok", "busy", "gone"}
    BY <1>10 DEF Remove, RemoveResult
  <2>3. pc' \in Pc /\ pass' \in 1..2
    BY <1>10 DEF Remove
  <2> QED BY <1>10, <2>1, <2>2, <2>3 DEF Remove
<1>11. CASE LoadModule
  <2>1. loaded' \in BOOLEAN
    BY <1>11 DEF LoadModule
  <2>2. pc' \in Pc
    BY <1>11 DEF LoadModule, Reload
  <2> QED BY <1>11, <2>1, <2>2 DEF LoadModule
<1>12. CASE Unload
  <2>1. loaded' \in BOOLEAN
    BY <1>12 DEF Unload
  <2> QED BY <1>12, <2>1 DEF Unload, GhostNodes
<1> QED
  BY <1>1, <1>2, <1>3, <1>4, <1>5, <1>6, <1>7, <1>8, <1>9, <1>10, <1>11,
     <1>12 DEF Tool

LEMMA UnchangedType == TypeOK /\ UNCHANGED vars => TypeOK'
BY DEF TypeOK, vars, world, loop

(* Every variable stays in its type, whoever interferes with the tool. *)
THEOREM TypeCorrect == Spec => []TypeOK
<1>1. TypeOK /\ [Next]_vars => TypeOK'
  BY WorldType, ToolType, UnchangedType DEF Next
<1> QED BY <1>1, InitType, PTL DEF Spec

-----------------------------------------------------------------------------
(* The inductive invariant *)

LEMMA InitInv == Init => IInv
<1> SUFFICES ASSUME Init PROVE IInv
  OBVIOUS
<1>1. TypeOK
  BY InitType
<1>2. pc \in {"before", "ensure", "stop", "list"}
  BY CommandType DEF Init, First
<1>3. WorldOK /\ NotedOK
  BY DEF Init, WorldOK, NotedOK, Noted
<1>4. UsersOK
  BY CleanAssumption DEF Init, UsersOK, Process
<1>5. /\ IdleOK /\ WorkOK /\ GoneOK /\ ReportIsTrue
      /\ KeptOK /\ HoldersReleased /\ OnlyUsersSignalled
  BY <1>2 DEF Init, IdleOK, WorkOK, GoneOK, ReportIsTrue, KeptOK, Released,
       HoldersReleased, OnlyUsersSignalled, Cleaning, Working
<1> QED BY <1>1, <1>3, <1>4, <1>5 DEF IInv

(* What the tool can do to the devices and the processes. *)
LEMMA ToolEffect ==
    ASSUME Tool
    PROVE  \/ UNCHANGED <<dev, alive, holds, session>>
           \/ (\E S : Die(S)) /\ UNCHANGED <<dev, node>>
           \/ Remove
           \/ Unload
<1> USE DEF world
<1>1. CASE \/ Before \/ CountGhosts \/ Repaired \/ ListDevices
           \/ LookForHolders \/ Skip \/ Handle \/ CleanEnded
           \/ NobodyToSignal \/ Rebuild \/ NoFuser \/ Refresh \/ Judge
           \/ UnloadFails \/ LoadModule \/ \E i \in Index : Unlink(i)
  BY <1>1 DEF Before, CountGhosts, Repaired, ListDevices, LookForHolders, Skip,
       Handle, CleanEnded, NobodyToSignal, Rebuild, NoFuser, Refresh, Judge,
       Reported, UnloadFails, LoadModule, Unlink
<1>2. CASE StopDaemons
  BY <1>2 DEF StopDaemons
<1>3. CASE Signal \/ Fuser
  BY <1>3 DEF Signal, Fuser, Signalled
<1> QED BY <1>1, <1>2, <1>3 DEF Tool

(* A device is only removed while nobody holds it. *)
LEMMA RemovedEffect ==
    ASSUME IInv, NEW i, Removed(i), UNCHANGED <<alive, holds>>
    PROVE  /\ \A j \in Index : dev'[j] = dev[j] \/ (j = i /\ dev'[j] = "free")
           /\ \A p \in Process : holds[p] # None => holds[p] \in Devices'
<1>1. \A j \in Index : dev'[j] = dev[j] \/ (j = i /\ dev'[j] = "free")
  BY DEF IInv, TypeOK, Removed
<1>2. ASSUME NEW p \in Process, holds[p] # None PROVE holds[p] \in Devices'
  <2>1. p \in alive /\ holds[p] \in Devices /\ holds[p] \in Index
    BY <1>2 DEF IInv, WorldOK, TypeOK
  <2>2. CASE dev' = dev
    BY <2>1, <2>2 DEF Devices
  <2>3. CASE dev' # dev
    <3>1. Holders(i) = {}
      BY <2>3 DEF Removed, RemoveResult
    <3>2. holds[p] # i
      BY <2>1, <3>1 DEF Holders
    <3> QED BY <1>1, <2>1, <3>2 DEF Devices
  <2> QED BY <2>2, <2>3
<1> QED BY <1>1, <1>2

LEMMA WorldStep == IInv /\ (Tool \/ World) => WorldOK'
<1> SUFFICES ASSUME IInv, Tool \/ World PROVE WorldOK'
  OBVIOUS
<1> USE DEF IInv, WorldOK, TypeOK, ToolSame
<1>1. CASE UNCHANGED <<dev, alive, holds, session>>
  BY <1>1 DEF Devices
<1>2. CASE (\E S : Die(S)) /\ UNCHANGED dev
  BY <1>2 DEF Die, Devices
<1>3. CASE Remove \/ \E d \in Daemon : DaemonCleans(d)
  <2>1. PICK i : /\ Removed(i) /\ UNCHANGED <<alive, holds>>
                 /\ \A d \in Daemon : session'[d] \in {session[d], None}
    BY <1>3 DEF Remove, DaemonCleans
  <2>2. /\ \A j \in Index : dev'[j] = dev[j] \/ dev'[j] = "free"
        /\ \A p \in Process : holds[p] # None => holds[p] \in Devices'
    BY <2>1, RemovedEffect
  <2>3. \A d \in Daemon : session'[d] # None => d \in alive'
    BY <2>1
  <2> QED BY <2>1, <2>2, <2>3
<1>4. CASE Unload
  BY <1>4 DEF Unload
<1>5. CASE \E p \in App, i \in Index : AppOpens(p, i)
  BY <1>5 DEF AppOpens, Process, Devices
<1>6. CASE \E p \in Process : Closes(p)
  BY <1>6 DEF Closes, Devices
<1>7. CASE \E i \in Index : OtherCreates(i)
  BY <1>7 DEF OtherCreates, Devices
<1>8. CASE \E d \in Daemon : DaemonOpens(d)
  BY <1>8 DEF DaemonOpens, Devices
<1>9. CASE \E d \in Daemon : DaemonStarts(d)
  BY <1>9 DEF DaemonStarts, Devices
<1>10. CASE \E d \in Daemon, i \in Index : DaemonCreates(d, i)
  BY <1>10, CleanAssumption DEF DaemonCreates, Devices
<1>11. CASE \E i \in Index : GhostVanishes(i)
  BY <1>11, <1>1 DEF GhostVanishes
<1>12. CASE Tool
  BY <1>12, <1>1, <1>2, <1>3, <1>4, ToolEffect
<1> QED
  BY <1>5, <1>6, <1>7, <1>8, <1>9, <1>10, <1>11, <1>3, <1>12 DEF World

(* What the tool can do to its lists. *)
LEMMA ListEffect ==
    ASSUME Tool
    PROVE  \/ ListDevices
           \/ CountGhosts
           \/ todo' \subseteq todo /\ mine' \subseteq mine /\ ghosts' \subseteq ghosts
<1> USE DEF loop
<1>1. CASE \/ Before \/ StopDaemons \/ Repaired \/ LookForHolders \/ Handle
           \/ CleanEnded \/ Signal \/ NobodyToSignal \/ Rebuild \/ Fuser
           \/ NoFuser \/ Refresh \/ Remove \/ LoadModule \/ Unload
           \/ UnloadFails \/ \E i \in Index : Unlink(i)
  BY <1>1 DEF Before, StopDaemons, Repaired, LookForHolders, Handle, CleanEnded,
       Signal, NobodyToSignal, Rebuild, Fuser, NoFuser, Refresh, Remove,
       LoadModule, Unload, UnloadFails, Unlink
<1>2. CASE Skip \/ Judge
  BY <1>2 DEF Skip, Judge, Reported
<1> QED BY <1>1, <1>2 DEF Tool

(* The rest of the machine leaves them alone. *)
LEMMA WorldEffect ==
    ASSUME World
    PROVE  UNCHANGED <<cmd, pc, todo, mine, pass, retry, result, ghosts,
                       report, hit>>
<1> USE DEF ToolSame, loop
<1>1. CASE \E i \in Index : OtherCreates(i) \/ GhostVanishes(i)
  BY <1>1 DEF OtherCreates, GhostVanishes
<1>2. CASE \E d \in Daemon : DaemonCleans(d)
  BY <1>2 DEF DaemonCleans
<1>3. CASE \E d \in Daemon, i \in Index : DaemonCreates(d, i)
  BY <1>3 DEF DaemonCreates
<1>4. CASE \/ \E p \in App, i \in Index : AppOpens(p, i)
           \/ \E p \in Process : Closes(p)
           \/ \E d \in Daemon : DaemonOpens(d) \/ DaemonStarts(d)
  BY <1>4 DEF AppOpens, Closes, DaemonOpens, DaemonStarts
<1> QED BY <1>1, <1>2, <1>3, <1>4 DEF World

LEMMA NotedStep == IInv /\ Next => NotedOK'
<1> SUFFICES ASSUME IInv, Next, NEW i \in Noted', dev'[i] = "other"
             PROVE  i \in came'
  BY DEF NotedOK
<1>0. i \in Index
  BY WorldType, ToolType DEF Next, IInv, TypeOK, Noted
<1>1. ASSUME i \in Noted PROVE i \in came'
  <2>1. dev[i] = "other" => i \in came
    BY <1>1 DEF IInv, NotedOK
  <2> QED BY <1>0, <2>1 DEF Next, History
<1>2. CASE World
  BY <1>1, <1>2, WorldEffect DEF Noted
<1>3. CASE ListDevices
  BY <1>0, <1>1, <1>3 DEF ListDevices, world, Noted
<1>4. CASE CountGhosts
  BY <1>0, <1>1, <1>4 DEF CountGhosts, GhostNodes, Devices, world, Noted
<1>5. CASE Tool /\ todo' \subseteq todo /\ mine' \subseteq mine /\ ghosts' \subseteq ghosts
  BY <1>1, <1>5 DEF Noted
<1> QED BY <1>2, <1>3, <1>4, <1>5, ListEffect DEF Next

(* The map is only ever built from those who hold a device now. *)
LEMMA MapEffect ==
    ASSUME Tool \/ World
    PROVE  \/ map' = HolderMap /\ UNCHANGED <<world, cmd, todo>>
           \/ CleanEnded
           \/ /\ map' = [map EXCEPT ![Current] = {}]
              /\ todo' = todo \ {Current} /\ UNCHANGED holds
           \/ \E d \in Daemon \ alive :
                 map' = [i \in Index |-> map[i] \ {d}] /\ UNCHANGED holds
           \/ map' = map
<1>1. CASE World
  BY <1>1 DEF World, ToolSame, loop, AppOpens, Closes, OtherCreates,
       GhostVanishes, DaemonOpens, DaemonCleans, DaemonStarts, DaemonCreates
<1>2. CASE LookForHolders \/ Rebuild \/ Refresh
  BY <1>2 DEF LookForHolders, Rebuild, Refresh
<1>3. CASE \/ Before \/ StopDaemons \/ CountGhosts \/ Repaired \/ ListDevices
           \/ Handle \/ Signal \/ NobodyToSignal \/ Fuser \/ NoFuser
           \/ Remove \/ LoadModule \/ Unload \/ UnloadFails
           \/ \E i \in Index : Unlink(i)
  BY <1>3 DEF Before, StopDaemons, CountGhosts, Repaired, ListDevices,
       Handle, Signal, NobodyToSignal, Fuser, NoFuser, Remove,
       LoadModule, Unload, UnloadFails, Unlink, loop
<1>4. CASE Skip \/ Judge
  BY <1>4 DEF Skip, Judge, Reported, world
<1> QED BY <1>1, <1>2, <1>3, <1>4 DEF Tool

LEMMA UsersStep == IInv /\ Next => UsersOK'
<1> SUFFICES ASSUME IInv, Next PROVE UsersOK'
  OBVIOUS
<1>1. \A p \in App, i \in Index :
         holds'[p] = i /\ (dev'[i] = "shim" \/ i \in came') => p \in user'
  BY DEF Next, History
<1>2. user \subseteq user'
  BY DEF Next, History
<1>3. ASSUME NEW i \in todo' \cap mine' PROVE map'[i] \cap App \subseteq user'
  <2>0. i \in Index
    BY <1>3, WorldType, ToolType DEF IInv, Next, TypeOK
  <2>1. CASE map' = HolderMap /\ UNCHANGED world
    <3>1. dev'[i] = "other" => i \in came'
      BY <1>3, NotedStep DEF NotedOK, Noted
    <3>2. ASSUME NEW p \in map'[i] \cap App PROVE p \in user'
      <4>1. holds[p] = i /\ p \in Process
        BY <2>0, <2>1, <3>2 DEF HolderMap, Holders, Process
      <4>2. i # None
        BY <2>0, CleanAssumption
      <4>3. dev'[i] \in {"shim", "other"}
        BY <4>1, <4>2, <2>1, <2>0 DEF IInv, WorldOK, TypeOK, Devices, world
      <4>4. holds'[p] = i
        BY <4>1, <2>1 DEF world
      <4> QED BY <4>3, <4>4, <3>1, <1>1, <2>0
    <3> QED BY <3>2
  <2>2. CASE CleanEnded
    BY <2>0, <2>2 DEF CleanEnded
  <2>3. CASE ListDevices
    BY <2>0, <2>3 DEF ListDevices, IInv, IdleOK, Working
  <2>4. CASE ~ListDevices
    <3>1. i \in todo \cap mine
      BY <1>3, <2>4, ListEffect, WorldEffect DEF Next, CountGhosts
    <3>2. CASE map' = map \/ \E d \in Daemon \ alive : map' = [j \in Index |-> map[j] \ {d}]
      BY <3>1, <3>2, <2>0, <1>2 DEF IInv, UsersOK
    <3>3. CASE map' = [map EXCEPT ![Current] = {}]
      <4>1. map'[i] \subseteq map[i]
        BY <2>0, <3>3 DEF IInv, TypeOK
      <4> QED BY <3>1, <4>1, <1>2 DEF IInv, UsersOK
    <3> QED BY <3>2, <3>3, <2>1, <2>2, MapEffect DEF Next
  <2> QED BY <2>3, <2>4
<1> QED BY <1>1, <1>3 DEF UsersOK

(* Outside clean_loopback_devices the tool leaves its report and the map   *)
(* as they are, and enters it by listing the devices.                      *)
LEMMA ControlEffect ==
    ASSUME Tool
    PROVE  \/ /\ ~Cleaning /\ UNCHANGED <<map, report>>
              /\ ~Cleaning' \/ (ListDevices /\ pc' = "look")
           \/ LookForHolders \/ Skip \/ Handle \/ CleanEnded \/ Signal
           \/ NobodyToSignal \/ Rebuild \/ Fuser \/ NoFuser \/ Refresh
           \/ Remove \/ Judge
<1> DEFINE Outside == /\ ~Cleaning /\ UNCHANGED <<map, report>>
                      /\ ~Cleaning' \/ (ListDevices /\ pc' = "look")
<1> USE DEF loop, Goto, Cleaning
<1>1. ASSUME Before \/ CountGhosts \/ \E i \in Index : Unlink(i) PROVE Outside
  BY <1>1 DEF Before, CountGhosts, Unlink
<1>2. ASSUME StopDaemons PROVE Outside
  BY <1>2 DEF StopDaemons, AfterStop
<1>3. ASSUME Repaired PROVE Outside
  <2>1. pc' \in {"done", "stop", "list"}
    BY <1>3 DEF Repaired
  <2>2. UNCHANGED <<map, report>> /\ pc = "unlink"
    BY <1>3 DEF Repaired
  <2> QED BY <2>1, <2>2
<1>4. ASSUME ListDevices PROVE Outside
  BY <1>4 DEF ListDevices
<1>5. ASSUME LoadModule PROVE Outside
  BY <1>5 DEF LoadModule, Reload
<1>6. ASSUME Unload \/ UnloadFails PROVE Outside
  BY <1>6 DEF Unload, UnloadFails
<1> HIDE DEF Outside
<1> QED BY <1>1, <1>2, <1>3, <1>4, <1>5, <1>6 DEF Tool, Outside

(* Leaving it takes CleanEnded. *)
LEMMA AfterCleanOutside ==
    ASSUME TypeOK, CleanEnded
    PROVE  ~Cleaning'
BY CommandType DEF TypeOK, CleanEnded, AfterClean, Reload, Goto, Cleaning

(* The only step of the tool after the listing is to look for holders, and *)
(* no step changes its command line.                                       *)
LEMMA ToolFromLook ==
    ASSUME Tool, pc = "look"
    PROVE  LookForHolders
<1>1. ~(Skip \/ Handle \/ CleanEnded \/ Signal \/ NobodyToSignal \/ Rebuild
         \/ Fuser \/ NoFuser \/ Refresh \/ Remove \/ Judge)
  BY DEF Skip, Handle, CleanEnded, Signal, NobodyToSignal, Rebuild, Fuser,
       NoFuser, Refresh, Remove, Judge
<1>2. Cleaning
  BY DEF Cleaning
<1> QED BY <1>1, <1>2, ControlEffect

LEMMA CommandFixed == IInv /\ (Tool \/ World) => cmd' = cmd
<1> SUFFICES ASSUME IInv, Tool \/ World PROVE cmd' = cmd
  OBVIOUS
<1>1. CASE World
  BY <1>1, WorldEffect
<1>2. CASE Tool
  BY <1>2 DEF Tool, Before, StopDaemons, CountGhosts, Unlink, Repaired,
       ListDevices, LookForHolders, Skip, Handle, CleanEnded, Signal,
       NobodyToSignal, Rebuild, Fuser, NoFuser, Refresh, Remove, Judge,
       Reported, LoadModule, Unload, UnloadFails
<1> QED BY <1>1, <1>2

LEMMA IdleStep == IInv /\ Next => IdleOK'
<1> SUFFICES ASSUME IInv, Next PROVE IdleOK'
  OBVIOUS
<1>1. ~Cleaning' => kept' = {}
  BY DEF Next, History
<1>2. ASSUME pc' # "device", ~Working'
      PROVE  map' = [i \in Index |-> {}] /\ \A i \in Index : report'[i] = "none"
  <2>1. CASE World
    <3>1. pc # "device" /\ ~Working /\ report' = report
      BY <1>2, <2>1, WorldEffect DEF Working
    <3>2. map = [i \in Index |-> {}] /\ \A i \in Index : report[i] = "none"
      BY <3>1 DEF IInv, IdleOK
    <3>3. map' \in {map, [i \in Index |-> map[i] \ {}]}
             \/ \E d \in Daemon : map' = [i \in Index |-> map[i] \ {d}]
      BY <2>1 DEF World, ToolSame, loop, AppOpens, Closes, OtherCreates,
           GhostVanishes, DaemonOpens, DaemonCleans, DaemonStarts, DaemonCreates
    <3> QED BY <3>1, <3>2, <3>3
  <2>2. CASE CleanEnded
    BY <2>2 DEF CleanEnded
  <2>3. CASE Tool /\ ~Cleaning /\ UNCHANGED <<map, report>>
    BY <2>3 DEF IInv, IdleOK, Cleaning, Working
  <2>4. LookForHolders \/ Skip \/ Handle \/ Signal \/ NobodyToSignal \/ Rebuild
          \/ Fuser \/ NoFuser \/ Refresh \/ Remove \/ Judge
        => pc' = "device" \/ Working'
    BY DEF LookForHolders, Skip, Handle, Signal, NobodyToSignal, Rebuild, Fuser,
         NoFuser, Refresh, Remove, Judge, Reported, Goto, Working
  <2> QED BY <1>2, <2>1, <2>2, <2>3, <2>4, ControlEffect DEF Next
<1> QED BY <1>1, <1>2 DEF IdleOK

LEMMA WorkStep == IInv /\ Next => WorkOK'
<1> SUFFICES ASSUME IInv, Next, Working' PROVE todo' # {} /\ Ours(Current)'
  BY DEF WorkOK
<1> USE DEF IInv, WorkOK, Working, Ours, Current, Cleaning, loop, Goto
<1>1. CASE World
  BY <1>1, WorldEffect
<1>2. CASE Handle
  BY <1>2 DEF Handle
<1>3. CASE Signal \/ NobodyToSignal \/ Rebuild \/ Fuser \/ NoFuser \/ Refresh \/ Remove
  BY <1>3 DEF Signal, NobodyToSignal, Rebuild, Fuser, NoFuser, Refresh, Remove
<1>4. ~(LookForHolders \/ Skip \/ Judge)
  BY DEF LookForHolders, Skip, Judge, Reported
<1>5. ~CleanEnded
  BY AfterCleanOutside
<1> QED BY <1>1, <1>2, <1>3, <1>4, <1>5, ControlEffect DEF Next

LEMMA GoneStep == IInv /\ Next => GoneOK' /\ ReportIsTrue'
<1> SUFFICES ASSUME IInv, Next PROVE GoneOK' /\ ReportIsTrue'
  OBVIOUS
<1>0. TypeOK' /\ IdleOK'
  BY WorldType, ToolType, IdleStep DEF Next, IInv
<1>1. ASSUME Cleaning', NEW i \in Index, i \in todo \/ report[i] = "removed",
             i \in gone \/ (dev[i] # "free" /\ dev'[i] = "free")
      PROVE  i \in gone'
  BY <1>1 DEF Next, History
<1>2. CASE ~Cleaning'
  BY <1>0, <1>2 DEF GoneOK, ReportIsTrue, IdleOK, Cleaning, Working
<1>3. CASE ListDevices
  <2>1. pc' = "look"
    BY <1>3 DEF ListDevices, Goto
  <2>2. ReportIsTrue'
    BY <1>0, <2>1 DEF IdleOK, Working, ReportIsTrue
  <2>3. GoneOK'
    BY <1>3 DEF ListDevices, Devices, GoneOK, world
  <2> QED BY <2>2, <2>3
<1>4. CASE Cleaning' /\ ~ListDevices
  <2>1. Cleaning
    <3>1. CASE World
      BY <1>4, <3>1, WorldEffect DEF Cleaning
    <3>2. CASE Tool
      BY <1>4, <3>2, ControlEffect DEF Cleaning, LookForHolders, Skip, Handle,
           CleanEnded, Signal, NobodyToSignal, Rebuild, Fuser, NoFuser,
           Refresh, Remove, Judge
    <3> QED BY <3>1, <3>2 DEF Next
  <2>2. todo' \subseteq todo
    BY <1>4, ListEffect, WorldEffect DEF Next, CountGhosts
  <2>3. GoneOK'
    BY <1>0, <1>1, <1>4, <2>1, <2>2 DEF GoneOK, IInv, TypeOK
  <2>4. CASE Judge
    <3>1. Current \in todo /\ Current \in Index
      BY <2>4, CurrentListed DEF IInv, WorkOK, Working, Judge
    <3>2. ASSUME Verdict = "removed" PROVE Current \in gone
      BY <2>1, <3>1, <3>2 DEF Verdict, Devices, IInv, GoneOK
    <3>3. report' = [report EXCEPT ![Current] = Verdict]
      BY <2>4 DEF Judge, Reported
    <3>4. \A i \in Index : report'[i] = "removed" =>
            report[i] = "removed" \/ (i \in todo /\ i \in gone)
      BY <3>1, <3>2, <3>3 DEF IInv, TypeOK
    <3> QED BY <1>1, <1>4, <2>3, <3>4 DEF ReportIsTrue, IInv
  <2>5. CASE ~Judge
    <3>1. \A i \in Index : report'[i] = "removed" => report[i] = "removed"
      <4>1. CASE World
        BY <4>1, WorldEffect
      <4>2. CASE Skip
        BY <4>2 DEF Skip, Reported, IInv, TypeOK
      <4>3. CASE CleanEnded
        BY <4>3 DEF CleanEnded
      <4>4. CASE LookForHolders \/ Handle \/ Signal \/ NobodyToSignal \/ Rebuild
                 \/ Fuser \/ NoFuser \/ Refresh \/ Remove
        BY <4>4 DEF LookForHolders, Handle, Signal, NobodyToSignal, Rebuild,
             Fuser, NoFuser, Refresh, Remove, loop
      <4> QED BY <2>1, <2>5, <4>1, <4>2, <4>3, <4>4, ControlEffect DEF Next
    <3> QED BY <1>1, <1>4, <2>3, <3>1 DEF ReportIsTrue, IInv
  <2> QED BY <2>4, <2>5
<1> QED BY <1>2, <1>3, <1>4

(* Whoever is still counted as kept holds the device and so is alive. *)
LEMMA KeptAreHolders ==
    ASSUME IInv, History, Cleaning', pc # "look", NEW h \in kept'
    PROVE  /\ h \in kept /\ h \in Process \X Index
           /\ holds'[h[1]] = h[2] /\ h[2] # None
BY CleanAssumption DEF History, IInv, TypeOK

LEMMA KeptMapped ==
    ASSUME IInv, Next, pc' = "device" \/ Working', NEW h \in kept'
    PROVE  /\ holds'[h[1]] = h[2]
           /\ cmd'.force /\ h[2] \in todo' => h[1] \in map'[h[2]]
<1>1. Cleaning'
  BY DEF Cleaning, Working
<1>2. TypeOK' /\ WorldOK'
  BY WorldType, ToolType, WorldStep DEF Next, IInv
<1>3. h \in Process \X Index /\ h[2] # None
  BY <1>2, CleanAssumption DEF TypeOK
<1>4. holds'[h[1]] = h[2]
  BY <1>1 DEF Next, History
<1>5. h[1] \in alive'
  BY <1>2, <1>3, <1>4 DEF WorldOK
<1>8. SUFFICES ASSUME cmd'.force, h[2] \in todo' PROVE h[1] \in map'[h[2]]
  BY <1>4
<1>6. CASE map' = HolderMap /\ UNCHANGED <<world, cmd, todo>>
  <2>1. holds[h[1]] = h[2] /\ h[1] \in alive
    BY <1>4, <1>5, <1>6 DEF world
  <2>2. h[1] \in Holders(h[2])
    BY <2>1 DEF Holders
  <2>3. HolderMap[h[2]] = Holders(h[2])
    BY <1>3, <1>6, <1>8 DEF HolderMap
  <2> QED BY <1>4, <1>6, <2>2, <2>3
<1>7. CASE ~(map' = HolderMap /\ UNCHANGED <<world, cmd, todo>>)
  <2>1. pc # "look"
    <3>1. CASE World
      BY <3>1, WorldEffect DEF Working
    <3>2. CASE Tool
      <4>1. ~LookForHolders
        BY <1>7 DEF LookForHolders
      <4> QED
        BY <3>2, <4>1, ControlEffect DEF Cleaning, Skip, Handle, CleanEnded,
           Signal, NobodyToSignal, Rebuild, Fuser, NoFuser, Refresh, Remove, Judge
    <3> QED BY <3>1, <3>2 DEF Next
  <2>2. h \in kept
    BY <1>1, <2>1, KeptAreHolders DEF Next
  <2>3. pc = "device" \/ Working
    <3>1. CASE World
      BY <3>1, WorldEffect DEF Working
    <3>2. CASE Tool
      BY <1>1, <2>1, <3>2, ControlEffect DEF Cleaning, Working, ListDevices,
         LookForHolders, Skip, Handle, CleanEnded, Signal, NobodyToSignal,
         Rebuild, Fuser, NoFuser, Refresh, Remove, Judge
    <3> QED BY <3>1, <3>2 DEF Next
  <2>7. h[2] \in todo /\ cmd.force
    <3>1. ~ListDevices /\ ~CountGhosts
      BY <1>1, <2>3 DEF ListDevices, CountGhosts, Working
    <3> QED
      BY <1>8, <3>1, ListEffect, WorldEffect, CommandFixed DEF Next
  <2>4. holds[h[1]] = h[2] /\ h[1] \in map[h[2]]
    BY <2>2, <2>3, <2>7 DEF IInv, KeptOK
  <2>5. h[1] \in alive
    BY <1>3, <2>4 DEF IInv, WorldOK
  <2>6. ~CleanEnded
    BY <1>1, AfterCleanOutside DEF IInv
  <2>8. CASE \E d \in Daemon \ alive : map' = [i \in Index |-> map[i] \ {d}]
    BY <1>3, <2>4, <2>5, <2>8
  <2>9. CASE map' = [map EXCEPT ![Current] = {}] /\ todo' = todo \ {Current}
    <3>1. h[2] # Current
      BY <1>8, <2>9
    <3> QED BY <1>3, <2>4, <2>9, <3>1 DEF IInv, TypeOK
  <2> QED BY <1>7, <2>4, <2>6, <2>8, <2>9, MapEffect DEF Next
<1> QED BY <1>6, <1>7

(* Signalling with SIGKILL, or finding nobody, leaves nobody on it. *)
LEMMA ReleasedStep ==
    ASSUME IInv, Next, cmd'.force, Released', NEW h \in kept'
    PROVE  h[2] # Current'
<1>0. Cleaning' /\ Working'
  BY DEF Released, Cleaning, Working
<1>4. TypeOK' /\ WorkOK'
  BY WorldType, ToolType, WorkStep DEF Next, IInv
<1>5. Current' \in todo'
  BY <1>0, <1>4, CurrentListedNext DEF WorkOK
<1>6. SUFFICES ASSUME h[2] = Current' PROVE FALSE
  OBVIOUS
<1>1. h[1] \in map'[h[2]] /\ holds'[h[1]] = h[2]
  BY <1>0, <1>5, <1>6, KeptMapped
<1>2. CASE pc = "look"
  <2>1. ~World
    BY <1>0, <1>2, WorldEffect DEF Working
  <2>2. ~Tool
    BY <1>0, <1>2, ToolFromLook DEF Working, LookForHolders, Goto
  <2> QED BY <2>1, <2>2 DEF Next
<1>3. CASE pc # "look"
  <2>1. h \in kept /\ h \in Process \X Index /\ h[2] # None
    BY <1>0, <1>3, KeptAreHolders DEF Next
  <2>2. CASE World
    BY <1>6, <2>1, <2>2, WorldEffect DEF Released, Current, IInv, KeptOK
  <2>3. CASE NobodyToSignal
    BY <1>1, <1>6, <2>3 DEF NobodyToSignal, Current, loop
  <2>4. CASE Signal
    <3>1. pass = 2 /\ Current' = Current
      BY <2>4 DEF Signal, Released, Current, loop, Goto
    <3>2. Die(map[Current])
      BY <2>4, <3>1 DEF Signal, Signalled
    <3>3. h[1] \notin map[Current]
      BY <1>1, <2>1, <3>2 DEF Die
    <3>4. map' = map
      BY <2>4 DEF Signal, loop
    <3> QED BY <1>1, <1>6, <3>1, <3>3, <3>4
  <2>5. CASE Rebuild
    <3>1. Current' = Current
      BY <2>5 DEF Rebuild, Current
    <3>2. CASE map'[Current] = {}
      BY <1>1, <1>6, <3>1, <3>2
    <3>3. CASE map'[Current] # {}
      <4>1. pass = 2
        BY <2>5, <3>3 DEF Rebuild, Released, Goto, IInv, TypeOK
      <4> QED
        BY <1>6, <2>1, <2>5, <3>1, <4>1 DEF Rebuild, IInv, KeptOK, Released
    <3> QED BY <3>2, <3>3
  <2>6. CASE Fuser \/ NoFuser \/ Refresh \/ Remove
    BY <1>6, <2>1, <2>6 DEF Fuser, NoFuser, Refresh, Remove, Released, Current, loop,
         IInv, KeptOK, Goto
  <2>7. ~(Handle \/ Skip \/ Judge \/ LookForHolders)
    BY <1>3 DEF Handle, Skip, Judge, Reported, LookForHolders, Released, Goto, world
  <2>8. ~CleanEnded /\ ~(Cleaning' /\ pc' = "look")
    BY <1>0, AfterCleanOutside DEF IInv, Working
  <2> QED
    BY <1>0, <2>2, <2>3, <2>4, <2>5, <2>6, <2>7, <2>8, ControlEffect DEF Next
<1> QED BY <1>2, <1>3

LEMMA KeptStep == IInv /\ Next => KeptOK'
BY KeptMapped, ReleasedStep DEF KeptOK

LEMMA HoldersStep == IInv /\ Next => HoldersReleased'
<1> SUFFICES ASSUME IInv, Next, cmd'.force, NEW h \in kept'
             PROVE  report'[h[2]] \notin {"removed", "failed"}
  BY DEF HoldersReleased
<1>0. TypeOK' /\ IdleOK'
  BY WorldType, ToolType, IdleStep DEF Next, IInv
<1>1. h[2] \in Index /\ Cleaning'
  BY <1>0 DEF TypeOK, IdleOK
<1>2. CASE pc' = "look"
  BY <1>0, <1>1, <1>2 DEF IdleOK, Working
<1>3. CASE pc' # "look" /\ pc = "look"
  <2>1. LookForHolders
    BY <1>1, <1>3, ToolFromLook, WorldEffect DEF Next
  <2> QED BY <1>1, <1>3, <2>1 DEF LookForHolders, IInv, IdleOK, Working
<1>4. CASE pc # "look"
  <2>1. h \in kept /\ cmd.force
    BY <1>1, <1>4, KeptAreHolders, CommandFixed DEF Next
  <2>2. report[h[2]] \notin {"removed", "failed"}
    BY <2>1 DEF IInv, HoldersReleased
  <2>3. CASE report' = report
    BY <2>2, <2>3
  <2>4. CASE Skip
    BY <1>1, <2>2, <2>4 DEF Skip, Reported, IInv, TypeOK
  <2>5. CASE Judge
    <3>1. h[2] # Current
      BY <2>1, <2>5 DEF Judge, IInv, KeptOK, Released
    <3> QED BY <1>1, <2>2, <2>5, <3>1 DEF Judge, Reported, IInv, TypeOK
  <2>6. CASE World
    BY <2>3, <2>6, WorldEffect
  <2>7. ~CleanEnded
    BY <1>1, AfterCleanOutside DEF IInv
  <2>8. LookForHolders \/ Handle \/ Signal \/ NobodyToSignal \/ Rebuild
          \/ Fuser \/ NoFuser \/ Refresh \/ Remove => report' = report
    BY DEF LookForHolders, Handle, Signal, NobodyToSignal, Rebuild, Fuser,
         NoFuser, Refresh, Remove, loop
  <2> QED
    BY <2>3, <2>4, <2>5, <2>6, <2>7, <2>8, ControlEffect DEF Next
<1> QED BY <1>2, <1>3, <1>4

LEMMA SignalledStep == IInv /\ (Tool \/ World) => OnlyUsersSignalled'
<1> SUFFICES ASSUME IInv, Tool \/ World, ~cmd.all PROVE hit' = {}
  BY CommandFixed DEF OnlyUsersSignalled
<1>1. hit = {}
  BY DEF IInv, OnlyUsersSignalled
<1>2. CASE Signal \/ Fuser
  <2>1. Current \in todo \cap mine /\ Current \in Index
    BY <1>2, CurrentListed DEF Signal, Fuser, IInv, WorkOK, Working, Ours
  <2>2. map[Current] \cap App \subseteq user
    BY <2>1 DEF IInv, UsersOK
  <2>3. Holders(Current) \cap App \subseteq user
    <3>1. SUFFICES ASSUME NEW p \in App, holds[p] = Current PROVE p \in user
      BY DEF Holders
    <3>2. Current # None
      BY <2>1, CleanAssumption
    <3>3. dev[Current] = "shim" \/ Current \in came
      BY <2>1, <3>1, <3>2 DEF IInv, WorldOK, NotedOK, Noted, TypeOK, Devices, Process
    <3> QED BY <2>1, <3>1, <3>3 DEF IInv, UsersOK
  <2> QED BY <1>1, <1>2, <2>2, <2>3 DEF Signal, Fuser, Signalled
<1>3. CASE World
  BY <1>1, <1>3, WorldEffect
<1>4. CASE \/ Before \/ StopDaemons \/ CountGhosts \/ Repaired \/ ListDevices
           \/ LookForHolders \/ Skip \/ Handle \/ CleanEnded \/ NobodyToSignal
           \/ Rebuild \/ NoFuser \/ Refresh \/ Remove \/ Judge \/ LoadModule
           \/ Unload \/ UnloadFails \/ \E i \in Index : Unlink(i)
  BY <1>1, <1>4 DEF Before, StopDaemons, CountGhosts, Repaired, ListDevices,
       LookForHolders, Skip, Handle, CleanEnded, NobodyToSignal, Rebuild,
       NoFuser, Refresh, Remove, Judge, Reported, LoadModule, Unload,
       UnloadFails, Unlink
<1> QED BY <1>2, <1>3, <1>4 DEF Tool

LEMMA NextInv == IInv /\ [Next]_vars => IInv'
<1>1. IInv /\ Next => IInv'
  BY WorldType, ToolType, WorldStep, NotedStep, UsersStep, IdleStep, WorkStep,
     GoneStep, KeptStep, HoldersStep, SignalledStep DEF IInv, Next
<1>2. IInv /\ UNCHANGED vars => IInv'
  <2> SUFFICES ASSUME IInv, UNCHANGED vars PROVE IInv'
    OBVIOUS
  <2> USE DEF vars, world, loop, IInv
  <2>1. TypeOK' /\ WorldOK' /\ NotedOK' /\ UsersOK'
    BY UnchangedType DEF WorldOK, Devices, NotedOK, Noted, UsersOK
  <2>2. IdleOK' /\ WorkOK' /\ GoneOK' /\ ReportIsTrue'
    BY DEF IdleOK, Cleaning, Working, WorkOK, Ours, Current, GoneOK, ReportIsTrue
  <2>3. KeptOK' /\ HoldersReleased' /\ OnlyUsersSignalled'
    BY DEF KeptOK, Working, Released, Current, HoldersReleased, OnlyUsersSignalled
  <2> QED BY <2>1, <2>2, <2>3
<1> QED BY <1>1, <1>2

LEMMA InvAlways == Spec => []IInv
BY InitInv, NextInv, PTL DEF Spec

-----------------------------------------------------------------------------
(* Without --all no application is signalled that never had a virtual      *)
(* camera of cam-shim open (or one that took a noted number), however old  *)
(* the map of holders it was found in.                                     *)
THEOREM OnlyUsersEverSignalled == Spec => []OnlyUsersSignalled
<1>1. IInv => OnlyUsersSignalled
  BY DEF IInv
<1> QED BY <1>1, InvAlways, PTL

(* What the tool reports as removed has gone since it was listed.          *)
THEOREM ReportAlwaysTrue == Spec => []ReportIsTrue
<1>1. IInv => ReportIsTrue
  BY DEF IInv
<1> QED BY <1>1, InvAlways, PTL

(* With --force whoever held a device when the tool looked does not hold   *)
(* it any more when the tool reports on that device, deaf to SIGTERM or    *)
(* not.                                                                    *)
THEOREM HoldersAlwaysReleased == Spec => []HoldersReleased
<1>1. IInv => HoldersReleased
  BY DEF IInv
<1> QED BY <1>1, InvAlways, PTL

(* Without --all the tool removes no device of another program and cuts    *)
(* none off from its node, except by unloading the module, and where the   *)
(* device took a number that the tool had noted before it came: whatever   *)
(* daemons and other programs make, adopt and remove meanwhile.            *)
THEOREM OthersNeverTouched == Spec => OthersUntouched
<1>1. ASSUME IInv, Next, ~cmd.all, pc # "unload", ToolStep,
             NEW i \in Index, dev[i] = "other", i \notin came
      PROVE  ~Touched(i)
  <2> USE DEF IInv, TypeOK
  <2>0. i \notin Noted
    BY <1>1 DEF NotedOK
  <2>1. CASE Remove
    <3>1. Current \in Noted
      BY <1>1, <2>1, CurrentListed DEF Remove, WorkOK, Working, Ours, Noted
    <3>2. Current # i
      BY <2>0, <3>1
    <3> QED BY <1>1, <2>1, <3>2 DEF Remove, Removed, Touched
  <2>2. CASE \E j \in Index : Unlink(j)
    BY <1>1, <2>0, <2>2 DEF Unlink, Noted, Touched
  <2>3. CASE World
    BY <1>1, <2>3, WorldEffect DEF ToolStep
  <2>7. CASE UNCHANGED <<dev, node>>
    BY <1>1, <2>7 DEF Touched
  <2>9. CASE \/ Before \/ StopDaemons \/ CountGhosts \/ Repaired \/ ListDevices
             \/ LookForHolders \/ Skip \/ Handle \/ CleanEnded \/ Signal
             \/ NobodyToSignal \/ Rebuild \/ Fuser \/ NoFuser \/ Refresh
             \/ Judge \/ LoadModule \/ UnloadFails
    BY <2>7, <2>9 DEF Before, StopDaemons, CountGhosts, Repaired, ListDevices,
       LookForHolders, Skip, Handle, CleanEnded, Signal, NobodyToSignal,
       Rebuild, Fuser, NoFuser, Refresh, Judge, Reported, LoadModule,
       UnloadFails, world
  <2>10. ~Unload
    BY <1>1 DEF Unload
  <2> QED BY <1>1, <2>1, <2>2, <2>3, <2>9, <2>10 DEF Next, Tool
<1>2. ASSUME IInv, [Next]_vars
      PROVE  [\A i \in Index : ToolStep /\ dev[i] = "other" /\ Touched(i) =>
                 i \in came \/ cmd.all \/ pc = "unload"]_vars
  BY <1>1, <1>2
<1> QED BY <1>2, InvAlways, PTL DEF Spec, OthersUntouched
=============================================================================
