------------------------------ MODULE CleanTool ------------------------------
(***************************************************************************)
(* One run of `cam-shim clean`, `restore --loopback`, `doctor`, or of the  *)
(* self-check that `serve` starts with, beside everything else on the      *)
(* machine: cam-shim daemons (serve, fix, relay),                          *)
(* applications that open and close virtual cameras, and other programs'   *)
(* loopbacks.  The tool reads the world in pieces (the list of devices,    *)
(* the map of who holds what, the list of ghost nodes) and acts on them    *)
(* later.  Physical cameras are left out; they only matter as ghosts.      *)
(***************************************************************************)
EXTENDS Integers, FiniteSetsExt

CONSTANTS
    Index,   \* /dev/video numbers
    App,     \* processes of other programs
    Daemon,  \* processes of cam-shim serve, fix and relay
    Command, \* the command lines of an instance, a subset of AllCommands
    None

Process == App \cup Daemon

AllCommands ==
    {c \in [tool: {"clean", "restore", "doctor", "serve"}, all: BOOLEAN,
            force: BOOLEAN, reload: BOOLEAN] :
        /\ c.tool = "restore" => c.force /\ ~c.all /\ ~c.reload
        /\ c.tool = "doctor" => ~c.all
        /\ c.tool = "serve" => ~c.all /\ ~c.force /\ ~c.reload}

ASSUME CleanAssumption ==
    /\ Index \subseteq Nat /\ IsFiniteSet(Index)
    /\ App \cap Daemon = {} /\ Command \subseteq AllCommands
    /\ None \notin Index

VARIABLES
    dev,     \* what each number is: a cam-shim loopback or another program's
    node,    \* numbers with a file /dev/videoN; a ghost has no device
    loaded,  \* the module v4l2loopback
    alive,   \* running processes
    holds,   \* the device each process has open
    session, \* the loopback a daemon made or reuses, and will remove
    cmd,     \* the command line of the tool
    pc,      \* where the tool is
    todo,    \* listed devices not dealt with yet
    mine,    \* listed numbers whose name was a cam-shim name
    map,     \* build_video_device_holder_map, as last built
    pass,    \* of release_device_holders: 1 is SIGTERM, 2 is SIGKILL
    retry,   \* the current device was busy once
    result,  \* of the last remove_loopback_device
    ghosts,  \* ghost nodes counted and not unlinked yet
    report,  \* what the report says of each number
    gone,    \* history: numbers whose device went away since the listing
    came,    \* history: noted numbers that another program's device took since
    user,    \* history: applications that ever had a cam-shim device or one
             \* that came so
    hit,     \* history: applications signalled that were not such a user
    kept     \* history: <<p, i>> held ever since the tool first looked

world == <<dev, node, loaded, alive, holds, session>>
loop == <<todo, mine, map, pass, retry, result, ghosts, report>>
vars == <<world, cmd, pc, loop, gone, came, user, hit, kept>>

Pc == {"before", "stopFirst", "repair", "unlink", "stop", "list", "look",
       "device", "signal", "rebuild", "fuser", "refresh", "remove", "judge",
       "ensure", "stopAgain", "unload", "load", "done", "failed"}

TypeOK ==
    /\ dev \in [Index -> {"free", "shim", "other"}]
    /\ node \subseteq Index /\ loaded \in BOOLEAN
    /\ alive \subseteq Process
    /\ holds \in [Process -> Index \cup {None}]
    /\ session \in [Daemon -> Index \cup {None}]
    /\ cmd \in Command
    /\ pc \in Pc
    /\ todo \subseteq Index /\ mine \subseteq Index
    /\ map \in [Index -> SUBSET Process]
    /\ pass \in 1..2 /\ retry \in BOOLEAN
    /\ result \in {"none", "ok", "busy", "gone"}
    /\ ghosts \subseteq Index
    /\ report \in [Index -> {"none", "removed", "failed", "skipped"}]
    /\ gone \subseteq Index /\ came \subseteq Index
    /\ user \subseteq App /\ hit \subseteq App
    /\ kept \subseteq Process \X Index

-----------------------------------------------------------------------------
(* The state of the world, as the tool's helpers read it *)

Devices == {i \in Index : dev[i] # "free"}

Holders(i) == {p \in alive : holds[p] = i}

(* Of the map only entries of devices not dealt with yet, and only under   *)
(* --force, are ever read; the others are left out.                        *)
HolderMap ==
    [i \in Index |-> IF cmd.force /\ i \in todo THEN Holders(i) ELSE {}]

GhostNodes == node \ Devices

(* The numbers the tool will act on as cam-shim's own, or as ghosts. *)
Noted == (todo \cap mine) \cup ghosts

Die(S) ==
    /\ alive' = alive \ S
    /\ holds' = [p \in Process |-> IF p \in S THEN None ELSE holds[p]]
    /\ session' = [d \in Daemon |-> IF d \in S THEN None ELSE session[d]]

(* remove_loopback_device: the kernel refuses while the device is open and *)
(* does not ask whose it is.                                               *)
RemoveResult(i) ==
    IF i \notin Devices THEN "gone" ELSE IF Holders(i) # {} THEN "busy" ELSE "ok"

Removed(i) ==
    IF RemoveResult(i) = "ok"
      THEN /\ dev' = [dev EXCEPT ![i] = "free"] /\ node' = node \ {i}
      ELSE UNCHANGED <<dev, node>>

First(c) ==
    CASE c.tool = "doctor" -> "before"
      [] c.tool = "serve"  -> "ensure"
      [] c.tool \in {"clean", "restore"} -> IF c.force THEN "stop" ELSE "list"

(* What follows clean_loopback_devices in cmd_clean, cmd_restore and       *)
(* run_doctor, and the optional reload of the first and the last.          *)
Reload(c) ==
    IF ~c.reload THEN "done" ELSE IF c.force THEN "stopAgain" ELSE "unload"

AfterClean(c) ==
    CASE c.tool = "restore" -> "repair"
      [] c.tool = "doctor"  -> "ensure"
      [] c.tool = "serve"   -> "done"
      [] c.tool = "clean"   -> Reload(c)

Init ==
    /\ dev \in [Index -> {"free", "shim", "other"}]
    /\ loaded \in BOOLEAN /\ (~loaded => Devices = {})
    /\ node \in {N \in SUBSET Index : Devices \subseteq N}
    /\ alive = Process
    /\ holds = [p \in Process |-> None] /\ session = [d \in Daemon |-> None]
    /\ cmd \in Command
    /\ pc = First(cmd)
    /\ todo = {} /\ mine = {} /\ map = [i \in Index |-> {}]
    /\ pass = 1 /\ retry = FALSE /\ result = "none" /\ ghosts = {}
    /\ report = [i \in Index |-> "none"]
    /\ gone = {} /\ came = {} /\ user = {} /\ hit = {} /\ kept = {}

-----------------------------------------------------------------------------
(* The rest of the machine *)

ToolSame == UNCHANGED <<cmd, pc, loop, hit>>

AppOpens(p, i) ==
    /\ p \in alive /\ holds[p] = None /\ i \in Devices \cap node
    /\ holds' = [holds EXCEPT ![p] = i]
    /\ ToolSame /\ UNCHANGED <<dev, node, loaded, alive, session>>

Closes(p) ==
    /\ holds[p] # None
    /\ holds' = [holds EXCEPT ![p] = None]
    /\ ToolSame /\ UNCHANGED <<dev, node, loaded, alive, session>>

(* Another program makes a virtual camera, on any free number. *)
OtherCreates(i) ==
    /\ loaded /\ i \notin Devices
    /\ dev' = [dev EXCEPT ![i] = "other"]
    /\ node' = node \cup {i}
    /\ ToolSame /\ UNCHANGED <<loaded, alive, holds, session>>

(* create_device_with_options of a serve or fix: a loopback that answers   *)
(* to the label is reused, whoever made it (another program's name may     *)
(* begin the label), or a new one made, with the module loaded for it if   *)
(* need be.                                                                *)
DaemonCreates(d, i) ==
    /\ d \in alive /\ session[d] = None
    /\ dev' = [dev EXCEPT ![i] = IF @ = "free" THEN "shim" ELSE @]
    /\ node' = node \cup {i}
    /\ session' = [session EXCEPT ![d] = i] /\ loaded' = TRUE
    /\ ToolSame /\ UNCHANGED <<alive, holds>>

(* The relay opens its target, whatever bears that number by now. *)
DaemonOpens(d) ==
    /\ d \in alive /\ session[d] \in Devices /\ holds[d] = None
    /\ holds' = [holds EXCEPT ![d] = session[d]]
    /\ ToolSame /\ UNCHANGED <<dev, node, loaded, alive, session>>

(* FixSession::cleanup, or a stop by serve: the relay has closed the       *)
(* target, the number remembered is removed, and an error is ignored.      *)
(* (The repair of ghost nodes that fix adds is GhostVanishes.)             *)
DaemonCleans(d) ==
    /\ d \in alive /\ session[d] # None /\ holds[d] = None
    /\ Removed(session[d])
    /\ session' = [session EXCEPT ![d] = None]
    /\ ToolSame /\ UNCHANGED <<loaded, alive, holds>>

(* A new process, hence unknown to the holder map. *)
DaemonStarts(d) ==
    /\ d \notin alive /\ alive' = alive \cup {d}
    /\ map' = [i \in Index |-> map[i] \ {d}]
    /\ UNCHANGED <<cmd, pc, todo, mine, pass, retry, result, ghosts,
                   report, hit, dev, node, loaded, holds, session>>

GhostVanishes(i) ==
    /\ i \in GhostNodes /\ node' = node \ {i}
    /\ ToolSame /\ UNCHANGED <<dev, loaded, alive, holds, session>>

(* What happens once the tool has ended is of no interest here. *)
Ended == pc \in {"done", "failed"}

World ==
  /\ ~Ended
  /\ \/ \E p \in App, i \in Index : AppOpens(p, i)
     \/ \E p \in Process : Closes(p)
     \/ \E i \in Index : OtherCreates(i) \/ GhostVanishes(i)
     \/ \E d \in Daemon :
          \/ DaemonOpens(d) \/ DaemonCleans(d) \/ DaemonStarts(d)
          \/ \E i \in Index : DaemonCreates(d, i)

-----------------------------------------------------------------------------
(* doctor's first snapshot, and repair_video_devices *)

Goto(p) == pc' = p

(* Only a running serve counts, and not every daemon is one. *)
Before ==
    /\ pc = "before"
    /\ \/ /\ cmd.force
          /\ alive \cap Daemon # {} \/ \E i \in Devices : Holders(i) # {}
          /\ Goto("stopFirst")
       \/ /\ ~cmd.force \/ \A i \in Devices : Holders(i) = {}
          /\ Goto("repair")
    /\ UNCHANGED <<world, cmd, loop, hit>>

AfterStop(p) ==
    CASE p = "stopFirst" -> "repair"
      [] p = "stop"      -> "list"
      [] p = "stopAgain" -> "unload"

(* stop_cam_shim_processes: none of them handles SIGTERM, so all die, and  *)
(* none removes its loopback.                                              *)
StopDaemons ==
    /\ pc \in {"stopFirst", "stop", "stopAgain"}
    /\ Die(alive \cap Daemon)
    /\ Goto(AfterStop(pc))
    /\ UNCHANGED <<dev, node, loaded, cmd, loop, hit>>

CountGhosts ==
    /\ pc = "repair"
    /\ ghosts' = GhostNodes /\ Goto("unlink")
    /\ UNCHANGED <<world, cmd, todo, mine, map, pass, retry, result, report, hit>>

(* remove_ghost_device_nodes: a file that is gone already fails it all. *)
Unlink(i) ==
    /\ pc = "unlink" /\ i \in ghosts
    /\ node' = node \ {i} /\ ghosts' = ghosts \ {i}
    /\ Goto(IF i \in node THEN "unlink" ELSE "failed")
    /\ UNCHANGED <<dev, loaded, alive, holds, session, cmd,
                   todo, mine, map, pass, retry, result, report, hit>>

Repaired ==
    /\ pc = "unlink" /\ ghosts = {}
    /\ Goto(CASE cmd.tool = "restore" -> "done"
              [] cmd.tool # "restore" -> IF cmd.force THEN "stop" ELSE "list")
    /\ UNCHANGED <<world, cmd, loop, hit>>

-----------------------------------------------------------------------------
(* clean_loopback_devices *)

ListDevices ==
    /\ pc = "list"
    /\ todo' = Devices /\ mine' = {i \in Index : dev[i] = "shim"}
    /\ Goto("look")
    /\ UNCHANGED <<world, cmd, map, pass, retry, result, ghosts, report, hit>>

LookForHolders ==
    /\ pc = "look"
    /\ map' = HolderMap /\ Goto("device")
    /\ UNCHANGED <<world, cmd, todo, mine, pass, retry, result, ghosts, report, hit>>

(* Highest number first. *)
Current == Max(todo)

Reported(what) ==
    /\ report' = [report EXCEPT ![Current] = what]
    /\ todo' = todo \ {Current}
    /\ retry' = FALSE /\ pass' = 1 /\ result' = "none"
    /\ map' = [map EXCEPT ![Current] = {}]
    /\ Goto("device")
    /\ UNCHANGED <<world, cmd, mine, ghosts, hit>>

(* Mutant: the name is not looked at. *)
MutantOurs(i) == TRUE

Ours(i) == cmd.all \/ i \in mine

Skip ==
    /\ pc = "device" /\ todo # {} /\ ~Ours(Current)
    /\ Reported("skipped")

Handle ==
    /\ pc = "device" /\ todo # {} /\ Ours(Current)
    /\ Goto(IF cmd.force THEN "signal" ELSE "remove")
    /\ UNCHANGED <<world, cmd, loop, hit>>

CleanEnded ==
    /\ pc = "device" /\ todo = {}
    /\ Goto(AfterClean(cmd))
    /\ map' = [i \in Index |-> {}] /\ mine' = {}
    /\ report' = [i \in Index |-> "none"]
    /\ UNCHANGED <<world, cmd, todo, pass, retry, result, ghosts, hit>>

(* What SIGTERM (an application may ignore it) or SIGKILL does. *)
Signalled(S, kill) ==
    \E deaf \in IF kill THEN {{}} ELSE SUBSET (S \cap App) :
        /\ Die(S \ deaf)
        /\ hit' = hit \cup ((S \cap App \cap alive) \ user)

(* Mutant: a second SIGTERM in place of SIGKILL. *)
MutantSignal ==
    /\ pc = "signal" /\ map[Current] # {}
    /\ Signalled(map[Current], FALSE)
    /\ Goto("rebuild")
    /\ UNCHANGED <<dev, node, loaded, cmd, loop>>

(* release_device_holders_with_map: a pass over the holders in the map. *)
Signal ==
    /\ pc = "signal" /\ map[Current] # {}
    /\ Signalled(map[Current], pass = 2)
    /\ Goto("rebuild")
    /\ UNCHANGED <<dev, node, loaded, cmd, loop>>

(* With nobody in the map nobody is signalled and the map stays as it was. *)
NobodyToSignal ==
    /\ pc = "signal" /\ map[Current] = {}
    /\ Goto("fuser")
    /\ UNCHANGED <<world, cmd, loop, hit>>

(* Mutant: one pass too many. *)
MutantRebuild ==
    /\ pc = "rebuild"
    /\ map' = HolderMap
    /\ IF map'[Current] # {} /\ pass <= 2
         THEN pass' = pass + 1 /\ Goto("signal")
         ELSE pass' = pass /\ Goto("fuser")
    /\ UNCHANGED <<world, cmd, todo, mine, retry, result, ghosts, report, hit>>

Rebuild ==
    /\ pc = "rebuild"
    /\ map' = HolderMap
    /\ IF map'[Current] # {} /\ pass = 1
         THEN pass' = 2 /\ Goto("signal")
         ELSE pass' = pass /\ Goto("fuser")
    /\ UNCHANGED <<world, cmd, todo, mine, retry, result, ghosts, report, hit>>

(* fuser -k -TERM looks for holders itself. *)
Fuser ==
    /\ pc = "fuser" /\ Current \in node
    /\ IF map[Current] # {} THEN Signalled(Holders(Current), FALSE)
                            ELSE UNCHANGED <<alive, holds, session, hit>>
    /\ Goto("refresh")
    /\ UNCHANGED <<dev, node, loaded, cmd, loop>>

(* It is only tried on a file that exists, and need not be installed. *)
NoFuser ==
    /\ pc = "fuser"
    /\ Goto("remove")
    /\ UNCHANGED <<world, cmd, loop, hit>>

Refresh ==
    /\ pc = "refresh"
    /\ map' = HolderMap /\ Goto("remove")
    /\ UNCHANGED <<world, cmd, todo, mine, pass, retry, result, ghosts, report, hit>>

(* Mutant: as often as it is busy. *)
MutantRemove ==
    /\ pc = "remove"
    /\ Removed(Current)
    /\ IF cmd.force /\ RemoveResult(Current) = "busy"
         THEN /\ retry' = TRUE /\ pass' = 1 /\ result' = "none"
              /\ Goto("signal")
         ELSE /\ result' = RemoveResult(Current) /\ Goto("judge")
              /\ UNCHANGED <<retry, pass>>
    /\ UNCHANGED <<loaded, alive, holds, session, cmd,
                   todo, mine, map, ghosts, report, hit>>

(* A busy device is released and tried once more under --force. *)
Remove ==
    /\ pc = "remove"
    /\ Removed(Current)
    /\ IF cmd.force /\ ~retry /\ RemoveResult(Current) = "busy"
         THEN /\ retry' = TRUE /\ pass' = 1 /\ result' = "none"
              /\ Goto("signal")
         ELSE /\ result' = RemoveResult(Current) /\ Goto("judge")
              /\ UNCHANGED <<retry, pass>>
    /\ UNCHANGED <<loaded, alive, holds, session, cmd,
                   todo, mine, map, ghosts, report, hit>>

(* Mutant: any error counts as "already gone". *)
MutantVerdict ==
    IF result = "ok" /\ Current \in Devices THEN "failed" ELSE "removed"

(* loopback_sysfs_exists is asked after the removal. *)
Verdict ==
    IF result \in {"ok", "gone"} /\ Current \notin Devices
      THEN "removed" ELSE "failed"

Judge == pc = "judge" /\ Reported(Verdict)

-----------------------------------------------------------------------------
(* ensure_module_loaded and unload_loopback_module *)

(* modprobe may fail; only doctor goes on then.  serve has its repair and  *)
(* its cleaning still to come.                                             *)
LoadModule ==
    /\ pc \in {"ensure", "load"}
    /\ loaded' \in {TRUE, loaded}
    /\ Goto(IF ~loaded' /\ cmd.tool # "doctor" THEN "failed"
            ELSE IF pc = "load" THEN "done"
            ELSE IF cmd.tool = "serve" THEN "repair" ELSE Reload(cmd))
    /\ UNCHANGED <<dev, node, alive, holds, session, cmd, loop, hit>>

(* modprobe -r takes every loopback along, but not while one is open. *)
Unload ==
    /\ pc = "unload" /\ \A p \in alive : holds[p] = None
    /\ loaded' = FALSE /\ dev' = [i \in Index |-> "free"]
    /\ node' = GhostNodes
    /\ Goto("load")
    /\ UNCHANGED <<alive, holds, session, cmd, loop, hit>>

UnloadFails ==
    /\ pc = "unload" /\ \E p \in alive : holds[p] # None
    /\ Goto(IF cmd.force \/ cmd.tool = "doctor" THEN "done" ELSE "failed")
    /\ UNCHANGED <<world, cmd, loop, hit>>

Tool ==
    \/ Before \/ StopDaemons \/ CountGhosts \/ Repaired
    \/ \E i \in Index : Unlink(i)
    \/ ListDevices \/ LookForHolders \/ Skip \/ Handle \/ CleanEnded
    \/ Signal \/ NobodyToSignal \/ Rebuild \/ Fuser \/ NoFuser \/ Refresh
    \/ Remove \/ Judge \/ LoadModule \/ Unload \/ UnloadFails

(* Between the listing and the end of clean_loopback_devices. *)
Cleaning == pc \in {"look", "device", "signal", "rebuild", "fuser", "refresh",
                    "remove", "judge"}

(* The history variables follow every step. *)
History ==
    /\ gone' = {i \in Index :
                  /\ i \in gone \/ (dev[i] # "free" /\ dev'[i] = "free")
                  /\ Cleaning' /\ (i \in todo \/ report[i] = "removed")}
    /\ came' = Noted' \cap
                 (came \cup {i \in Index : dev[i] # "other" /\ dev'[i] = "other"})
    /\ kept' = {h \in IF pc = "look" THEN Process \X Index ELSE kept :
                  Cleaning' /\ h[2] \in todo /\ holds'[h[1]] = h[2]}
    /\ user' = user \cup {p \in App : \E i \in Index :
                    holds'[p] = i /\ (dev'[i] = "shim" \/ i \in came')}

Next == (Tool \/ World) /\ History

Spec == Init /\ [][Next]_vars

(* The tool is a process that runs; every call it makes returns. *)
FairSpec == Spec /\ WF_vars(Tool /\ History)

-----------------------------------------------------------------------------
(* Properties *)

(* A step of the tool, not of the rest of the machine. *)
ToolStep == <<pc, todo, ghosts>>' # <<pc, todo, ghosts>>

Touched(i) == dev'[i] # dev[i] \/ (i \in node /\ i \notin node')

(* Without --all the tool removes another program's virtual camera, or     *)
(* cuts it off from its node, only where it took a number after the tool   *)
(* had noted that as cam-shim's or as a ghost's, unless the module is      *)
(* reloaded.  The numbers that daemons made, adopted or removed meanwhile  *)
(* do not mislead it.                                                      *)
OthersUntouched ==
    [][\A i \in Index : ToolStep /\ dev[i] = "other" /\ Touched(i) =>
         i \in came \/ cmd.all \/ pc = "unload"]_vars

(* The same without that exception: other programs' virtual cameras are    *)
(* left alone by `clean` unless it is called with --all.                   *)
OthersLeftAlone ==
    [][\A i \in Index : ToolStep /\ dev[i] = "other" /\ Touched(i) =>
         cmd.all \/ pc = "unload"]_vars

(* Without --all no application is signalled that never had a virtual      *)
(* camera of cam-shim open (or one that took a noted number), however old  *)
(* the map it is found in.                                                 *)
OnlyUsersSignalled == cmd.all \/ hit = {}

(* A device reported as removed has ceased to exist since it was listed:   *)
(* a removal that was refused is never passed off as done.                 *)
ReportIsTrue == \A i \in Index : report[i] = "removed" => i \in gone

(* With --force no process that had a device open when the tool looked     *)
(* still has it when the tool has dealt with that device, be it deaf to    *)
(* SIGTERM; only those that came later can make the removal fail.          *)
HoldersReleased ==
    cmd.force =>
        \A h \in kept : report[h[2]] \notin {"removed", "failed"}

(* The tool comes to an end however often applications come back. *)
CleanEnds == <>Ended
=============================================================================
