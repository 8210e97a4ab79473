---------------------------- MODULE NodeJournal ----------------------------
(***************************************************************************)
(* The node side of setup-cluster: the write-ahead journal of              *)
(* setup_cluster_node.py, the handlers that change files under it          *)
(* (prepare, docker, ssh, network, env, doctor-repair), restore, and the   *)
(* people and accidents around them: edits, deletions, killed handlers,    *)
(* reboots.  Of the docker group only what the journal's entry makes of it *)
(* is kept, which restore asks about; module DockerGroup has the rest.     *)
(*                                                                         *)
(* The files of one setup are numbered in the order the handlers write     *)
(* them; what a file holds is Helper (the contents the helper wrote), None *)
(* (no file) or one of the contents a user may author.                     *)
(***************************************************************************)
EXTENDS Integers

CONSTANTS
  NFiles,     \* files one setup changes on this node
  Phase,      \* the handler that writes each of them
  Managed,    \* those in the helper's own directory ~/.ssh/spark-vllm-cluster
  User,       \* contents a user may author
  None,       \* the contents of a file that does not exist
  Helper,     \* the contents the helper writes
  MaxEdits,   \* bound on edits and deletions by users, and on changes of group or devices
  MaxStops,   \* bound on handlers that stop half way, killed or with an error
  MaxReboots  \* bound on reboots

Files == 1..NFiles
Handlers == {"prepare", "ssh", "network", "env"}
Net == {i \in Files : Phase[i] = "network"}
Authored == User \union {None}
Image == Authored \union {Helper}
Faults == {"edit", "stop", "reboot"}

ASSUME PlanAssumption ==
  /\ NFiles \in Nat
  /\ Phase \in [Files -> Handlers]
  /\ Managed \subseteq Files \ Net
  /\ None \notin User
  /\ Helper \notin Authored

ASSUME BoundAssumption ==
  /\ MaxEdits \in Nat
  /\ MaxStops \in Nat
  /\ MaxReboots \in Nat

VARIABLES
  disk,       \* what each file holds
  own,        \* what its owner last meant it to hold (history)
  present,    \* journal.json exists
  logged,     \* the paths of its "files" entries
  before,     \* their before-images
  netStarted, \* its "network_started" flag
  dirLogged,  \* its "directories" list names the helper's directory
  dir,        \* the helper's directory exists
  clutter,    \* what else lies in that directory: "temp", "foreign"
  runtime,    \* the network configuration in effect
  docker,     \* what the journal's docker entry makes of the group
  replayable, \* the saved interfaces are there, with routes that can be replayed
  op, pc,     \* the handler that holds the node's lock, and where it is
  todo,       \* the files it still has to go through
  due,        \* what else doctor-repair decided to do: "network" (netplan apply), "docker"
  report,     \* the fingerprint doctor-inspect last handed out, if any
  faults      \* how many edits, stopped handlers and reboots have happened

journalVars == <<present, logged, before, netStarted, dirLogged>>
worldVars == <<disk, own, dir, clutter, runtime, docker, replayable>>
handlerVars == <<op, pc, todo, due>>
vars == <<worldVars, journalVars, handlerVars, report, faults>>

First(S, i) == i \in S /\ \A j \in S : i <= j
Last(S, i) == i \in S /\ \A j \in S : j <= i

(***************************************************************************)
(* What netplan makes of the files: the helper's configuration when all of *)
(* the files it rewrites are in place, the user's when none is.            *)
(***************************************************************************)
NetOf(d) ==
  IF \A i \in Net : d[i] # Helper THEN "orig"
  ELSE IF \A i \in Net : d[i] = Helper THEN "helper" ELSE "mixed"

Init ==
  /\ disk \in [Files -> Authored]
  /\ \A i \in Managed : disk[i] = None
  /\ own = disk
  /\ present = FALSE
  /\ logged = {}
  /\ before = [i \in Files |-> None]
  /\ netStarted = FALSE
  /\ dirLogged = FALSE
  /\ dir = FALSE
  /\ clutter = {}
  /\ runtime = "orig"
  /\ docker = "none"
  /\ replayable = TRUE
  /\ op = "none" /\ pc = "idle" /\ todo = {}
  /\ due = {}
  /\ report = {}
  /\ faults = [kind \in Faults |-> 0]

-----------------------------------------------------------------------------
(***************************************************************************)
(* Handlers.  dispatch takes the node's lock without waiting, so a handler *)
(* starts only when no other is running; the lock goes with the process.   *)
(***************************************************************************)
Idle == op' = "none" /\ pc' = "idle" /\ todo' = {} /\ due' = {}

Enter(handler, start, files) ==
  /\ op = "none"
  /\ op' = handler
  /\ pc' = start
  /\ todo' = files

PrepareStart ==
  /\ ~present
  /\ ~dir
  /\ Enter("prepare", "create", {i \in Files : Phase[i] = "prepare"})
  /\ UNCHANGED <<worldVars, journalVars, due, report, faults>>

\* The first journal.save(): nothing is named yet.
CreateJournal ==
  /\ op = "prepare" /\ pc = "create"
  /\ present' = TRUE
  /\ pc' = "logdir"
  /\ UNCHANGED <<worldVars, logged, before, netStarted, dirLogged, op, todo, due, report, faults>>

\* Faulty variant: the directory is made without being journaled.
LogDirectoryForgotten ==
  /\ op = "prepare" /\ pc = "logdir"
  /\ pc' = "mkdir"
  /\ UNCHANGED <<worldVars, journalVars, op, todo, due, report, faults>>

\* Journal.directory: named in the journal, saved, and only then made.
LogDirectory ==
  /\ op = "prepare" /\ pc = "logdir"
  /\ dirLogged' = TRUE
  /\ pc' = "mkdir"
  /\ UNCHANGED <<worldVars, present, logged, before, netStarted, op, todo, due, report, faults>>

MakeDirectory ==
  /\ op = "prepare" /\ pc = "mkdir"
  /\ dir' = TRUE
  /\ pc' = "log"
  /\ UNCHANGED <<disk, own, clutter, runtime, docker, replayable, journalVars, op, todo, due, report, faults>>

-----------------------------------------------------------------------------
(***************************************************************************)
(* ensure_docker, for a docker request or at the end of a repair.  The     *)
(* journal's docker entry is absent ("none"); without a group ID, with no  *)
(* docker group ("intent") or a group it cannot tell the origin of         *)
(* ("unowned"); or with the ID of the group there is, if any ("known"), or *)
(* of another one ("replaced").                                            *)
(***************************************************************************)
DockerFits == docker \notin {"unowned", "replaced"}

DockerStart ==
  /\ present
  /\ Enter("docker", "record", {})
  /\ UNCHANGED <<worldVars, journalVars, due, report, faults>>

\* The entry is saved first, with the group's ID if there is a group.
RecordIntent ==
  /\ pc = "record"
  /\ docker' \in IF docker = "none" THEN {"intent", "known"} ELSE {docker}
  /\ pc' = "group"
  /\ UNCHANGED <<disk, own, dir, clutter, runtime, replayable, journalVars, op, todo, due, report, faults>>

\* groupadd: from here to SaveGroup the journal does not know the group.
AddGroup ==
  /\ pc = "group" /\ docker = "intent"
  /\ docker' = "unowned"
  /\ pc' = "savegid"
  /\ UNCHANGED <<disk, own, dir, clutter, runtime, replayable, journalVars, op, todo, due, report, faults>>

\* The new group's ID is saved, or that of a group found under an entry without one.
SaveGroup ==
  /\ pc = "savegid" \/ (pc = "group" /\ docker = "unowned")
  /\ docker' = "known"
  /\ Idle
  /\ UNCHANGED <<disk, own, dir, clutter, runtime, replayable, journalVars, report, faults>>

\* The group is the recorded one, or another one, which is an error.
GroupSettled ==
  /\ pc = "group" /\ docker \in {"known", "replaced"}
  /\ Idle
  /\ UNCHANGED <<worldVars, journalVars, report, faults>>

-----------------------------------------------------------------------------
\* dispatch hands ssh, network and env to the journal it finds.
HandlerStart(handler) ==
  /\ present
  /\ Enter(handler, "log", {i \in Files : Phase[i] = handler})
  /\ UNCHANGED <<worldVars, journalVars, due, report, faults>>

\* Journal.write up to save(): the before-image is on disk before the file is touched.
LogFile(i) ==
  /\ pc = "log" /\ First(todo, i)
  /\ i \notin logged
  /\ logged' = logged \union {i}
  /\ before' = [before EXCEPT ![i] = disk[i]]
  /\ pc' = "write"
  /\ UNCHANGED <<worldVars, present, netStarted, dirLogged, op, todo, due, report, faults>>

\* "Already changed in this transaction": the handler ends with an error.
AlreadyLogged(i) ==
  /\ pc = "log" /\ First(todo, i)
  /\ i \in logged
  /\ Idle
  /\ UNCHANGED <<worldVars, journalVars, report, faults>>

\* Journal.write after save(): atomic_write replaces the file.
WriteFile(i) ==
  /\ pc = "write" /\ First(todo, i)
  /\ disk' = [disk EXCEPT ![i] = Helper]
  /\ todo' = todo \ {i}
  /\ pc' = "log"
  /\ UNCHANGED <<own, dir, clutter, runtime, docker, replayable, journalVars, op, due, report, faults>>

HandlerDone ==
  /\ op \in Handlers \ {"network"}
  /\ pc = "log" /\ todo = {}
  /\ Idle
  /\ UNCHANGED <<worldVars, journalVars, report, faults>>

\* Faulty variant: the flag is not saved.
MarkNetworkUnsaved ==
  /\ op = "network" /\ pc = "log" /\ todo = {}
  /\ pc' = "apply"
  /\ UNCHANGED <<worldVars, journalVars, op, todo, due, report, faults>>

\* apply_network: the flag is saved before netplan runs.
MarkNetwork ==
  /\ op = "network" /\ pc = "log" /\ todo = {}
  /\ netStarted' = TRUE
  /\ pc' = "apply"
  /\ UNCHANGED <<worldVars, present, logged, before, dirLogged, op, todo, due, report, faults>>

ApplyNetwork ==
  /\ op = "network" /\ pc = "apply"
  /\ runtime' = NetOf(disk)
  /\ Idle
  /\ UNCHANGED <<disk, own, dir, clutter, docker, replayable, journalVars, report, faults>>

-----------------------------------------------------------------------------
(***************************************************************************)
(* restore: every named file must hold what setup found or what setup      *)
(* wrote, the docker group must be the recorded one and the interfaces the *)
(* saved ones, or nothing is restored at all.  Then the network files, the *)
(* network itself, the other files, the docker group, the directory, and   *)
(* the journal last.                                                       *)
(***************************************************************************)
Edited == {i \in logged : disk[i] \notin {before[i], Helper}}

\* Faulty variant: only the network files are checked.
CheckRestoreNetOnly == DockerFits /\ Edited \intersect Net = {} /\ replayable

\* Faulty variant: what an earlier, interrupted restore put back is not recognised.
CheckRestoreOnce == DockerFits /\ (\A i \in logged : disk[i] = Helper) /\ replayable

\* check_docker_restore, the files, restored_routes.
CheckRestore == DockerFits /\ Edited = {} /\ replayable

RestoreStart ==
  /\ present
  /\ CheckRestore
  /\ Enter("restore", "undonet", logged \intersect Net)
  /\ UNCHANGED <<worldVars, journalVars, due, report, faults>>

UndoFile(i) ==
  /\ pc \in {"undonet", "undorest"} /\ Last(todo, i)
  /\ disk' = [disk EXCEPT ![i] = before[i]]
  /\ todo' = todo \ {i}
  /\ UNCHANGED <<own, dir, clutter, runtime, docker, replayable, journalVars, op, pc, due, report, faults>>

\* Faulty variant: the other files go before the network is back.
NetworkFilesBackOnly ==
  /\ pc = "undonet" /\ todo = {}
  /\ pc' = "undorest" /\ todo' = logged \ Net
  /\ UNCHANGED <<worldVars, journalVars, op, due, report, faults>>

\* With the network files back, the network itself goes back if setup started it.
NetworkFilesBack ==
  /\ pc = "undonet" /\ todo = {}
  /\ IF netStarted
     THEN pc' = "applyback" /\ UNCHANGED todo
     ELSE pc' = "undorest" /\ todo' = logged \ Net
  /\ UNCHANGED <<worldVars, journalVars, op, due, report, faults>>

ApplyBack ==
  /\ pc = "applyback"
  /\ runtime' = NetOf(disk)
  /\ pc' = "runtime"
  /\ UNCHANGED <<disk, own, dir, clutter, docker, replayable, journalVars, op, todo, due, report, faults>>

\* restore_runtime: addresses, MTU, IPv6 and routes as saved by prepare, once the
\* devices have been checked again.
RestoreRuntime ==
  /\ pc = "runtime"
  /\ IF replayable
     THEN runtime' = "orig" /\ pc' = "undorest" /\ todo' = logged \ Net /\ UNCHANGED <<op, due>>
     ELSE Idle /\ UNCHANGED runtime
  /\ UNCHANGED <<disk, own, dir, clutter, docker, replayable, journalVars, report, faults>>

\* restore_docker asks again which group there is.  That it deletes is no news here: an
\* entry fits where there is no group.
RestoreDocker ==
  /\ pc = "undorest" /\ todo = {}
  /\ IF DockerFits THEN pc' = "rmdir" /\ UNCHANGED <<op, todo, due>> ELSE Idle
  /\ UNCHANGED <<worldVars, journalVars, report, faults>>

\* rmdir fails, and is not missed, when anything is left in the directory.
RemoveDirectory ==
  /\ pc = "rmdir"
  /\ dir' = (dir /\ ~(dirLogged /\ clutter = {} /\ \A i \in Managed : disk[i] = None))
  /\ pc' = "unlink"
  /\ UNCHANGED <<disk, own, clutter, runtime, docker, replayable, journalVars, op, todo, due, report, faults>>

\* Faulty variant: the journal goes before the last files are back.
RemoveJournalEarly ==
  /\ pc \in {"undorest", "rmdir", "unlink"}
  /\ present' = FALSE
  /\ logged' = {}
  /\ before' = [i \in Files |-> None]
  /\ netStarted' = FALSE
  /\ dirLogged' = FALSE
  /\ docker' = "none"
  /\ replayable' = TRUE
  /\ report' = {}
  /\ Idle
  /\ UNCHANGED <<disk, own, dir, clutter, runtime, faults>>

\* With journal.json goes all it said, and a report about this transaction is void.
RemoveJournal ==
  /\ pc = "unlink"
  /\ present' = FALSE
  /\ logged' = {}
  /\ before' = [i \in Files |-> None]
  /\ netStarted' = FALSE
  /\ dirLogged' = FALSE
  /\ docker' = "none"
  /\ replayable' = TRUE
  /\ report' = {}
  /\ Idle
  /\ UNCHANGED <<disk, own, dir, clutter, runtime, faults>>

-----------------------------------------------------------------------------
(***************************************************************************)
(* doctor: an inspection fingerprints the named files; a repair recomputes *)
(* it, refuses if anything moved in between, and writes back the files     *)
(* that are missing or still hold what setup found.                        *)
(***************************************************************************)
Fingerprint == [i \in Files |-> IF i \in logged THEN disk[i] ELSE None]
Repairable == {i \in logged : disk[i] # Helper /\ disk[i] \in {None, before[i]}}
BlockedNetwork == \E i \in logged \intersect Net : disk[i] # Helper /\ i \notin Repairable
NetworkNeeded == Repairable \intersect Net # {} \/ runtime # "helper"

DoctorInspect ==
  /\ op = "none"
  /\ present /\ netStarted
  /\ report' = {Fingerprint}
  /\ UNCHANGED <<worldVars, journalVars, handlerVars, faults>>

RepairStart ==
  /\ present /\ netStarted
  /\ report = {Fingerprint}
  /\ Enter("repair", "rewrite", IF BlockedNetwork THEN Repairable \ Net ELSE Repairable)
  /\ \E missing \in {{}} \union (IF DockerFits THEN {{"docker"}} ELSE {}) :
       due' = missing \union (IF NetworkNeeded /\ ~BlockedNetwork THEN {"network"} ELSE {})
  /\ UNCHANGED <<worldVars, journalVars, report, faults>>

\* Faulty variant: a repaired file is journaled anew.
RepairFileRebased(i) ==
  /\ pc = "rewrite" /\ First(todo, i)
  /\ disk' = [disk EXCEPT ![i] = Helper]
  /\ own' = [own EXCEPT ![i] = IF disk[i] = None THEN before[i] ELSE @]
  /\ before' = [before EXCEPT ![i] = disk[i]]
  /\ dir' = (dir \/ i \in Managed)
  /\ todo' = todo \ {i}
  /\ UNCHANGED <<clutter, runtime, docker, replayable, present, logged, netStarted, dirLogged, op, pc, due, report, faults>>

\* The operator has seen and accepted that a missing file comes back.
RepairFile(i) ==
  /\ pc = "rewrite" /\ First(todo, i)
  /\ disk' = [disk EXCEPT ![i] = Helper]
  /\ own' = [own EXCEPT ![i] = IF disk[i] = None THEN before[i] ELSE @]
  /\ dir' = (dir \/ i \in Managed)
  /\ todo' = todo \ {i}
  /\ UNCHANGED <<clutter, runtime, docker, replayable, journalVars, op, pc, due, report, faults>>

\* netplan apply; then the user goes back into the docker group, if the report found
\* them missing from a group that fits.
RepairDone ==
  /\ pc = "rewrite" /\ todo = {}
  /\ runtime' = IF "network" \in due THEN NetOf(disk) ELSE runtime
  /\ IF "docker" \in due THEN pc' = "record" /\ due' = {} /\ UNCHANGED <<op, todo>> ELSE Idle
  /\ UNCHANGED <<disk, own, dir, clutter, docker, replayable, journalVars, report, faults>>

-----------------------------------------------------------------------------
(***************************************************************************)
(* The world around the handlers.                                          *)
(***************************************************************************)
Count(kind, bound) ==
  /\ faults[kind] < bound
  /\ faults' = [faults EXCEPT ![kind] = @ + 1]

\* An exception: the handler ends, atomic_write's finally removes its temporary file.
HandlerFails ==
  /\ op # "none"
  /\ Count("stop", MaxStops)
  /\ Idle
  /\ UNCHANGED <<worldVars, journalVars, report>>

\* The handler is about to replace a file of the helper's directory, so its
\* temporary file may already lie there.
TempInDirectory ==
  /\ pc \in {"write", "rewrite"}
  /\ \E i \in Managed : First(todo, i)

HandlerKilled ==
  /\ op # "none"
  /\ Count("stop", MaxStops)
  /\ clutter' \in {clutter} \union (IF TempInDirectory THEN {clutter \union {"temp"}} ELSE {})
  /\ Idle
  /\ UNCHANGED <<disk, own, dir, runtime, docker, replayable, journalVars, report>>

\* A reboot ends a running handler and brings up what the netplan files say.
Reboot ==
  /\ Count("reboot", MaxReboots)
  /\ runtime' = NetOf(disk)
  /\ Idle
  /\ UNCHANGED <<disk, own, dir, clutter, docker, replayable, journalVars, report>>

\* Files the running handler has checked or backed up and is still to overwrite.
Exposed ==
  {i \in Files :
     \/ op = "restore" /\ i \in todo
     \/ op = "restore" /\ pc \in {"undonet", "applyback", "runtime"} /\ i \in logged \ Net
     \/ op = "repair" /\ i \in todo
     \/ pc = "write" /\ First(todo, i)}

\* A user writes a file, or removes it.  Removing the helper's contents is damage,
\* not a new version: the owner still means the file as it was before setup.
EditFile(i, c) ==
  /\ Count("edit", MaxEdits)
  /\ c # disk[i]
  /\ i \in Managed => dir
  /\ disk' = [disk EXCEPT ![i] = c]
  /\ own' = [own EXCEPT ![i] = IF c = None /\ disk[i] = Helper THEN before[i] ELSE c]
  /\ UNCHANGED <<dir, clutter, runtime, docker, replayable, journalVars, handlerVars, report>>

\* A user leaves a file of their own in the helper's directory.
AddForeign ==
  /\ dir
  /\ Count("edit", MaxEdits)
  /\ clutter' = clutter \union {"foreign"}
  /\ UNCHANGED <<disk, own, dir, runtime, docker, replayable, journalVars, handlerVars, report>>

\* An administrator makes another docker group, or removes one; what they do while
\* ensure_docker runs is in module DockerGroup.
ChangeGroup ==
  /\ Count("edit", MaxEdits)
  /\ pc \notin {"record", "group", "savegid"}
  /\ docker # "none"
  /\ docker' = CASE docker = "intent" -> "unowned" [] docker = "unowned" -> "intent"
                 [] docker = "known" -> "replaced" [] docker = "replaced" -> "known"
  /\ UNCHANGED <<disk, own, dir, clutter, runtime, replayable, journalVars, handlerVars, report>>

\* A saved interface is taken out or replaced, or put back; or a route that prepare saved
\* turns out to be of a kind that restore does not replay.
ChangeDevices ==
  /\ Count("edit", MaxEdits)
  /\ present
  /\ replayable' = ~replayable
  /\ UNCHANGED <<disk, own, dir, clutter, runtime, docker, journalVars, handlerVars, report>>

-----------------------------------------------------------------------------
HandlerStep ==
  \/ CreateJournal \/ LogDirectory \/ MakeDirectory
  \/ RecordIntent \/ AddGroup \/ SaveGroup \/ GroupSettled
  \/ \E i \in Files : LogFile(i) \/ AlreadyLogged(i) \/ WriteFile(i)
  \/ HandlerDone \/ MarkNetwork \/ ApplyNetwork
  \/ \E i \in Files : UndoFile(i)
  \/ NetworkFilesBack \/ ApplyBack \/ RestoreRuntime \/ RestoreDocker \/ RemoveDirectory \/ RemoveJournal
  \/ \E i \in Files : RepairFile(i)
  \/ RepairDone

Requests ==
  \/ PrepareStart \/ DockerStart
  \/ \E handler \in {"ssh", "network", "env"} : HandlerStart(handler)
  \/ RestoreStart
  \/ DoctorInspect \/ RepairStart

Accidents ==
  \/ HandlerFails \/ HandlerKilled \/ Reboot
  \/ AddForeign \/ ChangeGroup \/ ChangeDevices

\* Users edit anything but the files the running handler is about to overwrite.
QuietEdits == \E i \in Files, c \in Authored : i \notin Exposed /\ EditFile(i, c)

Next == HandlerStep \/ Requests \/ Accidents \/ QuietEdits

Spec == Init /\ [][Next]_vars

\* A started handler runs to its end, and the operator repeats --restore for as
\* long as it is accepted again and again.
FairSpec == Spec /\ WF_vars(HandlerStep) /\ SF_vars(RestoreStart)

-----------------------------------------------------------------------------
(***************************************************************************)
(* Properties.                                                             *)
(***************************************************************************)
\* Every variable has its type; in particular a before-image is always an
\* authored version, never the helper's own contents taken for the original.
TypeOK ==
  /\ disk \in [Files -> Image]
  /\ own \in [Files -> Authored]
  /\ present \in BOOLEAN
  /\ logged \in SUBSET Files
  /\ before \in [Files -> Authored]
  /\ netStarted \in BOOLEAN
  /\ dirLogged \in BOOLEAN
  /\ dir \in BOOLEAN
  /\ clutter \in SUBSET {"temp", "foreign"}
  /\ runtime \in {"orig", "helper", "mixed"}
  /\ docker \in {"none", "intent", "unowned", "known", "replaced"}
  /\ replayable \in BOOLEAN
  /\ op \in Handlers \union {"none", "docker", "restore", "repair"}
  /\ pc \in {"idle", "create", "logdir", "mkdir", "record", "group", "savegid", "log", "write",
             "apply", "undonet", "applyback", "runtime", "undorest", "rmdir", "unlink", "rewrite"}
  /\ todo \in SUBSET Files
  /\ due \in SUBSET {"network", "docker"}
  /\ report \in SUBSET [Files -> Image]
  /\ faults \in [Faults -> Nat]

\* The journal is written ahead: whatever file holds the helper's contents is
\* named in a journal that exists, so that restore will find it.
WriteAhead == \A i \in Files : disk[i] = Helper => present /\ i \in logged

\* No version a user meant to keep is ever lost: it is in the file, or the
\* file was changed or removed under a journal that holds it as before-image.
\* With no journal left, every file is back to what its owner last left there.
UserVersionKept ==
  \A i \in Files :
    \/ disk[i] = own[i]
    \/ /\ present /\ i \in logged
       /\ before[i] = own[i]
       /\ disk[i] \in {Helper, None}

\* Before-images are never replaced while their journal lives, whatever
\* handlers run again, fail half way or are run by doctor.
BaselineKept ==
  [][present /\ present' => \A i \in logged : i \in logged' /\ before'[i] = before[i]]_vars

\* Restore takes the cluster's SSH files away only once the network setup
\* started is back to what it was, also when it is repeated after a failure.
SshOutlivesNetwork ==
  [][\A i \in Files \ Net :
       op = "restore" /\ disk[i] = Helper /\ disk'[i] # Helper
         => ~netStarted \/ runtime = "orig"]_vars

\* After a restore the network in effect is the user's.
NetworkBack == ~present => runtime = "orig"

\* So it is where nothing was rebooted, whichever handlers failed or were killed half way.
NetworkBackUnlessRebooted == faults["reboot"] = 0 => NetworkBack

\* When restore is through with the helper's directory, it is gone unless the user
\* keeps files of their own in it, or a killed handler its temporary file.
DirectoryBack ==
  [][pc # "unlink" /\ pc' = "unlink"
       => ~dir' \/ clutter # {} \/ \E i \in Managed : disk[i] # None]_vars

\* As long as the operator repeats --restore, a journal is undone and removed, unless it
\* comes to a file that was edited, to a docker group that was replaced or whose ID it has
\* not (which a handler stopped between groupadd and saving the ID leaves as well: the
\* run docker_kill), or to interfaces and routes that are not the saved ones.
EventuallyRestored ==
  [](present => <>(~present \/ Edited # {} \/ docker \in {"unowned", "replaced"} \/ ~replayable))

\* The journal implements the abstract undo log.
Log == INSTANCE UndoLog WITH
  open <- present,
  changed <- {i \in Files : disk[i] = Helper}
ImplementsUndoLog == Log!Spec
=============================================================================
