# A verification development for spark-vllm-docker

The repository sets up a small cluster of DGX Spark machines (CX7 networking,
SSH between the nodes, the docker group), builds images for it and runs vLLM
containers on it. These modules model the parts of it that change many machines in
several steps and have to be undone when something goes wrong half way, or that delete
what cannot be had back: `setup-cluster.py`, its node side `setup_cluster_node.py`,
`launch-cluster.sh`, `hf-download.sh` with `hf-cache.py`, and the wheel cache of
`build-and-copy.sh`. Two more are about decisions: which topology the cables make and
what is saved of it (`cluster_topology.py`, the planning in `setup-cluster.py`,
`autodiscover.sh`), and what the patch scripts of the image build and of the mods make of
the sources they find. TLC checks them on small
instances; TLAPS proves the main invariants for every value of the constants.

To run anything: `tlc -config <run>.cfg <module>.tla`, `tlapm <module>Proofs.tla`.

## 1. Inventory

| Component | State it keeps | Operations |
|---|---|---|
| **Node handlers** `setup_cluster_node.py` | `/var/lib/spark-vllm-docker/setup-cluster/journal.json` (transaction, `files` with before-images, `directories`, `network_started`, `docker`), the files themselves (cluster key, `authorized_keys`, `known_hosts`, Netplan, `.env`), network in effect, the lock | `dispatch` of inspect, preflight, prepare, docker, ssh, network, verify, env, check-restore, restore, doctor-inspect, doctor-repair |
| **Docker group** (same file) | the group, its members, the journal's `docker` entry | `ensure_docker`, `check_docker_restore`, `restore_docker` |
| **Setup head** `setup-cluster.py` | the restore manifest (state file), one process | `setup` with its rollback, `restore_cluster`, `save_existing_env`, `doctor` |
| **Transport** (same file) | SSH masters, passwords | `connect`, `authenticate_sudo`, `call` with its timeout |
| **Topology** `cluster_topology.py`, `choose_topology`, `make_plan` | the links and settings saved in `.env`, the plan of a run | detection of rings, meshes and pairs, address plan, verification, recovery from the journals, rank orders, copy paths, checks of a launch |
| **Launcher** `launch-cluster.sh` | containers of one name on every node, traps, `CLUSTER_WAS_RUNNING` | start, exec, stop, status; mods, launch scripts, Ray, dispatch without Ray, `cleanup` |
| **Hugging Face cache** `hf-download.sh`, `hf-cache.py` | blobs and snapshots on every host, backups | inventory, copy, backup, restore, delete, cleanup |
| **Wheel cache and image build** `build-and-copy.sh` | a profile directory per component with its wheels and commit marks, `.backup-download-*` in it, `.backup.$$` beside it, images | download, validation, local build, promotion, `--cleanup`, image, copy |
| **Autodiscovery** `autodiscover.sh` | `.env` | probe, ask, select nodes, save |
| **Recipe runner** `run-recipe.py` | none | a recipe and options become one launcher command |
| **Build-time patches** `docker/*.py` | the source trees of vLLM and FlashInfer, installed packages | each looks for passages, refuses, leaves or rewrites files |
| **Mods, kernels, recipes** `mods/`, `recipes/` | the packages installed in a container; the profiler's hooks, helper, manifest and run directory | patch, applied again after a kill |
| **Benchmarks** `context-bench.py` | none | a client of a running server |

How they interact. The head calls one node at a time over SSH; the node's side is a
program sent along with the request, which takes the node's lock without waiting,
does its work under the journal and answers. A call given up by the head may
go on. The manifest on the head and the journals on the nodes carry the
same transaction; nothing else connects them. The launcher uses `.env` (nodes,
interfaces) and plain `ssh`/`docker` commands; it has no lock and no
record of what it started but the name of the containers. hf-download and
build-and-copy use the same `.env`. The recipe runner starts the launcher, which runs the
mods in the containers; the patches run inside the image build, several of them on the same
files.

What is hard, and what has to be true of it:

| Component | Hard behaviours | What makes it correct |
|---|---|---|
| Node handlers | a kill, an error or a reboot between any two writes; users who edit the same files; repeated restores; doctor repairs from an old report | what holds the helper's contents is in the journal; no user's version is lost; before-images never change; the network is put back before the SSH files go; a repeated restore ends, or says what stands in its way |
| Docker group | a kill between `groupadd` and the saved ID; an administrator who removes or replaces the group, which is known by name | only a group setup made is deleted, and only if nobody uses it; the user's own membership survives |
| Setup head | timeouts of calls that still run; Ctrl-C and kills; one node failing; several heads or terminals | every journal is recorded in a manifest; `--restore` checks all before it changes one; setups do not undo each other; a reported success is whole; repeated restores end |
| Launcher | a node failing half way; signals; overlapping launchers; containers that die | a foreground run leaves no container; it stops nobody else's; the command goes to a prepared cluster |
| Hugging Face cache | a download during a deletion or its confirmation; one host failing; two backups at once; a kill half way | `--backup --delete` deletes nothing that the published backup does not cover; a backup is never replaced; other repositories keep their revisions; a reported success is whole on every node |
| Topology | miscabled nodes, LLDP on some nodes only, subnets left by an earlier cabling; cables that move between inspection, verification and saving | a saved link worked; what is saved, the launcher accepts; the journals give back the plan; copies go by shortest paths |
| Wheel cache | kills between the moves of files and directories; downloads that fail half way; incomplete releases, releases replaced meanwhile; shortcuts that skip a download | a whole set is on the disk until another one is; marks tell the truth; images come from whole sets; a later run recovers by itself |
| Patches and mods | sources of unknown versions; scripts that edit the same file; a kill between or inside writes | a script that does not know its sources writes nothing; nothing affected is left after a success; a second application is quiet; a mod is installed whole |

The hazards are listed one by one, each at its line and with the properties
that would show it going wrong, in `PROJECT.json`.

## 2. Modules

    UndoLog              what a node promises: an abstract undo log
      ^ implemented by
    NodeJournal          one node: files, network, directory under the journal
    DockerGroup          one node: the docker group under the journal
    SetupCluster         heads and nodes: calls, timeouts, manifest, rollback, restore
    LaunchCluster        launchers and the containers of the nodes
    HfCache              runs of hf-download.sh and the Hub caches of the nodes
    ClusterTopology      the graph of saved links: orders, paths, checks, discovery
      ^ extended by
    ClusterPlan          from cables to .env, by setup, --save-env and autodiscovery
    SourcePatches        what patch scripts decide on a tree, and their writes
    WheelCache           runs of build-and-copy.sh and the profiles of wheels

`MC*` modules hold the instances' constants, `*Proofs` the theorems. SetupCluster
keeps of a node only which handlers' changes are in place, what its check would
refuse (`drift`), the journal's transaction and the lock; NodeJournal and
DockerGroup are what happens within one call. Of the docker group NodeJournal keeps whether
it is the one the journal names; who made it and who uses it is DockerGroup's. A definition whose comment begins
*Faulty variant* is a plausible bug in the definition after it. No specification uses
it; putting it in the other's place breaks the property it is meant for.

### NodeJournal

Files are numbered in the order the handlers write them, each belongs to one
handler (`Phase`), some lie in the directory the helper makes (`Managed`). A
file holds the helper's contents, nothing, or a version a user authored.

| Model | Code |
|---|---|
| `PrepareStart`, `CreateJournal`, `LogDirectory`, `MakeDirectory` | `prepare`, `Journal.directory` |
| `HandlerStart` | `dispatch` of ssh, network, env to an existing journal |
| `LogFile`, `AlreadyLogged`, `WriteFile` | `Journal.write`: snapshot, save, then `atomic_write`; a path already named is refused |
| `DockerStart`, `RecordIntent`, `AddGroup`, `SaveGroup`, `GroupSettled` | `ensure_docker`, for a request or at the end of a repair: what the journal's entry says, and whether a group fits it |
| `MarkNetwork`, `ApplyNetwork` | `apply_network`: save `network_started`, then `netplan apply` |
| `RestoreStart`, `UndoFile`, `NetworkFilesBack`, `ApplyBack`, `RestoreRuntime`, `RestoreDocker`, `RemoveDirectory`, `RemoveJournal` | `check_restore` with its three refusals (`CheckRestore`: docker group, files, devices and routes), `restore` |
| `DoctorInspect`, `RepairStart`, `RepairFile`, `RepairDone` | `doctor_report` with its fingerprint, `repair_node` |
| `HandlerFails`, `HandlerKilled`, `Reboot`, `EditFile`, `AddForeign`, `ChangeGroup`, `ChangeDevices` | an exception, a kill, a reboot, users and administrators |

`docker` is the state of the journal's entry: none, without an ID while there is no group
(*intent*) or while there is one (*unowned*), with the ID of the group there is (*known*) or of
another one (*replaced*). `replayable` says that the saved interfaces are there and their routes
can be put back. `own` is a history variable: what the file's owner last meant it to hold.
`UserVersionKept` relates it to the disk and the before-images. `HandlerFails`
takes the `finally` of `atomic_write` with it; a kill does not and may leave a
temporary file (`clutter`).

`Spec` lets users edit any file but those the running handler has checked or
backed up and is about to overwrite (`Exposed`): no file system offers the
code a way to exclude that. All of NodeJournal's invariants are about edits outside these
windows; restore's is wider than it need be (section 4).

`UndoLog` says what a node promises, in five actions: an item changes only
while the log names it, and the log goes only when nothing it names is changed any more.
`ImplementsUndoLog` maps `open` to the existence of `journal.json` and `changed`
to the files that hold the helper's contents.

### DockerGroup

Group IDs are never handed out twice. `maker` (history) says who made the
group: a user, the helper, or the helper in a handler killed before it saved the ID.
`ReadMembership` to `AddMember` are `ensure_docker`, step by step from what it reads
at its start; doctor calls it when a membership is missing and the group passes
`check_docker_restore`. `RestoreStart` to `RemoveJournal` are the restore's
part. The administrator makes and removes the group and moves the user and others
in and out, at any time, also while setup's journal is open, but for one narrow window: the
group is not made anew between restore's last look and `groupdel`. `byhand` (history) marks a
membership that the user got by hand after setup had found none.

### SetupCluster

`StartSetup` is everything `setup` does before the operator's confirmation;
then the manifest is created with `O_EXCL` (`SaveManifest`) and the
phases follow: prepare, docker and ssh from the head on, network from the last
node to the head, verify, env. A call is `Send`, `Arrive` (the node's lock, or an error)
and `Serve`, `Refuse` or `Fail`. `TimeOut`, `Interrupt` and `Killed` give a call up: its
handler may be running, may never run, or may start later (`LateArrive`). `strays` (history) are the
prepares that did. `drift` is what a node's check refuses: a file edited or a docker group
replaced, or a group whose ID was lost when the docker handler stopped after `groupadd` (`Fail`).
`Checked`, `SkipNode`, `Restored` and `RestoreEnds` are `restore_cluster`, best-effort as a
rollback and all-or-nothing for `--restore`.

### LaunchCluster

A launcher is one run of the script, with its options: daemon or foreground,
Ray or not, mods or none. Its phases are `start_cluster`'s; each visits the nodes one
by one, head first. Every phase can fail as the code lets it: with `cleanup` and return (a
container, earlyoom or a mod), with `exit` (the image comparison, a copy, Ray's timeout),
or unnoticed (an ssh during the check, a worker's dispatch, a `docker stop`). `Signal` runs
`cleanup` in the trap and, as the code does, lets the script go on. `BoxDies` is a
container or node that dies, and `launch-cluster.sh stop`. Launchers overlap as they like.
Two history variables say what a launcher cannot answer for. `upset`: it was signalled before its command ran,
or without its traps, or its cleanup did not reach a node; `NothingLeft` and `FreedInTheEnd`
except these, and `launch_signal` shows why. `misled`: it does not know what runs, because it could not ask a node,
was signalled before its check was over, or another launcher has started a container since;
`RunningSpared` and `ReadyBeforeCommand` except these (section 4).

### HfCache

One model, its revisions and their files, on the head (node 1) and its hosts. A *file*
stands for a revision, a name and a size, which is all that `covered` compares. An
operator's run is one of the six commands the argument checks let through (`Actions`;
`backupdelete` is `--backup --delete`), with a revision or `All`. The phases are the script's:

| Phase | Model | Code |
|---|---|---|
| `stage`, `publish` | `StageBackup`, `Publish` and their refusals | `transfer`: validate, copy to a hidden directory, validate, `rename` |
| `look`, `check` | `Look`, `LookRefused`, `CheckPasses`, `CheckFails` | `collect_inventory` node by node; `covered`, `resolve-revision`, `check-revision` |
| `confirm` | `Confirm`, `Decline` | the question and the repair of ownership in `delete_models` |
| `relook`, `recheck` | `Look`, `RecheckPasses`, `CheckFails` | the second inventory and its checks, with a backup or a revision |
| `rmlook`, `rm` | `PickRemoval`, `NothingToRemove`, `RefuseRemoval`, `Remove`, `RemoveFails` | `delete` on each node: its own look, then `hf cache rm` |
| `fetch`, `open` | `Fetch`, `OpenBackup`, `RestoreRefused` | `hf download`; `transfer` with `restore` up to the staged copy |
| `fill`, `send` | `FillSome`, `FillRest`, `Send`, `NothingToSend`, `CopyFails` | the merge into the head's cache, then rsync to each host |
| `ok`, `over` | `NextNode`, `End`, `Exit` | exit with all done, and any other exit |

`Stops` is a failing step under `set -e` or a kill, at any phase; what the run knew and what
it staged go with it. `others` are revision hashes another repository of a node's cache also
has, since `hf cache rm` takes a hash from all of them. `dangling` are files whose link is
there before the blob: inventories and trees with one are refused, and `hf cache rm` passes
over them. `Arrive` and `OtherArrives` are vLLM, `hf` and everybody else who fills caches.
Three history variables say what a run cannot know: `missed` (what a node holds that came
after the run's last look there, or that hf passed over), `newer` (hashes that came to be
shared after the node's own look) and `crossed` (another run removed something). The
properties except exactly these: no lock on a cache would let the code do better.

### ClusterTopology and ClusterPlan

A node is its management address, an interface a node, one of its two ports and one of the
two rails behind it; addresses are numbers, networks their quotients by 256.
ClusterTopology translates `Topology` and the functions around it as operators on graphs:
`WellFormed` (the constructor), `Ring`, `Complete`, `RankOrder`, `Paths` (`copy_paths`),
`ValidOrder`, `ValidLaunch`, `Discovered`. ClusterPlan is the way from cables to `.env`:

| Model | Code |
|---|---|
| `Plan`: `ChooseTopology` (`DetectLldpRing`, `DetectRing`, `SinglePorts`), `MakePlan`, `ClusterEnv` | `choose_topology`, `make_plan`, `cluster_env`, before anything is changed |
| `Apply`, `Verify`, `VerifyFails` | the network phase, `verify` between all pairs, the rollback |
| `SaveEnv` | `--save-env`: `saved_configuration` from the journals' addresses, the verification, `.env` |
| `Discover` | `autodiscover.sh` for four nodes or more: probe, select, save |
| `MoveCable` | someone takes a cable out, puts one in, or both, at any time |

`site` is a cluster as it is found: cables, switch ports, which nodes run LLDP, ports that
are down, addresses configured before, and the options and the operator's answer. The ring of
`make_plan` is a statement about ports and subnets, the ring of the launcher one about the
graph of links: that they agree is not by construction and is what `LaunchAccepts` is about.

### SourcePatches

A text says how many times each passage that some script looks for occurs in it, a tree is a
record of texts. Each script is an operator that says what it decides before its first write:
`Keep`, `Refuse`, or writes in their order. Scripts that edit the same file use the same
passages (`gpu_worker.py` and `gc_utils.py` are edited by three). `Decide`, `MakeWrite`, `Fail`
and `EndScript` run a series of scripts, one write at a time; `Again` applies the series to
what it made; `Kill` ends a mod between two writes or, unless the file is written through a temporary
one, within a write. A build that is killed loses its layer and the tree with it. Two mods look
again around their own writes: Inkling's at the GPU and its packages before them (`PreflightFails`)
and at what it installed before it touches the dispatch (`ImportFails`), the profiler with a first
measurement after them (`BaselineFails`).

### WheelCache

Two components, FlashInfer with three kinds of wheels and vLLM with one. (*python* stands for
all kinds without pins, the cubin wheel among them.) A *set* is what one publication or one local build
made. Sets are numbered by age, so that comparing file times is comparing numbers, and may
share a version, and then have the same file names.

| Step | Model | Code |
|---|---|---|
| `list`, `page`, `decide` | `List`, `NotListed`, `ReadCommit`, `KeepLocal`, `NeedDownload` | `try_download_wheels` up to the decision: assets, commit, the shortcuts by commit and by time; the removal of an old backup |
| `sweep`, `fetch`, `mark` | `Sweep`, `Fetch`, `FetchFails`, `Fetched`, `WriteMark` | wheels and marks put aside one by one, the downloads, the check of FlashInfer's set, the mark |
| `undo`, `restore`, `existing` | `Undo`, `Restore`, `UseExisting` | a failed download's wheels go, the old ones come back, any that are there are made do with |
| `build`, `park`, `promote`, `unpark` | `Build`, `BuildFails`, `Park`, `Promote`, `PromoteFails`, `Unpark` | the wheel export, `promote_wheel_set` rename by rename |
| `validate`, `image` | `Validate`, `MakeImage`, `ImageFails` | the check between the two components, `validate_runner_wheel_inputs`, the image |
| `clean` | `CleanUp` | `--cleanup`, file by file |

`Kill` ends a run at any step; the next `Start` meets what it left. `Publish` and `Repair`
are the project's releases: replaced, complete or without a provider, at any time, or
completed later. `upset` (history) marks runs in which something failed or a release changed or was
incomplete; `found` (history) is what a run found in the profiles.

## 3. Runs

| Run | Instance | What it shows |
|---|---|---|
| `node_journal` | one file each of prepare, ssh and network; a handler stopped by an error or a kill, a reboot, an edit or a change of group or devices; fairness | `UserVersionKept`, `NetworkBackUnlessRebooted`, `BaselineKept`, `SshOutlivesNetwork`, `DirectoryBack`, the refinement of `UndoLog`, `EventuallyRestored` |
| `node_reboot` | key, `authorized_keys`, two Netplan files; one reboot | *violated*: `NetworkBack` |
| `docker_group` | 5 IDs, 4 acts of an administrator, 2 kills | `MembershipBack`, `OnlyOwnGroupDeleted`, `GroupBack` |
| `docker_kill` | one kill, no administrator | *violated*: `RestoreNotRefused` |
| `setup_one` | one head, two nodes, two setups; a failure, a call given up that may run late, an edit; fairness | `ManifestCovers`, `EventuallyRestored` |
| `setup_heads` | two machines, the same two nodes in opposite orders; a call given up that may run late | `SetupUndisturbed`, `SetupComplete` |
| `launch_one` | three nodes; a daemon and a foreground run under Ray, both with mods, overlapping or not; 2 faults, 2 signals; fairness | `NothingLeft`, `RunningSpared`, `ReadyBeforeCommand`, `FreedInTheEnd` |
| `launch_signal` | the same, one signal and no fault | *violated*: `NothingLeftBySignal` |
| `hf_cache` | head and host, two revisions of a file each; one operator deletes, the other fills or backs up, two runs in all; a fault, an arrival | `CoveredBeforeDeleted`, `BackupKept`, `OthersSpared`, `RestoredEverywhere`, `DeletedEverywhere` |
| `cluster_plan` | every cabling of two and three nodes and all of four nodes with three or four cables, rings of up to six, switches; options, LLDP, answers; up to two moves of cables | `LinksJoined`, `LaunchAccepts`, `JournalsHoldPlan`, `DiscoverAgrees`, `CopyPathsShortest` |
| `patches` | each series of scripts on the known sources and on all that differ from them in one or two passages; applied twice; a kill; failing checks | `RefusalLeavesTree`, `ReapplyQuiet`, `NothingAffectedLeft`, `InstalledWhole` |
| `wheel_cache` | two sets of FlashInfer's wheels of one version, three of vLLM's; two runs, a fault, a kill | `MarksMatch`, `StillHeld`, `ImageWhole`, `KeptOnFailure`, `RecoversAlone` |

`cluster_plan` and `patches` check their `TypeOK` too. That of the other modules is proved
(section 5) and takes no run's time.

Why these bounds. *Files*: in `node_journal` one file of each handler makes the order of
handlers and of restoration visible, and the properties speak of one file at a time; two
Netplan files, of which one is written, are in `node_reboot`, and the proofs cover any
number. *Edits*: one is enough to block a restore; it may come at any point, to any file, and may
be the restoration of the version setup found, which is what a repeated restore has to accept. *Kills, failures,
reboots*: each is followed by any sequence of further handlers, so one stop and one reboot
reach every journal a handler can leave, and the proofs cover any number.
*Administrator*: removing the group, making it again and moving a member in or
out are three acts, a fourth is to spare; two kills allow one in setup and one in its
repair. *Nodes of a setup*: two have a first and a last, one that a rollback has passed and one that it
has not; the proofs cover any number. *Setups*: two, so
that one meets what another left behind. *Launchers*: two meet in each other's check, start, command
and cleanup; the daemon's containers are there when a later launcher looks. *Caches*: a head and one host tell the head's
cache from a remote one and the first node of a loop from the last; with two revisions of a file each a
backup may cover one and not the other; of two runs, at once or one after the other, either
may be the one that meets the other's half-done work. Any set of files is on any node
at the start, and any is in the backup. The two revisions are interchangeable and
declared so (`MCRenamings`). One fault and one arrival may come between any two
steps; the proofs cover more. *Signals*: the second one meets a script
without traps. *Cablings*: the rules for pairs, meshes and rings differ at two, three and
four nodes and not beyond; with less than three cables four nodes are not connected. A
miscabled ring is a ring with one or two cables moved. *Sources*: a script looks at its
passages together, and one or two of them missing or doubled reach each of its refusals; a
third series would find what the second left. *Wheels*: the first set may be published and
downloaded at the start, so the first run may already be the one that replaces something, and
the second the one that meets what a kill left; FlashInfer's sets share their file names,
vLLM's do not. One fault and one kill may come at any step, the proofs cover any number.
`MaxTx`, `MaxFaults`, `MaxGiveUps`, `MaxEdits`, `MaxKills`, `MaxStops`,
`MaxReboots`, `MaxAdmin`, `MaxGid`, `MaxSignals`, `MaxRuns`, `MaxArrivals`, `MaxRounds`,
`MaxSets` and a site's `moves` bound counters that the code does not have.

Deadlock is not checked where the system may stop: nobody has to start a command;
a launcher is done; a plan is saved or refused, a series of patches applied; a wheel run
beyond the bound is not started; and when an administrator has replaced the group, both
restore and doctor refuse until the administrator acts again.

### Fairness

- `NodeJournal`: weak fairness of `HandlerStep`, a started program that runs on; strong
  fairness of `RestoreStart`, the operator who repeats `--restore`, as the error message asks.
  Strong because a doctor's or setup's call may hold the lock in between.
- `SetupCluster`: the same for each head and each node's handlers. A call that is never
  answered ends in `TimeOut`, which is not needed: a node that holds a request answers.
- `LaunchCluster`: weak fairness of the script's steps. That the command ends is not
  assumed (a server does not), hence `pc[l] = "serving"` in `FreedInTheEnd`; nor that an ssh
  which hangs comes back, as none is modelled to hang.
- The other modules state no liveness: their scripts run straight through, and each step
  either goes on or ends the run.

## 4. What the runs found

- **A reboot between the Netplan files and `network_started`** (`node_reboot`). The node
  comes up with the new network; restore removes the files and, the flag unset,
  leaves the network as it is until the next reboot.
- **A kill between `groupadd` and saving the ID** (`docker_kill`). The comment at
  `setup_cluster_node.py:285-286` has the group adopted; `check_docker_restore`, which both
  restore and doctor ask first, takes it for a changed group. Such a node refuses `--restore` until
  somebody removes the group by hand, with no file edited, against `docs/NETWORKING.md:322-324`.
  `EventuallyRestored`, of NodeJournal and of SetupCluster, excepts it.
- **A signal during the launch** (`launch_signal`). `cleanup` takes the traps away and
  returns to a script that goes on: it starts the remaining containers and runs the
  command, and nothing stops them at its end.

Seen while modelling, and outside what the runs check:

- *Edits during restore are lost.* All files are checked once, before the first write, but those
  outside Netplan are rewritten only after `netplan apply` and the restoration of addresses
  (`setup_cluster_node.py:795-807`). `docs/NETWORKING.md:320-322` promises that restore never
  overwrites a later edit. `Exposed` excludes this window.
- *A call given up may start later.* The rollback finds no journal on the node,
  counts it as restored and removes the manifest (`setup-cluster.py:636`, `:711`); then `prepare`
  runs. No manifest records its transaction, so `--restore` cannot be used and every later setup is refused
  by the node, as is the rollback of one that had begun. `ManifestCovers` and
  `EventuallyRestored` except just that journal (`Stray`), and no other.
- *A membership given by hand is taken away.* `docs/NETWORKING.md:315-316` has restore remove a
  membership only when the helper added it. `restore_docker` (`setup_cluster_node.py:305-306`) goes by
  `before_member` alone: who was no member when setup began, and was added by hand later, is
  removed. `MembershipBack` excepts that membership (`byhand`).
- *A launcher may stop a cluster it did not start.* `CLUSTER_WAS_RUNNING` is set at the end of the check
  (`launch-cluster.sh:820`), but the traps are there from the start: a signal during the check, or an
  ssh that fails in it, makes `cleanup` (736) stop containers that were running. Two
  launchers that overlap find nothing running; the one that loses the name conflict
  stops the other's containers, which share the name. `RunningSpared` and `ReadyBeforeCommand` except
  launchers so misled (`misled`), and say what is left.
- *Two mods fail after they have written.* Inkling's import check follows the copying of its bundle and
  adapter (`mods/inkling-sm12-paged-kv/run.sh:130-141`), the profiler's baseline its two patches
  (`mods/memory-profile/run.sh:24-26`). `RefusalLeavesTree` says exactly what is left there.
- *A pair selected out of a discovered ring* still saves `CONTAINER_NCCL_ALGO=Ring`
  (`autodiscover.sh:95`), which `docs/NETWORKING.md:1071-1072` has for whole rings.
  `LaunchAccepts` excepts it.
- *A second interruption loses the wheels.* A run after an interrupted download removes what was
  put aside (`build-and-copy.sh:505`) before its own download has passed the check, against the comment at
  530-531; interrupted or failing as well, it leaves none of the previous set. `StillHeld` speaks of what
  the run itself found. No run puts a `.backup-download-*` or `.backup.$$` directory back, and
  `--cleanup` does not remove them.
- *Wheels of two releases* can be mixed when a release is replaced under the same file names while
  it is downloaded; nothing tells them apart. `Publish` excludes it.
- *The first rename of a promotion* is not checked (`build-and-copy.sh:626-631`): if it fails, the new
  directory is moved into the old one and the promotion counts as done. The model's first rename does not fail.
- *`.deepgemm-commit`* of an older local build stays in the profile after a vLLM download, whose
  sweep takes the marks that begin with `.vllm`.

## 5. Proofs

All theorems are about `Spec`, for every value of the constants that satisfies the
named assumptions, and checked by TLAPS to the last leaf.

| Module | Theorems | Assumptions |
|---|---|---|
| `NodeJournalProofs` | `TypeCorrect`, `WriteAheadCorrect`, `UserVersionsSafe`, `BaselineSafe`, `SshSafe`, `NetworkSafe`, `DirectoryGone`, `Refinement` (of `UndoLog`) | `PlanAssumption`; `AfterPrepare` for `DirectoryGone` |
| `DockerGroupProofs` | `TypeCorrect`, `MembershipSafe`, `OwnGroupOnly`, `GroupGiven` | `BoundAssumption` |
| `LaunchClusterProofs` | `TypeCorrect`, `LeavesNothing`, `SparesRunning`, `ReadyFirst` | `LauncherAssumption` |
| `SetupClusterProofs` | `TypeCorrect`, `ChecksAllFirst`, `ManifestKept`, `Undisturbed`, `SetupEndsComplete`, `JournalsCovered` | `ClusterAssumption`; `OwnFiles` for the last three |
| `HfCacheProofs` | `TypeCorrect`, `CoversBeforeDeleting`, `KeepsBackup`, `SparesOthers`, `RestoresEverywhere`, `DeletesEverywhere` | `CacheAssumption` |
| `WheelCacheProofs` | `TypeCorrect`, `MarksCorrect`, `WheelsHeld`, `ImagesWhole`, `FailuresKeep`, `RunsRecover` | `WheelAssumption` |
| `ClusterPlanProofs` | `TypeCorrect`, `LinksWorked`, `PlanRecovered`, `LaunchAccepted`, `DiscoveryAgrees`, `CopiesShort` | `SitesAssumption` |
| `SourcePatchesProofs` | `RefusalSafe`, `TypeCorrect`, `AppliedAgain`, `Mended`, `Installed` | `StartsAssumption`, `BoundsAssumption` |

**NodeJournal.** The invariants are not inductive: nothing in
`UserVersionKept` says that the file a handler is about to overwrite is the one it backed up.
`IInv` adds three facts. `Phases`: which program counters belong to which
handler, and that a handler has a journal. `Guarded`: what a handler is about to
overwrite is backed up, or checked, and has not changed since, which is where `Spec`'s
restriction on edits is used. `Remaining`: a restore has still to go
through every file with the helper's contents, so the journal goes only when none is left. There is one
lemma per action, with one step per conjunct. `BaselineSafe` and `SshSafe`, action
properties, and `Refinement` follow from `IInv` step by step: a step of the node is a
step of `UndoLog` or leaves its variables alone. `NetworkSafe` has an invariant of its own,
`NetworkKnown`: without reboots, the network in effect differs from the user's only with
`network_started` saved. `DirectoryGone` has `DirectoryKnown`: a directory of the helper's
under a journal is named in it. It assumes `AfterPrepare`, the order in which `setup-cluster.py`
sends its requests: a handler that writes into the directory comes after a prepare
that journaled it. NodeJournal alone lets any handler be asked for at any time, and one that
writes there first would make a directory that no journal names.

**DockerGroup.** `IInv` relates the journal's entry to the group: `HandedOut` (IDs on record
were handed out, so a new group is never one of them), `Made` (an entry that says
*created* and names the present group means the helper made it) and `Arranged`, which says
what the entry's word on the membership is worth: as long as there is none, or one of a member, the membership
is as the user left it (`Settled`); under one of no member, all the user can lose is what
was added by hand since.

**LaunchCluster.** `IInv` follows a foreground launcher's containers. `Minded`: as long
as there is one, the launcher still has its traps and a phase in which to use
them, or its cleanup has that node ahead of it. `Flagged`: a launcher that found the
cluster running has no container, so the EXIT trap that spares a running cluster
leaves nothing. `Trapped`: a launcher in its phases has its traps unless it was upset.
`SparesRunning` and `ReadyFirst` rest on `Known`, what each launcher that was not misled knows
whatever the others do. Its flag is down until the check is through (`FlagKnown`); the nodes it
has looked at are empty, or its own once it has started a container there (`Empty`); then all
containers are its own, with their mods where it has passed (`Ready`); and its cleanup meets no one
else's (`Cleaning`). A step of another launcher either only takes containers away (`OnlyLoses`), which
these facts survive, or meets this launcher's nodes and misleads it.

**HfCache.** `IInv` is `TypeOK` and, for each operator, `Known`, five facts on what its run
knows. `Role`: which phases belong to which command. `Covered`: for `--backup --delete`, the
model's files on a node are, once the second inventory has been there, in what it has seen,
and once that is checked, in the backup; or they are in `missed`. `Aimed`: what hf is told to
remove is all there is of the revisions asked for and nothing else, and another repository
has its hash only if that hash is in `newer`. `Cleared`: the nodes the removal has passed hold nothing of the revisions but what was
missed, unless a failure was noted. `Filled`: the nodes the copies have passed hold the
backup, unless a failure was noted or another run removed something. `StillKnown` shows that a step of another operator, or of the world,
that only adds files, hashes and history leaves an operator's facts alone (`Undisturbed`); `OwnStep`
goes through the operator's own actions. Any number of operators runs at once.

**SetupCluster.** `OwnFiles` says that no two heads share a state file. `ManifestKept` and
`ChecksAllFirst` need no more than `Base`: what a head in a phase knows of its calls, its
manifest and the nodes it has checked. `Undisturbed` and `SetupEndsComplete` rest on `Own`: transactions are
numbered and each belongs to one head (`Numbered`, `Distinct`), the manifest of a head
at work names its transaction, and before `confirm` is passed nobody has seen that transaction
(`Recorded`), and until its rollback nobody serves a request to undo its transaction
(`NoUndo`), so a journal it made is there and a phase's change in place once its call was answered
(`Progress`). Calls may start at any later time and machines meet on any nodes in any order.
`JournalsCovered` adds `Cover`: every journal that was not made late is named by a
manifest (`Covered`), a prepare under way that did not start late is named too
(`Preparing`), and the nodes a restore has passed have neither (`Clearing`). That last fact is
why removing the manifest at the end of a restore is safe, but for a call still to start.

**WheelCache.** `IInv` has a fact for every step of a run. `Kept`: the wheels of a profile are of one
set, that of its mark (`Sound`); this is what makes a valid set a whole one, since the
check looks for kinds and pins and not for sets. `Placed`: where the wheels are that the run
found, and the new ones: while files are put aside and put back the two places together hold exactly what
was found, which gives `FailuresKeep` and `WheelsHeld`. `Listing`: as long as the release
answers under the listed names it is the one that was listed and read the commit of, hence
`MarksCorrect`. `Ordered`: vLLM is begun with FlashInfer's set whole, and a run that is not upset
reaches each check with a whole set; `RunsRecover` follows.

**ClusterPlan.** The order of a ring comes from a walk (`Closed`), a recursive function. That its
result, if any, is a ring order of all nodes (`ClosedOrder`) is an induction, in the form the provers
can use: `SetInduction` speaks of the set of numbers for which the claim holds, and is itself proved from
the well-foundedness of inclusion of finite sets. Hence, whatever the topology was known from,
the choice is a ring order or one port of each node (`Chosen`), and every interface that had an address
gets a planned one, since a port that is configured and not used refuses the plan. The address
of an interface determines its network and its node, the network its cable and rail
(`AddressOf`, `SameNet`, `AddressesDiffer`). This is where 244 nodes are the limit: hosts are
numbered from .11. From there: `PlanFacts`, the networks of the addresses give the pings;
`RingRecovered` (with `ClosedAlong`), they give the ring order back, from its first node;
`PortsSaved`, or the ports. The inductive invariant `Planning` says when the interfaces have the
addresses of such a plan; `LinksWorked` needs with it that a verification passes over every pair
whose link is saved. `SitesAssumption` says what `parse_nodes`, the parser of the options
and an IPv4 network allow (2 to 244 different nodes, ports 0 and 1, a pool that begins at a /24), and
that no two interfaces have the same address before the first setup, and an address is a number.

The graphs that are saved need a theory of their own, in the first part of `ClusterPlanProofs`, for any
graph. `Searched` is the invariant of the search that `Paths` makes, taken forward one node at a
time (`SearchedStep`): what has been found, in order of distance, each along a way of links. So
`PathsFacts` (a way to everything that is connected) and, by balls around the head, `PathsShortest`. A graph
is connected if no smaller set around the head is closed under links (`ConnectedCloses`,
`ClosesConnected`); two links a node make the walk of `RankOrder` go on until it has met all nodes
(`WayStep`, `RingWalk`), and no node further than half of them from the head (`HalfWay`). From there:

- `Sound` says that a graph is well formed, and complete or a ring with its nodes in the order of the cables. It is
  what the launcher accepts (`LaunchSound`) and what copies need (`CopiesSound`).
- The links of a plan are sound (`PlanGraphShape`): neighbours in the order meet, others do not
  (`RingMeets`), all do with one port of each (`PortsMeet`).
- What a selection leaves of a discovered ring is sound (`DiscoverSound`). A ring has
  no triangle (`NoTriangle`), so a part of it that has a rank order is the whole or a pair.
- The inductive invariant is `Planning /\ EnvSound`, hence `LaunchAccepted` and `CopiesShort`. `--save-env` comes
  under it by `PlanRecovered`.
- `DiscoveryAgrees` adds `Launchable`, that a ring is only planned where its settings can be
  written. The interfaces that face each other are the pairs the plan pings (`FacingPings`), so
  discovery finds the graph of the plan, with another order of nodes (`Same`).

**SourcePatches.** All theorems rest on one inductive invariant of the series. A script is *sound* on a
tree if it refuses it, writing nothing, or what it writes makes the tree *good* for it: nothing it exists to remove is left,
nothing it adds is missing, and the script itself has nothing more to do. `AllSound` shows it for
each of the 29 scripts on every tree it can read, not only on the known sources and
their neighbours. `Apart` and `Sharing` say which scripts share files, and `StaysGood` that those
that do leave each other's work good. A kill may empty the file that was being written; `KilledGood` says
that the mod which was killed refuses such a file, or finds itself not yet applied, and that the scripts
before it do not depend on it. The inductive invariant `Series` puts this together:
the scripts done so far in this round are good for the tree (`Finished`), or will be once the pending writes are made
(`Waiting`), and what is pending is the rest of an outcome (`Editing`). `RefusalSafe` reads off it
what a failure leaves (`Refused`): a script that refuses writes nothing, being sound, and one that
fails half way has made exactly the writes `Editing` follows, Inkling's bundle and adapter
(`InklingInstalls`) or the profiler's patches. `StartsAssumption` says what the
trees and series are: a text counts occurrences, a file that is absent has none, every script of the series finds
the files it reads and the two made files have their fields (`Shaped`), and a tree that was
profiled before was profiled as a whole.

Every other property of a passing run is one of these theorems. Only model-checked are `EventuallyRestored`
(of NodeJournal and SetupCluster) and `FreedInTheEnd` (of LaunchCluster), as liveness under fairness is out of the prover's reach.

## 6. Assumptions about the world

- A handler's read-only checks at its start are one step: the lock keeps other handlers out,
  and users' edits before and after are modelled.
- `atomic_write` replaces a file in one step and `journal.save` is durable, as `fsync` and
  `rename` provide. A kill before the rename leaves the old file and perhaps a temporary one.
- Netplan does what its files say: the new network, the old one, or a mixture.
- SetupCluster's nodes do not reboot; NodeJournal's do.
- `verify` is one step over all pairs of nodes; it takes no lock.
- `ensure_docker` meets an administrator's changes at any of its steps in DockerGroup; in NodeJournal the
  group changes between handlers.
- A backup that is restored is staged as it is at one instant; it is published by `rename`, and no
  module's action changes a published one.
- An `hf cache rm` that fails, or whose connection does, has removed any part of what it was to remove.
  It passes over a model with dangling links with a warning. What its `rm` takes away, it takes
  at one instant.
- Copies to several hosts are modelled one after the other also with `--copy-parallel`: each writes
  another node, and all read the head.
- Twin interfaces behind a port see the same cable. MTUs do not differ, and a switch is one network.
- A patch script's read of its files is one step with its decision; nobody else edits a tree
  meanwhile. A passage is there or not: passages that overlap are modelled as one.
- Runs of build-and-copy do not overlap on a profile (the script takes no lock on it). A
  release is not replaced under the names a run is downloading, and the first rename of a
  promotion does not fail (section 4). A wheel that is moved or downloaded appears at one instant.

## 7. Not modelled

- *Contents.* Netplan YAML, keys, known hosts and `.env` lines are contents that are
  equal or not. Their composition is text without state.
- *Setups of earlier versions*, whose journal lies under `/var/lib/spark-vllm`: they are finished
  in place, by the same handlers.
- *The doctor coordinator* on the head (`setup-cluster.py:363-472`): its two calls are in
  NodeJournal, the loop around them is planned.
- *SSH and sudo.* They decide whether a call starts.
- *Launcher*: option parsing, `PEER_NODES` trimming, generated mod directories, the rewriting
  of launch scripts, `status`, log following.
- *Hugging Face cache*: listings, option parsing, the choice of hosts, the installation of uvx,
  the inside of the ownership repair, staging on drives without links, and blobs shared between
  revisions.
- *Topology*: MTUs, interfaces other than the four of the two ports, the text of SSH
  configurations. *Autodiscovery*: the probing of clusters of two or three nodes, the
  scan for peers, the questions.
- *Wheel cache*: the other profiles, which are only built or used as they are; the staging of
  a local vLLM checkout; architecture marks; docker's own builds; the identity of
  images and their copies to hosts; series of `git apply` on the sources.
- *Mods* that only run `git apply`, `sed` or `pip`; the `--check` some run at their end, which asks again
  what was just written; what the profiler records once it runs, its
  reports; the vendored kernels, another project's code.
- *Recipe runner*: one process that makes a command line of a YAML file and options, without
  state. *Benchmarks*: clients of a running server.

## 8. Plan

In order of weight:

1. The doctor coordinator over SetupCluster's calls: report, confirmation, repair, with the
   fingerprint of one node gone stale while another is repaired.
2. The copies of an image to the hosts, with the identity that each host's image is compared by,
   composed with LaunchCluster's image check.
3. WheelCache with two runs on one profile, once the script takes a lock to model.
4. The probing of small clusters by `autodiscover.sh`, with ClusterPlan's interfaces.
