--------------------------- MODULE LaunchCluster ---------------------------
(***************************************************************************)
(* launch-cluster.sh: every run of the script is a launcher.  It looks for *)
(* containers of the cluster's name, starts one on each node, head first,  *)
(* applies the mods, copies the launch script, starts Ray, dispatches the  *)
(* command and, in the foreground, stops the containers at the end.        *)
(* Containers die under it, nodes become unreachable and signals arrive.   *)
(***************************************************************************)
EXTENDS Naturals

CONSTANTS
  Launchers,   \* runs of the script, each with its options
  NNodes,      \* nodes of the cluster; node 1 is the head, where the script runs
  Daemons,     \* launchers with -d
  Ray,         \* launchers in Ray mode; the others dispatch on every node
  WithMods,    \* launchers with mods to apply
  NoBox,       \* no container of the cluster's name
  MaxFaults,   \* bound on commands that fail and containers that die
  MaxSignals   \* bound on INT, TERM and HUP

ASSUME LauncherAssumption ==
  /\ NNodes \in Nat \ {0}
  /\ Daemons \subseteq Launchers /\ Ray \subseteq Launchers /\ WithMods \subseteq Launchers
  /\ NoBox \notin Launchers
  /\ MaxFaults \in Nat /\ MaxSignals \in Nat

Nodes == 1..NNodes
Phases == {"idle", "check", "image", "run", "mods", "copy", "ray", "wait", "exec", "serving", "exit", "done"}
Launching == Phases \ {"idle", "serving", "exit", "done"}

VARIABLES
  box,         \* who started the container on each node
  mods,        \* whose mods the container has
  ray,         \* Ray runs in it
  jobs,        \* whose commands were dispatched in it
  pc, at,      \* where each launcher is, and at which node
  stopping,    \* the node its cleanup stops next, 0 outside cleanup
  trapped,     \* its EXIT, INT, TERM and HUP traps run cleanup
  wasRunning,  \* CLUSTER_WAS_RUNNING; during the check, check_cluster_running's own flag
  upset,       \* it was signalled before its command ran, or without its traps, or its
               \* cleanup did not reach a node (history)
  misled,      \* it does not know what runs: it could not ask a node, was signalled before
               \* the check was over, or another one has started a container since (history)
  faults, signals

boxVars == <<box, mods, ray, jobs>>
scriptVars == <<pc, at, stopping, trapped, wasRunning, upset, misled>>
vars == <<boxVars, scriptVars, faults, signals>>

Init ==
  /\ box = [n \in Nodes |-> NoBox]
  /\ mods = [n \in Nodes |-> {}] /\ ray = [n \in Nodes |-> FALSE] /\ jobs = [n \in Nodes |-> {}]
  /\ pc = [l \in Launchers |-> "idle"] /\ at = [l \in Launchers |-> 1]
  /\ stopping = [l \in Launchers |-> 0]
  /\ trapped = [l \in Launchers |-> FALSE]
  /\ wasRunning = [l \in Launchers |-> FALSE]
  /\ upset = [l \in Launchers |-> FALSE] /\ misled = [l \in Launchers |-> FALSE]
  /\ faults = 0 /\ signals = 0

-----------------------------------------------------------------------------
(***************************************************************************)
(* The script works through its phases, node by node.                      *)
(***************************************************************************)
In(l, phase) == pc[l] = phase /\ stopping[l] = 0
Here(l) == box[at[l]]
Active(l) == pc[l] \notin {"idle", "done"} \/ stopping[l] # 0
Fault == faults < MaxFaults /\ faults' = faults + 1
NoFault == UNCHANGED <<faults, signals>>

GoTo(l, phase) ==
  /\ pc' = [pc EXCEPT ![l] = phase]
  /\ at' = [at EXCEPT ![l] = 1]

\* The next node up to the last one, then the next phase.
NextNode(l, last, phase) ==
  IF at[l] < last THEN at' = [at EXCEPT ![l] = @ + 1] /\ UNCHANGED pc ELSE GoTo(l, phase)

\* exit: the EXIT trap decides.
Leave(l) == GoTo(l, "exit") /\ UNCHANGED <<stopping, trapped>>

\* Faulty variant: the step's failure is reported and nothing else.
GiveUpOnly(l) == GoTo(l, "done") /\ UNCHANGED stopping /\ trapped' = [trapped EXCEPT ![l] = FALSE]

\* { cleanup; return 1; }, in the foreground and as a daemon.
CleanUp(l) ==
  /\ GoTo(l, "done")
  /\ stopping' = [stopping EXCEPT ![l] = 1]
  /\ trapped' = [trapped EXCEPT ![l] = FALSE]

Stay(l) == UNCHANGED <<stopping, trapped, wasRunning, upset, misled>>

Start(l) ==
  /\ In(l, "idle")
  /\ GoTo(l, "check")
  /\ trapped' = [trapped EXCEPT ![l] = l \notin Daemons]
  /\ UNCHANGED <<boxVars, stopping, wasRunning, upset, misled, faults, signals>>

\* A node that cannot be asked counts as one without a container.
CheckNode(l, seen) ==
  /\ In(l, "check")
  /\ wasRunning' = [wasRunning EXCEPT ![l] = @ \/ seen]
  /\ NextNode(l, NNodes, IF wasRunning'[l] THEN "exec" ELSE "image")
  /\ UNCHANGED <<boxVars, stopping, trapped>>

\* Faulty variant: only the head is looked at.
CheckHeadOnly(l) ==
  /\ In(l, "check")
  /\ wasRunning' = [wasRunning EXCEPT ![l] = box[1] # NoBox]
  /\ GoTo(l, IF wasRunning'[l] THEN "exec" ELSE "image")
  /\ UNCHANGED <<boxVars, stopping, trapped, upset, misled, faults, signals>>

CheckClusterRunning(l) == CheckNode(l, Here(l) # NoBox) /\ NoFault /\ UNCHANGED <<upset, misled>>

CheckMisses(l) ==
  /\ CheckNode(l, FALSE)
  /\ at[l] # 1
  /\ Fault /\ UNCHANGED signals
  /\ misled' = [misled EXCEPT ![l] = TRUE]
  /\ UNCHANGED upset

\* Runtime PRs cannot be applied to what runs already.
PrsRefused(l) ==
  /\ In(l, "exec")
  /\ wasRunning[l] /\ at[l] = 1
  /\ Leave(l)
  /\ NoFault /\ UNCHANGED <<boxVars, wasRunning, upset, misled>>

ImagesMatch(l) ==
  /\ In(l, "image")
  /\ GoTo(l, "run")
  /\ Stay(l) /\ NoFault /\ UNCHANGED boxVars

\* An image differs, or a runtime PR cannot be fetched.
ImagesDiffer(l) ==
  /\ In(l, "image")
  /\ Leave(l)
  /\ Fault
  /\ UNCHANGED <<boxVars, wasRunning, upset, misled, signals>>

DockerRun(l) ==
  /\ In(l, "run")
  /\ Here(l) = NoBox
  /\ box' = [box EXCEPT ![at[l]] = l]
  /\ misled' = [k \in Launchers |-> misled[k] \/ (k # l /\ Active(k))]
  /\ UNCHANGED <<mods, ray, jobs>>

RunBox(l) ==
  /\ DockerRun(l)
  /\ NextNode(l, NNodes, "mods")
  /\ NoFault /\ UNCHANGED <<stopping, trapped, wasRunning, upset>>

\* The container starts, earlyoom inside does not.
EarlyoomFails(l) ==
  /\ DockerRun(l)
  /\ CleanUp(l)
  /\ Fault /\ UNCHANGED <<wasRunning, upset, signals>>

\* docker run fails, at once if the name is in use.
RunFails(l) ==
  /\ In(l, "run")
  /\ IF Here(l) = NoBox THEN Fault ELSE UNCHANGED faults
  /\ CleanUp(l)
  /\ UNCHANGED <<boxVars, wasRunning, upset, misled, signals>>

\* Faulty variant: the mods go to the head only.
ApplyModsToHead(l) ==
  /\ In(l, "mods")
  /\ l \notin WithMods \/ Here(l) # NoBox
  /\ mods' = IF l \in WithMods THEN [mods EXCEPT ![1] = @ \cup {l}] ELSE mods
  /\ GoTo(l, "copy")
  /\ Stay(l) /\ NoFault /\ UNCHANGED <<box, ray, jobs>>

ApplyMods(l) ==
  /\ In(l, "mods")
  /\ l \notin WithMods \/ Here(l) # NoBox
  /\ mods' = IF l \in WithMods THEN [mods EXCEPT ![at[l]] = @ \cup {l}] ELSE mods
  /\ NextNode(l, NNodes, "copy")
  /\ Stay(l) /\ NoFault /\ UNCHANGED <<box, ray, jobs>>

ModsFail(l) ==
  /\ In(l, "mods") /\ l \in WithMods
  /\ IF Here(l) # NoBox THEN Fault ELSE UNCHANGED faults
  /\ CleanUp(l)
  /\ UNCHANGED <<boxVars, wasRunning, upset, misled, signals>>

\* The launch script, if there is one, goes to every node or, under Ray, to the head.
CopyScript(l) ==
  /\ In(l, "copy")
  /\ NextNode(l, IF l \in Ray THEN 1 ELSE NNodes, IF l \in Ray THEN "ray" ELSE "exec")
  /\ Stay(l) /\ NoFault /\ UNCHANGED boxVars

CopyFails(l) ==
  /\ In(l, "copy")
  /\ IF Here(l) # NoBox THEN Fault ELSE UNCHANGED faults
  /\ Leave(l)
  /\ UNCHANGED <<boxVars, wasRunning, upset, misled, signals>>

\* Nobody looks at whether Ray's start worked on a node ...
StartRay(l) ==
  /\ In(l, "ray")
  /\ ray' = [ray EXCEPT ![at[l]] = Here(l) # NoBox]
  /\ NextNode(l, NNodes, "wait")
  /\ Stay(l) /\ NoFault /\ UNCHANGED <<box, mods, jobs>>

\* ... but the head's status is asked for until it answers or time is up.
WaitForCluster(l) ==
  /\ In(l, "wait")
  /\ ray[1]
  /\ GoTo(l, "exec")
  /\ Stay(l) /\ NoFault /\ UNCHANGED boxVars

WaitTimesOut(l) ==
  /\ In(l, "wait")
  /\ IF ray[1] THEN Fault ELSE UNCHANGED faults
  /\ Leave(l)
  /\ UNCHANGED <<boxVars, wasRunning, upset, misled, signals>>

\* Without Ray the workers' commands are dispatched first, unseen.
ExecOnWorker(l) ==
  /\ In(l, "exec")
  /\ l \notin Ray /\ at[l] < NNodes
  /\ jobs' = IF box[at[l] + 1] = NoBox THEN jobs ELSE [jobs EXCEPT ![at[l] + 1] = @ \cup {l}]
  /\ at' = [at EXCEPT ![l] = @ + 1]
  /\ Stay(l) /\ NoFault /\ UNCHANGED <<pc, box, mods, ray>>

ExecOnHead(l) ==
  /\ In(l, "exec")
  /\ l \in Ray \/ at[l] = NNodes
  /\ jobs' = IF box[1] = NoBox THEN jobs ELSE [jobs EXCEPT ![1] = @ \cup {l}]
  /\ GoTo(l, IF box[1] = NoBox \/ l \in Daemons THEN "exit" ELSE "serving")
  /\ Stay(l) /\ NoFault /\ UNCHANGED <<box, mods, ray>>

\* The command comes back, on its own or because its container is gone.
CommandEnds(l) ==
  /\ In(l, "serving")
  /\ GoTo(l, "exit")
  /\ jobs' = [jobs EXCEPT ![1] = @ \ {l}]
  /\ Stay(l) /\ NoFault /\ UNCHANGED <<box, mods, ray>>

-----------------------------------------------------------------------------
(***************************************************************************)
(* cleanup, at exit or in a signal's trap.                                 *)
(***************************************************************************)
\* Faulty variant: the EXIT trap is not told that the cluster was there before.
ExitAlways(l) ==
  /\ In(l, "exit")
  /\ GoTo(l, "done")
  /\ stopping' = [stopping EXCEPT ![l] = IF trapped[l] THEN 1 ELSE 0]
  /\ trapped' = [trapped EXCEPT ![l] = FALSE]
  /\ UNCHANGED <<boxVars, wasRunning, upset, misled, faults, signals>>

Exit(l) ==
  /\ In(l, "exit")
  /\ GoTo(l, "done")
  /\ stopping' = [stopping EXCEPT ![l] = IF trapped[l] /\ ~wasRunning[l] THEN 1 ELSE 0]
  /\ trapped' = [trapped EXCEPT ![l] = FALSE]
  /\ UNCHANGED <<boxVars, wasRunning, upset, misled, faults, signals>>

BoxGone(n) ==
  /\ box' = [box EXCEPT ![n] = NoBox]
  /\ mods' = [mods EXCEPT ![n] = {}]
  /\ ray' = [ray EXCEPT ![n] = FALSE]
  /\ jobs' = [jobs EXCEPT ![n] = {}]

AfterStop(l) ==
  /\ stopping[l] # 0
  /\ stopping' = [stopping EXCEPT ![l] = IF @ = NNodes THEN 0 ELSE @ + 1]
  /\ UNCHANGED <<pc, at, trapped, wasRunning>>

\* Faulty variant: cleanup ends with the head.
StopHeadOnly(l) ==
  /\ stopping[l] # 0
  /\ stopping' = [stopping EXCEPT ![l] = 0]
  /\ BoxGone(1)
  /\ UNCHANGED <<pc, at, trapped, wasRunning, upset, misled, faults, signals>>

StopBox(l) ==
  /\ AfterStop(l)
  /\ BoxGone(stopping[l])
  /\ NoFault /\ UNCHANGED <<upset, misled>>

\* ... || true.
StopMisses(l) ==
  /\ AfterStop(l)
  /\ Fault
  /\ upset' = [upset EXCEPT ![l] = TRUE]
  /\ UNCHANGED <<boxVars, misled, signals>>

\* The trap runs cleanup and the script goes on where it was; with the traps gone the
\* next signal ends it.  A daemon's trap changes nothing here.
Signal(l) ==
  /\ signals < MaxSignals /\ signals' = signals + 1
  /\ Active(l) /\ l \notin Daemons
  /\ misled' = [misled EXCEPT ![l] = @ \/ pc[l] = "check"]
  /\ IF trapped[l]
     THEN /\ stopping' = [stopping EXCEPT ![l] = IF wasRunning[l] /\ pc[l] # "check" THEN 0 ELSE 1]
          /\ trapped' = [trapped EXCEPT ![l] = FALSE]
          /\ upset' = [upset EXCEPT ![l] = @ \/ pc[l] \in Launching]
          /\ UNCHANGED <<pc, at>>
     ELSE /\ GoTo(l, "done")
          /\ stopping' = [stopping EXCEPT ![l] = 0]
          /\ upset' = [upset EXCEPT ![l] = TRUE]
          /\ UNCHANGED trapped
  /\ UNCHANGED <<boxVars, wasRunning, faults>>

\* A container dies with its node or its keepalive, or is stopped by hand.
BoxDies(n) ==
  /\ box[n] # NoBox
  /\ Fault
  /\ BoxGone(n)
  /\ UNCHANGED <<scriptVars, signals>>

-----------------------------------------------------------------------------
Step(l) ==
  \/ CheckClusterRunning(l) \/ CheckMisses(l) \/ PrsRefused(l)
  \/ ImagesMatch(l) \/ ImagesDiffer(l)
  \/ RunBox(l) \/ EarlyoomFails(l) \/ RunFails(l)
  \/ ApplyMods(l) \/ ModsFail(l)
  \/ CopyScript(l) \/ CopyFails(l)
  \/ StartRay(l) \/ WaitForCluster(l) \/ WaitTimesOut(l)
  \/ ExecOnWorker(l) \/ ExecOnHead(l)
  \/ Exit(l) \/ StopBox(l) \/ StopMisses(l)

Next ==
  \/ \E l \in Launchers : Start(l) \/ Step(l) \/ CommandEnds(l) \/ Signal(l)
  \/ \E n \in Nodes : BoxDies(n)

Spec == Init /\ [][Next]_vars

\* A script that runs goes on; that its command ever ends is not assumed.
FairSpec == Spec /\ \A l \in Launchers : WF_vars(Step(l))

-----------------------------------------------------------------------------
(***************************************************************************)
(* Properties.                                                             *)
(***************************************************************************)
\* Every variable has its type; what a container holds goes with it.
TypeOK ==
  /\ box \in [Nodes -> Launchers \cup {NoBox}]
  /\ mods \in [Nodes -> SUBSET Launchers] /\ jobs \in [Nodes -> SUBSET Launchers]
  /\ ray \in [Nodes -> BOOLEAN]
  /\ \A n \in Nodes : box[n] = NoBox => mods[n] = {} /\ jobs[n] = {} /\ ~ray[n]
  /\ pc \in [Launchers -> Phases] /\ at \in [Launchers -> Nodes]
  /\ stopping \in [Launchers -> 0..NNodes]
  /\ trapped \in [Launchers -> BOOLEAN] /\ wasRunning \in [Launchers -> BOOLEAN]
  /\ upset \in [Launchers -> BOOLEAN] /\ misled \in [Launchers -> BOOLEAN]
  /\ faults \in 0..MaxFaults /\ signals \in 0..MaxSignals

Over(l) == pc[l] = "done" /\ stopping[l] = 0
Foreground == Launchers \ Daemons

\* A foreground launcher that ended left no container of its own, wherever it failed,
\* unless it was signalled before its command ran or again while it cleaned up, or its
\* cleanup did not reach a node.
NothingLeft == \A l \in Foreground : Over(l) /\ ~upset[l] => \A n \in Nodes : box[n] # l

\* What the comment on the traps promises: a foreground launcher that could reach every
\* node leaves no container, signalled or not.
NothingLeftBySignal == faults = 0 => \A l \in Foreground : Over(l) => \A n \in Nodes : box[n] # l

\* A launcher stops no container that another one started, unless it could not ask a
\* node, was signalled while it asked (its flag is only set after the last answer), or
\* the other one started a container while it ran.
RunningSpared ==
  [][\A l \in Launchers, n \in Nodes :
       stopping[l] = n /\ ~misled[l] /\ box[n] \notin {l, NoBox} => box'[n] = box[n]]_vars

\* A launcher that found nothing running dispatches its command on the head only while
\* every container there is is its own and has all its mods, though some may have died;
\* with the same exceptions.
ReadyBeforeCommand ==
  [][\A l \in Launchers : l \in jobs'[1] \ jobs[1] /\ ~wasRunning[l] /\ ~misled[l]
       => \A n \in Nodes : box[n] \in {l, NoBox} /\ (box[n] = l /\ l \in WithMods => l \in mods[n])]_vars

\* A foreground launcher's containers are stopped in the end, unless its command runs on
\* or it was upset as above.
FreedInTheEnd ==
  \A l \in Foreground, n \in Nodes : box[n] = l ~> box[n] # l \/ pc[l] = "serving" \/ upset[l]
=============================================================================
