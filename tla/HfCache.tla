------------------------------- MODULE HfCache -------------------------------
(***************************************************************************)
(* hf-download.sh and its helper hf-cache.py for one model: download,      *)
(* restore, backup, delete (also right after a backup) and cleanup, on the *)
(* head and, with -c, on its hosts.  Several operators run the script, one *)
(* after the other or at once, on caches that vLLM and hf fill meanwhile.  *)
(***************************************************************************)
EXTENDS Naturals

CONSTANTS
  NNodes,       \* node 1 is the head, where the script runs
  Operators,    \* terminals the script is run from
  Items,        \* files of the model's revisions, told apart by revision, name and size
  Revs,         \* its revisions
  RevOf,        \* the revision each file belongs to
  All,          \* no --revision given
  Commands,     \* the actions each operator may ask for
  MaxRuns,      \* bound on runs of the script
  MaxFaults,    \* bound on steps that fail and on runs killed
  MaxArrivals   \* bound on what comes into the caches from elsewhere

Nodes == 1..NNodes
Actions == {"download", "restore", "backup", "backupdelete", "delete", "cleanup"}

ASSUME CacheAssumption ==
  /\ NNodes \in Nat \ {0}
  /\ RevOf \in [Items -> Revs]
  /\ All \notin Revs
  /\ Commands \in [Operators -> SUBSET Actions]
  /\ MaxRuns \in Nat /\ MaxFaults \in Nat /\ MaxArrivals \in Nat

VARIABLES
  cache,    \* the model's files in each node's Hub cache
  dangling, \* files of which only the link is there, so that no tree or inventory passes
  others,   \* revisions whose hash another repository of the node's cache also has in use
  backup,   \* the files of the published backup, none if there is no backup
  act, rev, \* what each operator's run is to do, and with which revision
  pc, at,   \* where it is, and at which node
  staged,   \* what it has still to put in place, or to publish
  seen,     \* what its inventory lists of the revisions it is about
  shared,   \* its inventory lists another repository with the revision's hash
  doomed,   \* the revisions it is about to remove from the node
  failed,   \* a step failed that does not end it
  missed,   \* files a node holds unknown to the run: they came after its last look there,
            \* or hf passed over the model for its dangling links (history)
  newer,    \* hashes other repositories of the node came to use since hf's look (history)
  crossed,  \* another run removed something meanwhile (history)
  count     \* runs, faults and arrivals so far

caches == <<cache, dangling, others, backup>>
request == <<act, rev>>
place == <<pc, at>>
work == <<staged, seen, shared, doomed, failed>>
history == <<missed, newer, crossed>>
vars == <<caches, request, place, work, history, count>>

RevsOf(S) == {RevOf[i] : i \in S}
FilesOf(R) == {i \in Items : RevOf[i] \in R}
Target(o) == IF rev[o] = All THEN Items ELSE FilesOf({rev[o]})

Init ==
  /\ cache \in [Nodes -> SUBSET Items]
  /\ dangling = [n \in Nodes |-> {}]
  /\ others = [n \in Nodes |-> {}]
  /\ backup \in SUBSET Items
  /\ act = [o \in Operators |-> "none"] /\ rev = [o \in Operators |-> All]
  /\ pc = [o \in Operators |-> "idle"] /\ at = [o \in Operators |-> 1]
  /\ staged = [o \in Operators |-> {}] /\ seen = [o \in Operators |-> {}]
  /\ shared = [o \in Operators |-> FALSE]
  /\ doomed = [o \in Operators |-> {}]
  /\ failed = [o \in Operators |-> FALSE]
  /\ missed = [o \in Operators |-> [n \in Nodes |-> {}]]
  /\ newer = [o \in Operators |-> {}]
  /\ crossed = [o \in Operators |-> FALSE]
  /\ count = [k \in {"run", "fault", "arrival"} |-> 0]

-----------------------------------------------------------------------------
(***************************************************************************)
(* Runs, and what they know of each other's effects.                       *)
(***************************************************************************)
Tick(kind, bound) ==
  /\ count[kind] < bound
  /\ count' = [count EXCEPT ![kind] = @ + 1]

GoTo(o, phase, n) ==
  /\ pc' = [pc EXCEPT ![o] = phase]
  /\ at' = [at EXCEPT ![o] = n]

\* What a run knows goes with it.
Forget(o) ==
  /\ staged' = [staged EXCEPT ![o] = {}] /\ seen' = [seen EXCEPT ![o] = {}]
  /\ shared' = [shared EXCEPT ![o] = FALSE] /\ doomed' = [doomed EXCEPT ![o] = {}]
  /\ failed' = [failed EXCEPT ![o] = FALSE]

End(o) == GoTo(o, "over", 1) /\ Forget(o)

\* The next node, or the end: one failure anywhere makes the run fail.
NextNode(o, phase, fails) ==
  /\ failed' = [failed EXCEPT ![o] = @ \/ fails]
  /\ IF at[o] = NNodes THEN GoTo(o, IF failed'[o] THEN "over" ELSE "ok", 1)
     ELSE GoTo(o, phase, at[o] + 1)
  /\ staged' = [staged EXCEPT ![o] = {}] /\ doomed' = [doomed EXCEPT ![o] = {}]
  /\ UNCHANGED <<seen, shared>>

\* The run has looked at the node for the last time before it deletes.
Settled(o, n) ==
  \/ pc[o] = "relook" /\ at[o] > n
  \/ pc[o] \in {"recheck", "rmlook", "rm", "ok"}

\* Files come to a node.
Gain(n, S) ==
  /\ cache' = [cache EXCEPT ![n] = @ \cup S]
  /\ missed' = [o \in Operators |->
       IF Settled(o, n) THEN [missed[o] EXCEPT ![n] = @ \cup (S \ cache[n])] ELSE missed[o]]

\* A run takes files from a node.
Lose(o, n, S) ==
  /\ cache' = [cache EXCEPT ![n] = @ \ S]
  /\ crossed' = [p \in Operators |-> crossed[p] \/ p # o]
  /\ UNCHANGED <<missed, newer>>

Start(o, a, r) ==
  /\ pc[o] = "idle"
  /\ Tick("run", MaxRuns)
  /\ r # All => a \in {"backup", "backupdelete", "delete"}
  /\ act' = [act EXCEPT ![o] = a] /\ rev' = [rev EXCEPT ![o] = r]
  /\ GoTo(o, CASE a = "download" -> "fetch" [] a = "restore" -> "open"
               [] a \in {"backup", "backupdelete"} -> "stage" [] OTHER -> "look", 1)
  /\ UNCHANGED <<caches, work, history>>

\* A step fails, or the run is killed.  The staging directory goes with it.
Stops(o) ==
  /\ pc[o] \notin {"idle", "ok", "over"}
  /\ Tick("fault", MaxFaults)
  /\ End(o)
  /\ UNCHANGED <<caches, request, history>>

\* The script has exited.
Exit(o) ==
  /\ pc[o] \in {"ok", "over"}
  /\ GoTo(o, "idle", 1)
  /\ act' = [act EXCEPT ![o] = "none"] /\ rev' = [rev EXCEPT ![o] = All]
  /\ Forget(o)
  /\ missed' = [missed EXCEPT ![o] = [n \in Nodes |-> {}]]
  /\ newer' = [newer EXCEPT ![o] = {}]
  /\ crossed' = [crossed EXCEPT ![o] = FALSE]
  /\ UNCHANGED <<caches, count>>

-----------------------------------------------------------------------------
(***************************************************************************)
(* backup: copy to a hidden directory, then publish it by one rename.      *)
(***************************************************************************)
Stageable(o) == dangling[1] = {} /\ cache[1] \cap Target(o) # {} /\ backup = {}

StageBackup(o) ==
  /\ pc[o] = "stage" /\ Stageable(o)
  /\ staged' = [staged EXCEPT ![o] = cache[1] \cap Target(o)]
  /\ GoTo(o, "publish", 1)
  /\ UNCHANGED <<caches, request, seen, shared, doomed, failed, history, count>>

BackupRefused(o) ==
  /\ pc[o] = "stage" /\ ~Stageable(o)
  /\ End(o)
  /\ UNCHANGED <<caches, request, history, count>>

\* Faulty variant: a backup that was published meanwhile is replaced.
PublishOver(o) ==
  /\ pc[o] = "publish"
  /\ backup' = staged[o]
  /\ GoTo(o, IF act[o] = "backup" THEN "ok" ELSE "look", 1)
  /\ staged' = [staged EXCEPT ![o] = {}]
  /\ UNCHANGED <<cache, dangling, others, request, seen, shared, doomed, failed, history, count>>

\* rename does not replace a directory with something in it.
Publish(o) ==
  /\ pc[o] = "publish"
  /\ backup = {}
  /\ backup' = staged[o]
  /\ GoTo(o, IF act[o] = "backup" THEN "ok" ELSE "look", 1)
  /\ staged' = [staged EXCEPT ![o] = {}]
  /\ UNCHANGED <<cache, dangling, others, request, seen, shared, doomed, failed, history, count>>

PublishRefused(o) ==
  /\ pc[o] = "publish"
  /\ backup # {}
  /\ End(o)
  /\ UNCHANGED <<caches, request, history, count>>

-----------------------------------------------------------------------------
(***************************************************************************)
(* delete: an inventory of every node, the checks, the operator's answer   *)
(* and the repair of ownership; with a backup or a revision all of it      *)
(* again; then node by node, whatever fails on one of them.                *)
(***************************************************************************)
\* A node that cannot be inventoried ends the run, and so does a model with dangling
\* links; cleanup asks for no model in particular.
Look(o) ==
  LET n == at[o]  mine == cache[n] \cap Target(o) IN
  /\ pc[o] \in {"look", "relook"}
  /\ dangling[n] = {} \/ act[o] = "cleanup"
  /\ seen' = [seen EXCEPT ![o] = @ \cup mine]
  /\ shared' = [shared EXCEPT ![o] = @ \/ rev[o] \in RevsOf(mine) \cap others[n]]
  /\ IF n < NNodes THEN GoTo(o, pc[o], n + 1)
     ELSE GoTo(o, IF pc[o] = "look" THEN "check" ELSE "recheck", 1)
  /\ UNCHANGED <<caches, request, staged, doomed, failed, history, count>>

LookRefused(o) ==
  /\ pc[o] \in {"look", "relook"}
  /\ dangling[at[o]] # {} /\ act[o] # "cleanup"
  /\ End(o)
  /\ UNCHANGED <<caches, request, history, count>>

\* covered, resolve-revision and check-revision.
MayDelete(o) ==
  /\ act[o] = "backupdelete" => seen[o] \subseteq backup
  /\ act[o] = "delete" /\ rev[o] # All /\ pc[o] = "check" => seen[o] # {}
  /\ ~shared[o]

CheckPasses(o) ==
  /\ pc[o] = "check" /\ MayDelete(o)
  /\ GoTo(o, "confirm", 1)
  /\ UNCHANGED <<caches, request, work, history, count>>

CheckFails(o) ==
  /\ pc[o] \in {"check", "recheck"} /\ ~MayDelete(o)
  /\ End(o)
  /\ UNCHANGED <<caches, request, history, count>>

\* Faulty variant: what was seen before the operator answered will do.
ConfirmOnce(o) ==
  /\ pc[o] = "confirm"
  /\ GoTo(o, "rmlook", 1)
  /\ UNCHANGED <<caches, request, work, history, count>>

Confirm(o) ==
  /\ pc[o] = "confirm"
  /\ IF act[o] = "backupdelete" \/ rev[o] # All
     THEN GoTo(o, "relook", 1)
     ELSE GoTo(o, "rmlook", 1)
  /\ seen' = [seen EXCEPT ![o] = {}] /\ shared' = [shared EXCEPT ![o] = FALSE]
  /\ UNCHANGED <<caches, request, staged, doomed, failed, history, count>>

\* Nothing is deleted, and the script says so and exits with 0.
Decline(o) ==
  /\ pc[o] = "confirm"
  /\ End(o)
  /\ UNCHANGED <<caches, request, history, count>>

RecheckPasses(o) ==
  /\ pc[o] = "recheck" /\ MayDelete(o)
  /\ GoTo(o, "rmlook", 1)
  /\ seen' = [seen EXCEPT ![o] = {}]
  /\ UNCHANGED <<caches, request, staged, shared, doomed, failed, history, count>>

\* The revisions hf is told to remove from a node.  Which ones are unreferenced is left
\* open.  hf passes over a model with dangling links with only a warning.
Doomed(o) ==
  LET n == at[o]  here == RevsOf(cache[n]) IN
  IF dangling[n] # {} THEN {{}}
  ELSE IF act[o] = "cleanup" THEN SUBSET (here \ others[n])
  ELSE IF rev[o] = All THEN {Revs} ELSE {here \cap {rev[o]}}

\* Faulty variant: the node trusts what the head saw.
RemovalTrusted(o) == FALSE

\* The node's own check of one revision: its tree, and who else has the hash.
RemovalRefused(o) ==
  /\ rev[o] # All
  /\ dangling[at[o]] # {} \/ rev[o] \in RevsOf(cache[at[o]]) \cap others[at[o]]

PickRemoval(o) ==
  /\ pc[o] = "rmlook" /\ ~RemovalRefused(o)
  /\ \E R \in Doomed(o) \ {{}} :
       /\ doomed' = [doomed EXCEPT ![o] = R]
       /\ pc' = [pc EXCEPT ![o] = "rm"]
  /\ newer' = [newer EXCEPT ![o] = {}]
  /\ UNCHANGED <<caches, request, at, staged, seen, shared, failed, missed, crossed, count>>

NothingToRemove(o) ==
  /\ pc[o] = "rmlook" /\ ~RemovalRefused(o)
  /\ {} \in Doomed(o)
  /\ missed' = IF dangling[at[o]] = {} THEN missed
               ELSE [missed EXCEPT ![o][at[o]] = @ \cup cache[at[o]]]
  /\ NextNode(o, "rmlook", FALSE)
  /\ UNCHANGED <<caches, request, newer, crossed, count>>

RefuseRemoval(o) ==
  /\ pc[o] = "rmlook" /\ RemovalRefused(o)
  /\ NextNode(o, "rmlook", TRUE)
  /\ UNCHANGED <<caches, request, history, count>>

\* A hash names the revision in every repository; the model only itself.
Remove(o) ==
  LET n == at[o] IN
  /\ pc[o] = "rm"
  /\ Lose(o, n, FilesOf(doomed[o]))
  /\ dangling' = [dangling EXCEPT ![n] = @ \ FilesOf(doomed[o])]
  /\ others' = IF act[o] # "cleanup" /\ rev[o] = All THEN others
               ELSE [others EXCEPT ![n] = @ \ doomed[o]]
  /\ NextNode(o, "rmlook", FALSE)
  /\ UNCHANGED <<backup, request, count>>

\* Faulty variant: || true.
RemoveFailsUnseen(o) ==
  LET n == at[o] IN
  /\ pc[o] = "rm"
  /\ Tick("fault", MaxFaults)
  /\ \E S \in SUBSET FilesOf(doomed[o]) : Lose(o, n, S)
  /\ NextNode(o, "rmlook", FALSE)
  /\ UNCHANGED <<dangling, others, backup, request>>

\* hf stops half way, or the connection does; the other nodes have their turn.
RemoveFails(o) ==
  LET n == at[o] IN
  /\ pc[o] = "rm"
  /\ Tick("fault", MaxFaults)
  /\ \E S \in SUBSET FilesOf(doomed[o]) : Lose(o, n, S)
  /\ NextNode(o, "rmlook", TRUE)
  /\ UNCHANGED <<dangling, others, backup, request>>

-----------------------------------------------------------------------------
(***************************************************************************)
(* download and restore put files on the head; then the head's cache of    *)
(* the model is copied to every host.                                      *)
(***************************************************************************)
Fetch(o) ==
  /\ pc[o] = "fetch"
  /\ \E r \in Revs : staged' = [staged EXCEPT ![o] = FilesOf({r})]
  /\ GoTo(o, "fill", 1)
  /\ UNCHANGED <<caches, request, seen, shared, doomed, failed, history, count>>

\* The backup must be there, and what is on the head already must be whole.
OpenBackup(o) ==
  /\ pc[o] = "open"
  /\ backup # {} /\ dangling[1] = {}
  /\ staged' = [staged EXCEPT ![o] = backup]
  /\ GoTo(o, "fill", 1)
  /\ UNCHANGED <<caches, request, seen, shared, doomed, failed, history, count>>

RestoreRefused(o) ==
  /\ pc[o] = "open"
  /\ backup = {} \/ dangling[1] # {}
  /\ End(o)
  /\ UNCHANGED <<caches, request, history, count>>

Send(o) ==
  /\ pc[o] = "send"
  /\ cache[1] \cup dangling[1] # {}
  /\ staged' = [staged EXCEPT ![o] = cache[1]]
  /\ GoTo(o, "fill", at[o])
  /\ UNCHANGED <<caches, request, seen, shared, doomed, failed, history, count>>

NothingToSend(o) ==
  /\ pc[o] = "send"
  /\ cache[1] \cup dangling[1] = {}
  /\ End(o)
  /\ UNCHANGED <<caches, request, history, count>>

\* Files arrive one by one, links before what they point to; only a restore to a head
\* without the model is one rename.
FillSome(o) ==
  LET n == at[o] IN
  /\ pc[o] = "fill"
  /\ ~(act[o] = "restore" /\ n = 1 /\ cache[1] \cup dangling[1] = {})
  /\ \E i \in staged[o] :
       /\ Gain(n, {i})
       /\ staged' = [staged EXCEPT ![o] = @ \ {i}]
       /\ \E links \in {{}, staged[o] \ cache[n]} :
            dangling' = [dangling EXCEPT ![n] = (@ \cup links) \ {i}]
  /\ UNCHANGED <<others, backup, request, place, seen, shared, doomed, failed, newer, crossed, count>>

\* A restore looks once more whether the head's model is whole.
FillRest(o) ==
  LET n == at[o] IN
  /\ pc[o] = "fill"
  /\ Gain(n, staged[o])
  /\ dangling' = [dangling EXCEPT ![n] = (@ \cup (dangling[1] \ cache[n])) \ staged[o]]
  /\ IF act[o] = "restore" /\ n = 1 /\ dangling'[1] # {} THEN End(o)
     ELSE NextNode(o, "send", FALSE)
  /\ UNCHANGED <<others, backup, request, newer, crossed, count>>

\* Faulty variant: nobody waits for the copy's exit status.
CopyFailsUnseen(o) ==
  /\ pc[o] = "fill" /\ at[o] # 1
  /\ Tick("fault", MaxFaults)
  /\ NextNode(o, "send", FALSE)
  /\ UNCHANGED <<caches, request, history>>

\* With --copy-parallel the other hosts are still served; without, the run stops.
CopyFails(o) ==
  /\ pc[o] = "fill" /\ at[o] # 1
  /\ Tick("fault", MaxFaults)
  /\ NextNode(o, "send", TRUE)
  /\ UNCHANGED <<caches, request, history>>

-----------------------------------------------------------------------------
(***************************************************************************)
(* What else fills the caches.                                             *)
(***************************************************************************)
Arrive(n, i) ==
  /\ i \notin cache[n]
  /\ Tick("arrival", MaxArrivals)
  /\ Gain(n, {i})
  /\ dangling' = [dangling EXCEPT ![n] = @ \ {i}]
  /\ UNCHANGED <<others, backup, request, place, work, newer, crossed>>

\* Another repository comes to have the hash.
OtherArrives(n, r) ==
  /\ r \notin others[n]
  /\ Tick("arrival", MaxArrivals)
  /\ others' = [others EXCEPT ![n] = @ \cup {r}]
  /\ newer' = [o \in Operators |->
       IF pc[o] = "rm" /\ at[o] = n THEN newer[o] \cup {r} ELSE newer[o]]
  /\ UNCHANGED <<cache, dangling, backup, request, place, work, missed, crossed>>

-----------------------------------------------------------------------------
Step(o) ==
  \/ StageBackup(o) \/ BackupRefused(o) \/ Publish(o) \/ PublishRefused(o)
  \/ Look(o) \/ LookRefused(o) \/ CheckPasses(o) \/ CheckFails(o)
  \/ Confirm(o) \/ Decline(o) \/ RecheckPasses(o)
  \/ PickRemoval(o) \/ NothingToRemove(o) \/ RefuseRemoval(o) \/ Remove(o) \/ RemoveFails(o)
  \/ Fetch(o) \/ OpenBackup(o) \/ RestoreRefused(o) \/ Send(o) \/ NothingToSend(o)
  \/ FillSome(o) \/ FillRest(o) \/ CopyFails(o)
  \/ Stops(o) \/ Exit(o)

Next ==
  \/ \E o \in Operators : \E a \in Commands[o], r \in Revs \cup {All} : Start(o, a, r)
  \/ \E o \in Operators : Step(o)
  \/ \E n \in Nodes, i \in Items : Arrive(n, i)
  \/ \E n \in Nodes, r \in Revs : OtherArrives(n, r)

Spec == Init /\ [][Next]_vars

-----------------------------------------------------------------------------
(***************************************************************************)
(* Properties.                                                             *)
(***************************************************************************)
Phases == {"idle", "stage", "publish", "look", "check", "confirm", "relook", "recheck",
           "rmlook", "rm", "fetch", "open", "send", "fill", "ok", "over"}

\* Every variable has its type.
TypeOK ==
  /\ cache \in [Nodes -> SUBSET Items] /\ dangling \in [Nodes -> SUBSET Items]
  /\ others \in [Nodes -> SUBSET Revs]
  /\ backup \in SUBSET Items
  /\ act \in [Operators -> Actions \cup {"none"}] /\ rev \in [Operators -> Revs \cup {All}]
  /\ pc \in [Operators -> Phases] /\ at \in [Operators -> Nodes]
  /\ staged \in [Operators -> SUBSET Items] /\ seen \in [Operators -> SUBSET Items]
  /\ shared \in [Operators -> BOOLEAN] /\ failed \in [Operators -> BOOLEAN]
  /\ doomed \in [Operators -> SUBSET Revs]
  /\ missed \in [Operators -> [Nodes -> SUBSET Items]]
  /\ newer \in [Operators -> SUBSET Revs]
  /\ crossed \in [Operators -> BOOLEAN]
  /\ count \in [{"run", "fault", "arrival"} -> Nat]

\* What --backup --delete removes from a node is in the published backup, unless it came
\* to that node after the run's last look at it: what arrived while the operator
\* thought, or while ownership was repaired, is never lost.
CoveredBeforeDeleted ==
  [][\A o \in Operators :
       act[o] = "backupdelete" /\ pc[o] = "rm" /\ <<pc'[o], at'[o]>> # <<pc[o], at[o]>>
         => \A n \in Nodes : cache[n] \ cache'[n] \subseteq backup \cup missed[o][n]]_vars

\* A published backup is never replaced or added to, by no run that looked for it
\* before it was there.
BackupKept == [][backup # {} => backup' = backup]_vars

\* Removing revisions by hash takes nothing from another repository that uses the hash,
\* wherever it came to use it since the head last looked; only what it did after the
\* node's own last look is beyond the run.
OthersSpared ==
  [][\A n \in Nodes : \A r \in others[n] \ others'[n] :
       \E o \in Operators : pc[o] = "rm" /\ at[o] = n /\ r \in newer[o]]_vars

\* A restore that reports success has put the whole backup on the head and on every
\* host, unless another run removed something meanwhile.
RestoredEverywhere ==
  \A o \in Operators : act[o] = "restore" /\ pc[o] = "ok" /\ ~crossed[o]
    => \A n \in Nodes : backup \subseteq cache[n]

\* A deletion that reports success has left nothing of its revisions on any node but what
\* came there after its last look, or what hf passed over while another run's copy had
\* left dangling links there.
DeletedEverywhere ==
  \A o \in Operators : act[o] \in {"delete", "backupdelete"} /\ pc[o] = "ok"
    => \A n \in Nodes : cache[n] \cap Target(o) \subseteq missed[o][n]
=============================================================================
