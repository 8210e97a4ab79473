---------------------------- MODULE SetupCluster ----------------------------
(***************************************************************************)
(* The head's side of setup-cluster (setup-cluster.py): setup with its     *)
(* rollback, --restore and --save-env, run against nodes that serve one    *)
(* request at a time under a lock.  Calls are synchronous, but a call the  *)
(* head gives up (a timeout, Ctrl-C, a killed head) may still run, or even *)
(* start, on its node.                                                     *)
(*                                                                         *)
(* Of a node's files only the handlers whose changes are in place are      *)
(* kept; module NodeJournal has the rest.  Heads stand for operators, each *)
(* with a terminal, on one machine or on several; each lists the nodes in  *)
(* an order of their own, the node they work on first.                     *)
(***************************************************************************)
EXTENDS Integers

CONSTANTS
  NNodes,      \* nodes of the cluster
  Heads,       \* terminals the helper is run from
  StateFile,   \* the state file each of them uses
  Order,       \* the order in which each lists the nodes, its own machine first
  NoHead,      \* nobody
  MaxTx,       \* bound on setups
  MaxFaults,   \* bound on calls that fail on a node for no visible reason
  MaxGiveUps,  \* bound on timeouts, interrupts and kills
  MaxEdits     \* bound on edits of managed files and changes of the docker group

Nodes == 1..NNodes
Files == {StateFile[h] : h \in Heads}
Tx == 1..MaxTx
Torn == MaxTx + 1          \* the contents of a manifest cut short
Forward == {"prepare", "docker", "ssh", "network"}
Actions == Forward \union {"env", "check", "restore", "inspect"}

ASSUME ClusterAssumption ==
  /\ NNodes \in Nat \ {0}
  /\ Order \in [Heads -> [Nodes -> Nodes]]
  /\ \A h \in Heads, n \in Nodes : \E i \in Nodes : Order[h][i] = n
  /\ DOMAIN StateFile = Heads
  /\ NoHead \notin Heads
  /\ MaxTx \in Nat /\ MaxFaults \in Nat /\ MaxGiveUps \in Nat /\ MaxEdits \in Nat

VARIABLES
  manifest,  \* the transaction each state file records, 0 if there is no such file
  head,      \* each head's process
  journal,   \* the transaction of each node's journal, 0 if there is none
  changed,   \* the handlers whose changes are in place on each node
  drift,     \* what check_restore refuses about each node since
  lock,      \* the request each node is serving, if any
  late,      \* requests given up by their head that may still start
  strays,    \* the prepares <<node, transaction>> that did start late
  count      \* setups started, faults, calls given up and edits so far

nodeVars == <<journal, changed, drift>>
vars == <<manifest, head, nodeVars, lock, late, strays, count>>

\* Somebody edited a managed file or replaced the docker group; the docker handler stopped
\* after groupadd, before the journal had the group's ID.
Drifts == {"edited", "noid"}

Off == [mode |-> "off", step |-> "none", at |-> 0, call |-> "none", tx |-> 0,
        ready |-> {}, failed |-> FALSE]
Free == [action |-> "none", tx |-> 0, head |-> NoHead]

Init ==
  /\ manifest = [f \in Files |-> 0]
  /\ head = [h \in Heads |-> Off]
  /\ journal = [n \in Nodes |-> 0]
  /\ changed = [n \in Nodes |-> {}]
  /\ drift = [n \in Nodes |-> {}]
  /\ lock = [n \in Nodes |-> Free]
  /\ late = {}
  /\ strays = {}
  /\ count = [k \in {"tx", "fault", "giveup", "edit"} |-> 0]

\* The node a head is at.
Node(h) == Order[h][head[h].at]

Tick(kind, bound) ==
  /\ count[kind] < bound
  /\ count' = [count EXCEPT ![kind] = @ + 1]

-----------------------------------------------------------------------------
(***************************************************************************)
(* The order in which the head goes through the nodes: networking and      *)
(* restoration work on the head last.                                      *)
(***************************************************************************)
Backward == {"network", "check", "restore"}
StartOf(step) == IF step \in Backward THEN NNodes ELSE 1
EndOf(step) == IF step \in Backward \/ step = "env" THEN 1 ELSE NNodes
After(step, n) == IF step \in Backward THEN n - 1 ELSE n + 1
\* Faulty variant: the docker phase is skipped.
NextStepNoDocker(step) ==
  CASE step = "prepare" -> "ssh"
    [] step = "ssh" -> "network"
    [] OTHER -> "verify"

NextStep(step) ==
  CASE step = "prepare" -> "docker"
    [] step = "docker" -> "ssh"
    [] step = "ssh" -> "network"
    [] OTHER -> "verify"

At(h, step) == [head[h] EXCEPT !.step = step, !.at = StartOf(step), !.call = "none"]
Advanced(h) == [head[h] EXCEPT !.at = After(head[h].step, head[h].at), !.call = "none"]
RollBack(h) == [head[h] EXCEPT !.mode = "rollback", !.step = "check", !.at = NNodes,
                               !.call = "none", !.ready = {}, !.failed = FALSE]

\* The preflights of setup: a node with a journal refuses.  The operator then
\* reads the plan; other setups go on meanwhile.
StartSetup(h) ==
  /\ head[h] = Off
  /\ manifest[StateFile[h]] = 0
  /\ \A n \in Nodes : journal[n] = 0
  /\ Tick("tx", MaxTx)
  /\ head' = [head EXCEPT ![h] = [Off EXCEPT !.mode = "setup", !.step = "confirm", !.tx = count["tx"] + 1]]
  /\ UNCHANGED <<manifest, nodeVars, lock, late, strays>>

\* O_EXCL: a manifest that is there is never replaced; setup just ends.
SaveManifest(h) ==
  /\ head[h].step = "confirm"
  /\ IF manifest[StateFile[h]] = 0
     THEN /\ manifest' = [manifest EXCEPT ![StateFile[h]] = head[h].tx]
          /\ head' = [head EXCEPT ![h] = At(h, "prepare")]
     ELSE /\ head' = [head EXCEPT ![h] = Off]
          /\ UNCHANGED manifest
  /\ UNCHANGED <<nodeVars, lock, late, strays, count>>

\* The file exists from its O_EXCL open on, its contents only after the write.
KilledInSave(h) ==
  /\ head[h].step = "confirm"
  /\ manifest[StateFile[h]] = 0
  /\ Tick("giveup", MaxGiveUps)
  /\ manifest' = [manifest EXCEPT ![StateFile[h]] = Torn]
  /\ head' = [head EXCEPT ![h] = Off]
  /\ UNCHANGED <<nodeVars, lock, late, strays>>

\* --restore and --save-env read the manifest first.
StartRestore(h) ==
  /\ head[h] = Off
  /\ manifest[StateFile[h]] \in Tx
  /\ head' = [head EXCEPT ![h] = [Off EXCEPT !.mode = "restore", !.step = "check", !.at = NNodes,
                                            !.tx = manifest[StateFile[h]]]]
  /\ UNCHANGED <<manifest, nodeVars, lock, late, strays, count>>

StartSaveEnv(h) ==
  /\ head[h] = Off
  /\ manifest[StateFile[h]] \in Tx
  /\ head' = [head EXCEPT ![h] = [Off EXCEPT !.mode = "saveenv", !.step = "inspect", !.at = 1,
                                            !.tx = manifest[StateFile[h]]]]
  /\ UNCHANGED <<manifest, nodeVars, lock, late, strays, count>>

-----------------------------------------------------------------------------
(***************************************************************************)
(* Calls.                                                                  *)
(***************************************************************************)
Request(h) == [node |-> Node(h), action |-> head[h].step, tx |-> head[h].tx]

Send(h) ==
  /\ head[h].step \in Actions /\ head[h].at \in Nodes
  /\ head[h].call = "none"
  /\ head[h].step = "restore" => head[h].at \in head[h].ready
  /\ head' = [head EXCEPT ![h].call = "sent"]
  /\ UNCHANGED <<manifest, nodeVars, lock, late, strays, count>>

\* dispatch takes the node's lock or fails at once.
Arrive(h) ==
  LET n == Node(h) IN
  /\ head[h].call = "sent"
  /\ IF lock[n] = Free
     THEN /\ lock' = [lock EXCEPT ![n] = [action |-> head[h].step, tx |-> head[h].tx, head |-> h]]
          /\ head' = [head EXCEPT ![h].call = "running"]
     ELSE /\ head' = [head EXCEPT ![h].call = "error"]
          /\ UNCHANGED lock
  /\ UNCHANGED <<manifest, nodeVars, late, strays, count>>

LateArrive(r) ==
  /\ r \in late
  /\ late' = late \ {r}
  /\ lock' = IF lock[r.node] = Free
             THEN [lock EXCEPT ![r.node] = [action |-> r.action, tx |-> r.tx, head |-> NoHead]]
             ELSE lock
  /\ strays' = IF lock[r.node] = Free /\ r.action = "prepare" THEN strays \union {<<r.node, r.tx>>}
               ELSE strays
  /\ UNCHANGED <<manifest, head, nodeVars, count>>

\* What becomes of the call a head stops waiting for.
Dropped(h) ==
  /\ lock' = IF head[h].call = "running" THEN [lock EXCEPT ![Node(h)].head = NoHead] ELSE lock
  /\ late' \in {late} \union
       IF head[h].call = "sent" THEN {late \union {Request(h)}} ELSE {}

TimeOut(h) ==
  /\ head[h].call \in {"sent", "running"}
  /\ Tick("giveup", MaxGiveUps)
  /\ Dropped(h)
  /\ head' = [head EXCEPT ![h].call = "error"]
  /\ UNCHANGED <<manifest, nodeVars, strays>>

\* Ctrl-C during setup's phases starts the rollback.
Interrupt(h) ==
  /\ head[h].mode = "setup" /\ head[h].step # "confirm"
  /\ Tick("giveup", MaxGiveUps)
  /\ Dropped(h)
  /\ head' = [head EXCEPT ![h] = RollBack(h)]
  /\ UNCHANGED <<manifest, nodeVars, strays>>

\* A kill at any time; also Ctrl-C outside those phases, which nothing catches.
Killed(h) ==
  /\ head[h] # Off
  /\ Tick("giveup", MaxGiveUps)
  /\ Dropped(h)
  /\ head' = [head EXCEPT ![h] = Off]
  /\ UNCHANGED <<manifest, nodeVars, strays>>

-----------------------------------------------------------------------------
(***************************************************************************)
(* A node finishes the request it holds the lock for.                      *)
(***************************************************************************)
\* Faulty variant: restore takes whatever journal it finds.
AcceptsAnyJournal(n, r) ==
  CASE r.action = "prepare" -> journal[n] = 0
    [] r.action \in {"check", "restore"} -> drift[n] = {}
    [] OTHER -> journal[n] = r.tx

\* Faulty variant: a node that is already restored refuses.
AcceptsJournalOnly(n, r) ==
  IF r.action = "prepare" THEN journal[n] = 0 ELSE journal[n] = r.tx /\ drift[n] = {}

Accepts(n, r) ==
  CASE r.action = "prepare" -> journal[n] = 0
    [] r.action \in {"check", "restore"} -> journal[n] = 0 \/ (journal[n] = r.tx /\ drift[n] = {})
    [] r.action \in {"ssh", "network"} -> journal[n] = r.tx /\ r.action \notin changed[n]
    [] r.action = "env" -> journal[n] = r.tx /\ (r.action \in changed[n] => drift[n] = {})
    [] r.action = "inspect" -> journal[n] = r.tx /\ drift[n] = {} /\ "network" \in changed[n]
    [] OTHER -> journal[n] = r.tx

Complete(n, r) ==
  CASE r.action = "prepare" ->
         /\ journal' = [journal EXCEPT ![n] = r.tx]
         /\ changed' = [changed EXCEPT ![n] = {"prepare"}]
    [] r.action \in {"docker", "ssh", "network", "env"} ->
         /\ changed' = [changed EXCEPT ![n] = @ \union {r.action}]
         /\ UNCHANGED journal
    [] r.action = "restore" ->
         /\ journal' = [journal EXCEPT ![n] = 0]
         /\ changed' = [changed EXCEPT ![n] = {}]
    [] OTHER -> UNCHANGED <<journal, changed>>

\* Handlers stop after any of their writes: a journal without its changes, some
\* of the changes, or with restore the network files back and the rest not.
Partial(n, r) ==
  CASE r.action = "prepare" ->
         /\ journal' = [journal EXCEPT ![n] = r.tx]
         /\ changed' \in {changed, [changed EXCEPT ![n] = {"prepare"}]}
    [] r.action \in {"docker", "ssh", "network", "env"} ->
         /\ changed' \in {changed, [changed EXCEPT ![n] = @ \union {r.action}]}
         /\ UNCHANGED journal
    [] r.action = "restore" ->
         /\ changed' \in {changed, [changed EXCEPT ![n] = @ \ {"network"}], [changed EXCEPT ![n] = {}]}
         /\ UNCHANGED journal
    [] OTHER -> UNCHANGED <<journal, changed>>

Reply(n, result) ==
  /\ lock' = [lock EXCEPT ![n] = Free]
  /\ head' = IF lock[n].head = NoHead THEN head ELSE [head EXCEPT ![lock[n].head].call = result]

Serve(n) ==
  /\ lock[n] # Free /\ Accepts(n, lock[n])
  /\ Complete(n, lock[n])
  /\ drift' = IF lock[n].action = "docker" THEN [drift EXCEPT ![n] = @ \ {"noid"}] ELSE drift
  /\ Reply(n, "ok")
  /\ UNCHANGED <<manifest, late, strays, count>>

Refuse(n) ==
  /\ lock[n] # Free /\ ~Accepts(n, lock[n])
  /\ Reply(n, "error")
  /\ UNCHANGED <<manifest, nodeVars, late, strays, count>>

Fail(n) ==
  /\ lock[n] # Free /\ Accepts(n, lock[n])
  /\ Tick("fault", MaxFaults)
  /\ IF journal[n] = 0 /\ lock[n].action # "prepare"
     THEN UNCHANGED <<journal, changed>> ELSE Partial(n, lock[n])
  /\ drift' \in {drift} \union
       IF lock[n].action = "docker" /\ "docker" \notin changed[n]
       THEN {[drift EXCEPT ![n] = @ \union {"noid"}]} ELSE {}
  /\ Reply(n, "error")
  /\ UNCHANGED <<manifest, late, strays>>

\* A user edits a managed file, or an administrator replaces the docker group, or they
\* put it back; a group whose ID the journal has not is removed.
Edit(n) ==
  /\ journal[n] # 0
  /\ \/ /\ "edited" \notin drift[n] /\ Tick("edit", MaxEdits)
        /\ drift' = [drift EXCEPT ![n] = @ \union {"edited"}]
     \/ /\ \E d \in drift[n] : drift' = [drift EXCEPT ![n] = @ \ {d}]
        /\ UNCHANGED count
  /\ UNCHANGED <<manifest, head, journal, changed, lock, late, strays>>

-----------------------------------------------------------------------------
(***************************************************************************)
(* What the head does with an answer.                                      *)
(***************************************************************************)
\* The next node of a phase, or the next phase.
SetupProceeds(h) ==
  /\ head[h].mode = "setup" /\ head[h].step \in Forward /\ head[h].call = "ok"
  /\ head' = [head EXCEPT ![h] =
                IF head[h].at = EndOf(head[h].step) THEN At(h, NextStep(head[h].step))
                ELSE Advanced(h)]
  /\ UNCHANGED <<manifest, nodeVars, lock, late, strays, count>>

\* verify connects from every node to every other, under no lock.  With --no-env
\* it is the last phase of a setup.
Verified == \A n \in Nodes : {"ssh", "network"} \subseteq changed[n]

VerifyPasses(h) ==
  /\ head[h].step = "verify" /\ Verified
  /\ \/ head' = [head EXCEPT ![h] = At(h, "env")]
     \/ head[h].mode = "setup" /\ head' = [head EXCEPT ![h] = Off]
  /\ UNCHANGED <<manifest, nodeVars, lock, late, strays, count>>

VerifyFails(h) ==
  /\ head[h].step = "verify"
  /\ IF Verified THEN Tick("fault", MaxFaults) ELSE UNCHANGED count
  /\ head' = [head EXCEPT ![h] = IF head[h].mode = "setup" THEN RollBack(h) ELSE Off]
  /\ UNCHANGED <<manifest, nodeVars, lock, late, strays>>

EnvSaved(h) ==
  /\ head[h].step = "env" /\ head[h].call = "ok"
  /\ head' = [head EXCEPT ![h] = Off]
  /\ UNCHANGED <<manifest, nodeVars, lock, late, strays, count>>

SetupFails(h) ==
  /\ head[h].mode = "setup" /\ head[h].call = "error"
  /\ head' = [head EXCEPT ![h] = RollBack(h)]
  /\ UNCHANGED <<manifest, nodeVars, lock, late, strays, count>>

SaveEnvProceeds(h) ==
  /\ head[h].step = "inspect" /\ head[h].call = "ok"
  /\ head' = [head EXCEPT ![h] = IF head[h].at = EndOf(head[h].step) THEN At(h, "verify")
                                 ELSE Advanced(h)]
  /\ UNCHANGED <<manifest, nodeVars, lock, late, strays, count>>

SaveEnvFails(h) ==
  /\ head[h].mode = "saveenv" /\ head[h].call = "error"
  /\ head' = [head EXCEPT ![h] = Off]
  /\ UNCHANGED <<manifest, nodeVars, lock, late, strays, count>>

\* restore_cluster: every node is checked, and restored only if the check said
\* so; only the rollback of a setup goes on when some check failed.
Checked(h) ==
  LET p == head[h]
      ready == IF p.call = "ok" THEN p.ready \union {p.at} ELSE p.ready
      failed == p.failed \/ p.call = "error" IN
  /\ p.step = "check" /\ p.call \in {"ok", "error"}
  /\ head' = [head EXCEPT ![h] =
       IF p.at > 1 THEN [p EXCEPT !.at = @ - 1, !.call = "none", !.ready = ready, !.failed = failed]
       ELSE IF failed /\ p.mode = "restore" THEN Off
       ELSE [At(h, "restore") EXCEPT !.ready = ready, !.failed = failed]]
  /\ UNCHANGED <<manifest, nodeVars, lock, late, strays, count>>

SkipNode(h) ==
  /\ head[h].step = "restore" /\ head[h].call = "none"
  /\ head[h].at \in Nodes \ head[h].ready
  /\ head' = [head EXCEPT ![h].at = @ - 1]
  /\ UNCHANGED <<manifest, nodeVars, lock, late, strays, count>>

Restored(h) ==
  /\ head[h].step = "restore" /\ head[h].call \in {"ok", "error"}
  /\ head' = [head EXCEPT ![h] = [head[h] EXCEPT !.at = @ - 1, !.call = "none",
                                                 !.failed = @ \/ head[h].call = "error"]]
  /\ UNCHANGED <<manifest, nodeVars, lock, late, strays, count>>

\* Faulty variant: the state file goes whatever happened.
RestoreEndsAlways(h) ==
  /\ head[h].step = "restore" /\ head[h].at = 0
  /\ manifest' = [manifest EXCEPT ![StateFile[h]] = 0]
  /\ head' = [head EXCEPT ![h] = Off]
  /\ UNCHANGED <<nodeVars, lock, late, strays, count>>

\* The state file goes last, and only if nothing failed.
RestoreEnds(h) ==
  /\ head[h].step = "restore" /\ head[h].at = 0
  /\ manifest' = IF head[h].failed THEN manifest ELSE [manifest EXCEPT ![StateFile[h]] = 0]
  /\ head' = [head EXCEPT ![h] = Off]
  /\ UNCHANGED <<nodeVars, lock, late, strays, count>>

-----------------------------------------------------------------------------
HeadStep(h) ==
  \/ SaveManifest(h) \/ Send(h) \/ Arrive(h)
  \/ SetupProceeds(h) \/ VerifyPasses(h) \/ VerifyFails(h) \/ EnvSaved(h) \/ SetupFails(h)
  \/ SaveEnvProceeds(h) \/ SaveEnvFails(h)
  \/ Checked(h) \/ SkipNode(h) \/ Restored(h) \/ RestoreEnds(h)

Commands(h) == StartSetup(h) \/ StartRestore(h) \/ StartSaveEnv(h)
GivenUp(h) == KilledInSave(h) \/ TimeOut(h) \/ Interrupt(h) \/ Killed(h)
NodeStep(n) == Serve(n) \/ Refuse(n) \/ Fail(n)

Next ==
  \/ \E h \in Heads : HeadStep(h) \/ Commands(h) \/ GivenUp(h)
  \/ \E n \in Nodes : NodeStep(n) \/ Edit(n)
  \/ \E r \in late : LateArrive(r)

Spec == Init /\ [][Next]_vars

\* Programs run on, and operators repeat --restore as long as there is a manifest.
FairSpec ==
  /\ Spec
  /\ \A h \in Heads : WF_vars(HeadStep(h)) /\ SF_vars(StartRestore(h))
  /\ \A n \in Nodes : WF_vars(NodeStep(n))

-----------------------------------------------------------------------------
(***************************************************************************)
(* Properties.                                                             *)
(***************************************************************************)
Requests == [action : Actions \union {"none"}, tx : 0..MaxTx, head : Heads \union {NoHead}]
Processes == [mode : {"off", "setup", "rollback", "restore", "saveenv"},
              step : Actions \union {"none", "confirm", "verify"},
              at : 0..NNodes,
              call : {"none", "sent", "running", "ok", "error"},
              tx : 0..MaxTx, ready : SUBSET Nodes, failed : BOOLEAN]

\* Every variable has its type.
TypeOK ==
  /\ manifest \in [Files -> 0..Torn]
  /\ head \in [Heads -> Processes]
  /\ journal \in [Nodes -> 0..MaxTx]
  /\ changed \in [Nodes -> SUBSET (Forward \union {"env"})]
  /\ drift \in [Nodes -> SUBSET Drifts]
  /\ lock \in [Nodes -> Requests]
  /\ late \in SUBSET [node : Nodes, action : Actions, tx : Tx]
  /\ strays \in SUBSET (Nodes \X Tx)
  /\ count \in [{"tx", "fault", "giveup", "edit"} -> Nat]

\* A journal whose prepare started only after its head had given the call up.
Stray(n) == <<n, journal[n]>> \in strays

\* Every journal on a node can be restored: a state file still records its
\* transaction, whatever calls failed, were refused or given up.  This is what
\* "journals were retained. Retry --restore" promises.  Only a journal that was made
\* late may be without one: the rollback may have passed its node before.
ManifestCovers ==
  \A n \in Nodes : journal[n] # 0 /\ ~Stray(n) => \E f \in Files : manifest[f] = journal[n]

\* From its own manifest on, a setup keeps what it has done on a node until it rolls
\* back itself: nobody else's restore, and no call somebody gave up, undoes it.
SetupUndisturbed ==
  [][\A h \in Heads, n \in Nodes :
       head[h].mode = "setup" /\ journal[n] = head[h].tx
         => journal'[n] = journal[n] /\ changed[n] \subseteq changed'[n]]_vars

\* When setup reports success every node has everything in place, journaled
\* under this setup's transaction and recorded in this setup's state file.
SetupComplete ==
  [][\A h \in Heads :
       head[h].mode = "setup" /\ head'[h] = Off /\ (VerifyPasses(h) \/ EnvSaved(h))
         => /\ manifest[StateFile[h]] = head[h].tx
            /\ \A n \in Nodes : journal[n] = head[h].tx /\ Forward \subseteq changed[n]]_vars

\* A state file is only ever removed, never replaced while it still records a
\* setup, even by a setup that looked before the file was there.
ManifestNotReplaced ==
  [][\A f \in Files : manifest[f] # 0 => manifest'[f] \in {manifest[f], 0}]_vars

\* --restore changes no node unless every node passed its check ("Restore checks
\* all nodes for file changes before restoring any node").
AllCheckedFirst ==
  \A h \in Heads : head[h].mode = "restore" /\ head[h].step = "restore" => head[h].ready = Nodes

\* As long as operators repeat --restore, setups end and are undone everywhere, unless a
\* node refuses: for an edited file; for a docker group that is not the recorded one, or
\* whose ID was lost when the handler stopped after groupadd (there --restore never
\* succeeds until the group is removed by hand: run docker_kill); or for the journal a
\* late prepare of another setup made.
EventuallyRestored ==
  \A f \in Files :
    [](manifest[f] \in Tx =>
         <>(\/ manifest[f] = 0
            \/ \E n \in Nodes : drift[n] # {} \/ (Stray(n) /\ journal[n] # manifest[f])))
=============================================================================
