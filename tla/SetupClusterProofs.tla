------------------------- MODULE SetupClusterProofs -------------------------
(***************************************************************************)
(* What SetupCluster keeps for every number of nodes, heads and setups.    *)
(*                                                                         *)
(* Base says which steps belong to which command, that a node serves what  *)
(* the head waiting for it asked for, and what a restore knows of its      *)
(* checks.  On it rest three arguments, for operators with a state file    *)
(* each: Own, that no two heads work under one transaction and nobody      *)
(* restores what a setup works on; Progress, that a setup finds in place   *)
(* whatever it has passed; and Cover, that a restore without failures      *)
(* leaves nothing behind it but what starts late, so a state file goes     *)
(* only after the last journal under its transaction.                      *)
(***************************************************************************)
EXTENDS SetupCluster, TLAPS

\* Every head uses a state file of its own.
OwnFiles == \A g, h \in Heads : StateFile[g] = StateFile[h] => g = h

\* A manifest names one transaction, and no two name the same.
Distinct == \A e, f \in Files : manifest[e] = manifest[f] /\ manifest[e] \in Tx => e = f

\* Which steps belong to which command, and where a head can stand in them.
Shape(p) ==
  /\ p.mode = "off" => p.step = "none"
  /\ p.mode = "setup" => p.step \in Forward \union {"confirm", "verify", "env"}
  /\ p.mode \in {"rollback", "restore"} => p.step \in {"check", "restore"}
  /\ p.mode = "saveenv" => p.step \in {"inspect", "verify", "env"}
  /\ p.mode # "off" => p.tx \in Tx
  /\ p.step \in Actions \ {"restore"} => p.at \in Nodes
  /\ p.call # "none" => p.step \in Actions /\ p.at \in Nodes
Shaped == \A h \in Heads : Shape(head[h])

\* What a node serves for a head is what that head waits for.
Attended(n) ==
  /\ lock[n] # Free => lock[n].action \in Actions /\ lock[n].tx \in Tx
  /\ lock[n].head # NoHead =>
       /\ head[lock[n].head].call = "running" /\ Node(lock[n].head) = n
       /\ lock[n].action = head[lock[n].head].step /\ lock[n].tx = head[lock[n].head].tx
Serving == \A n \in Nodes : Attended(n)

\* The checks of a restore so far have passed, or it knows that one has not.
Checks(p) ==
  /\ p.step = "check" /\ ~p.failed => \A i \in Nodes : i > p.at => i \in p.ready
  /\ p.step = "restore" /\ (p.mode = "restore" \/ ~p.failed) => p.ready = Nodes
Checking == \A h \in Heads : Checks(head[h])

\* Transactions are numbered as setups start; nothing has a later number.
Numbered ==
  /\ count["tx"] \in 0..MaxTx
  /\ \A h \in Heads : head[h].tx <= count["tx"]
  /\ \A f \in Files : manifest[f] <= count["tx"] \/ manifest[f] = Torn
  /\ \A n \in Nodes : journal[n] <= count["tx"] /\ lock[n].tx <= count["tx"]
  /\ \A r \in late : r.tx <= count["tx"]

\* A command works under the transaction in its state file. One that has not saved
\* its manifest has a transaction nobody has ever seen.
Unseen(h) ==
  /\ \A f \in Files : manifest[f] # head[h].tx
  /\ \A g \in Heads \ {h} : head[g].tx # head[h].tx
  /\ \A n \in Nodes : journal[n] # head[h].tx /\ lock[n].tx # head[h].tx
  /\ \A r \in late : r.tx # head[h].tx
Recorded ==
  \A h \in Heads :
    /\ head[h].mode # "off" /\ head[h].step # "confirm" => manifest[StateFile[h]] = head[h].tx
    /\ head[h].step = "confirm" => Unseen(h)

\* Nobody restores what a setup is working on.
NoUndo ==
  \A h \in Heads : head[h].mode = "setup" =>
    /\ \A n \in Nodes : ~(lock[n].action = "restore" /\ lock[n].tx = head[h].tx)
    /\ \A r \in late : ~(r.action = "restore" /\ r.tx = head[h].tx)

\* The phases of setup in their order, and the nodes one has passed in each.
Rank(step) ==
  CASE step = "confirm" -> 0 [] step = "prepare" -> 1 [] step = "docker" -> 2
    [] step = "ssh" -> 3 [] step = "network" -> 4 [] step = "verify" -> 5 [] OTHER -> 6
Passed(p, s, i) ==
  \/ Rank(s) < Rank(p.step)
  \/ s = p.step /\ (IF s = "network" THEN p.at < i ELSE i < p.at)
  \/ s = p.step /\ i = p.at /\ p.call = "ok"
Progress ==
  \A h \in Heads : head[h].mode = "setup" =>
    \A s \in Forward, i \in Nodes : Passed(head[h], s, i) =>
      journal[Order[h][i]] = head[h].tx /\ s \in changed[Order[h][i]]

\* Journals and calls that make one are under a transaction some manifest has, unless the
\* call started late.
Covered ==
  \A n \in Nodes : journal[n] # 0 /\ <<n, journal[n]>> \notin strays => \E f \in Files : manifest[f] = journal[n]
Preparing ==
  \A n \in Nodes : lock[n].action = "prepare" /\ <<n, lock[n].tx>> \notin strays =>
    \E f \in Files : manifest[f] = lock[n].tx

\* A restore without a failure leaves nothing of its transaction behind it, but for what
\* starts late.
Cleared(n, t) ==
  <<n, t>> \notin strays => journal[n] # t /\ ~(lock[n].action = "prepare" /\ lock[n].tx = t)
Clearing ==
  \A h \in Heads : head[h].step = "restore" /\ ~head[h].failed =>
    \A i \in Nodes : head[h].at < i \/ (i = head[h].at /\ head[h].call = "ok") =>
      Cleared(Order[h][i], head[h].tx)

-----------------------------------------------------------------------------
Steps == Actions \union {"none", "confirm", "verify"}
Calls == {"none", "sent", "running", "ok", "error"}

\* One head's process becomes a process with these fields; the others stay.
Becomes(h, mode, step, at, call, tx, ready, failed) ==
  /\ head' = [head EXCEPT ![h] = head'[h]]
  /\ head'[h] \in Processes
  /\ head'[h].mode = mode /\ head'[h].step = step /\ head'[h].at = at /\ head'[h].call = call
  /\ head'[h].tx = tx /\ head'[h].ready = ready /\ head'[h].failed = failed

\* The fields of a process that only another step or node, or another answer, changes.
Goes(h, step, at, call) ==
  Becomes(h, head[h].mode, step, at, call, head[h].tx, head[h].ready, head[h].failed)
Stops(h) == Becomes(h, "off", "none", 0, "none", 0, {}, FALSE)
RollsBack(h) == Becomes(h, "rollback", "check", NNodes, "none", head[h].tx, {}, FALSE)

LEMMA NodesNat == NNodes \in Nat \ {0} /\ Nodes = 1..NNodes
BY ClusterAssumption DEF Nodes

LEMMA OffOK == /\ Off \in Processes
               /\ Off.mode = "off" /\ Off.step = "none" /\ Off.at = 0 /\ Off.call = "none"
               /\ Off.tx = 0 /\ Off.ready = {} /\ Off.failed = FALSE
BY ClusterAssumption DEF Off, Processes

\* How the three kinds of assignment to a process show in its fields.
LEMMA StopsOK ==
  ASSUME NEW h \in Heads, head \in [Heads -> Processes], head' = [head EXCEPT ![h] = Off]
  PROVE  Stops(h)
BY OffOK DEF Stops, Becomes

LEMMA RollsBackOK ==
  ASSUME NEW h \in Heads, head \in [Heads -> Processes], head' = [head EXCEPT ![h] = RollBack(h)]
  PROVE  RollsBack(h)
<1>1. head[h] \in Processes /\ NNodes \in 0..NNodes
  BY NodesNat
<1>2. RollBack(h) \in Processes
  BY <1>1 DEF RollBack, Processes, Actions
<1> QED
  BY <1>1, <1>2 DEF RollsBack, Becomes, RollBack, Processes

LEMMA StartOfOK ==
  ASSUME NEW s PROVE StartOf(s) \in Nodes
BY NodesNat DEF StartOf

LEMMA AtOK ==
  ASSUME NEW h \in Heads, head \in [Heads -> Processes], NEW s \in Steps,
         head' = [head EXCEPT ![h] = At(h, s)]
  PROVE  Goes(h, s, StartOf(s), "none")
<1>1. head[h] \in Processes /\ StartOf(s) \in 0..NNodes
  BY StartOfOK, NodesNat
<1>2. At(h, s) \in Processes
  BY <1>1 DEF At, Processes, Steps
<1> QED
  BY <1>1, <1>2 DEF Goes, Becomes, At, Processes

\* Where a head stands after a step within a phase.
LEMMA AfterOK ==
  ASSUME NEW s \in Forward \union {"inspect"}, NEW a \in Nodes, a # EndOf(s)
  PROVE  After(s, a) \in Nodes
BY NodesNat DEF After, EndOf, Backward, Forward

LEMMA AdvancedOK ==
  ASSUME NEW h \in Heads, head \in [Heads -> Processes],
         After(head[h].step, head[h].at) \in Nodes,
         head' = [head EXCEPT ![h] = Advanced(h)]
  PROVE  Goes(h, head[h].step, After(head[h].step, head[h].at), "none")
<1>1. head[h] \in Processes /\ After(head[h].step, head[h].at) \in 0..NNodes
  BY NodesNat
<1>2. Advanced(h) \in Processes
  BY <1>1 DEF Advanced, Processes
<1> QED
  BY <1>1, <1>2 DEF Goes, Becomes, Advanced, Processes

\* What each step of a head makes of its process.
LEMMA SendGoes ==
  ASSUME NEW h \in Heads, head \in [Heads -> Processes], Send(h)
  PROVE  Goes(h, head[h].step, head[h].at, "sent")
<1>1. head[h] \in Processes /\ head' = [head EXCEPT ![h].call = "sent"]
  BY DEF Send
<1>2. head'[h] \in Processes
  BY <1>1 DEF Processes
<1> QED
  BY <1>1, <1>2 DEF Goes, Becomes, Processes

LEMMA SetupProceedsGoes ==
  ASSUME NEW h \in Heads, head \in [Heads -> Processes], Shaped, SetupProceeds(h)
  PROVE  \/ /\ head[h].at = EndOf(head[h].step)
            /\ Goes(h, NextStep(head[h].step), StartOf(NextStep(head[h].step)), "none")
         \/ /\ head[h].at # EndOf(head[h].step)
            /\ After(head[h].step, head[h].at) \in Nodes
            /\ Goes(h, head[h].step, After(head[h].step, head[h].at), "none")
<1>1. head[h].step \in Forward /\ head[h].at \in Nodes
  BY DEF SetupProceeds, Shaped, Shape
<1>2. CASE head[h].at = EndOf(head[h].step)
  <2>1. NextStep(head[h].step) \in Steps
    BY <1>1 DEF NextStep, Steps, Actions, Forward
  <2> QED
    BY <1>2, <2>1, AtOK DEF SetupProceeds
<1>3. CASE head[h].at # EndOf(head[h].step)
  <2>1. After(head[h].step, head[h].at) \in Nodes
    BY <1>1, <1>3, AfterOK
  <2> QED
    BY <1>3, <2>1, AdvancedOK DEF SetupProceeds
<1> QED
  BY <1>2, <1>3

LEMMA SaveEnvProceedsGoes ==
  ASSUME NEW h \in Heads, head \in [Heads -> Processes], Shaped, SaveEnvProceeds(h)
  PROVE  \/ Goes(h, "verify", StartOf("verify"), "none")
         \/ \E a \in Nodes : Goes(h, "inspect", a, "none")
<1>1. head[h].step = "inspect" /\ head[h].at \in Nodes
  BY DEF SaveEnvProceeds, Shaped, Shape
<1>2. CASE head[h].at = EndOf(head[h].step)
  BY <1>2, AtOK DEF SaveEnvProceeds, Steps
<1>3. CASE head[h].at # EndOf(head[h].step)
  <2>1. After(head[h].step, head[h].at) \in Nodes
    BY <1>1, <1>3, AfterOK
  <2> QED
    BY <1>1, <1>3, <2>1, AdvancedOK DEF SaveEnvProceeds
<1> QED
  BY <1>2, <1>3

LEMMA VerifyPassesGoes ==
  ASSUME NEW h \in Heads, head \in [Heads -> Processes], VerifyPasses(h)
  PROVE  Goes(h, "env", StartOf("env"), "none") \/ Stops(h)
BY AtOK, StopsOK DEF VerifyPasses, Steps, Actions

LEMMA VerifyFailsGoes ==
  ASSUME NEW h \in Heads, head \in [Heads -> Processes], VerifyFails(h)
  PROVE  (head[h].mode = "setup" /\ RollsBack(h)) \/ Stops(h)
BY RollsBackOK, StopsOK DEF VerifyFails

LEMMA CheckedGoes ==
  ASSUME NEW h \in Heads, head \in [Heads -> Processes], Shaped, Checked(h)
  PROVE  LET ready == IF head[h].call = "ok" THEN head[h].ready \union {head[h].at} ELSE head[h].ready
             failed == head[h].failed \/ head[h].call = "error" IN
         \/ /\ head[h].at > 1
            /\ Becomes(h, head[h].mode, "check", head[h].at - 1, "none", head[h].tx, ready, failed)
         \/ head[h].at = 1 /\ failed /\ head[h].mode = "restore" /\ Stops(h)
         \/ /\ head[h].at = 1
            /\ ~(failed /\ head[h].mode = "restore")
            /\ Becomes(h, head[h].mode, "restore", NNodes, "none", head[h].tx, ready, failed)
<1> DEFINE p == head[h]
           ready == IF p.call = "ok" THEN p.ready \union {p.at} ELSE p.ready
           failed == p.failed \/ p.call = "error"
<1>1. p \in Processes /\ p.at \in Nodes /\ p.step = "check"
  BY DEF Checked, Shaped, Shape
<1>2. ready \in SUBSET Nodes /\ failed \in BOOLEAN
  BY <1>1 DEF Processes
<1>3. CASE p.at > 1
  <2>1. p.at - 1 \in 0..NNodes
    BY <1>1, <1>3, NodesNat
  <2>2. head' = [head EXCEPT ![h] = [p EXCEPT !.at = @ - 1, !.call = "none", !.ready = ready, !.failed = failed]]
    BY <1>3 DEF Checked
  <2> HIDE DEF p, ready, failed
  <2>3. Becomes(h, p.mode, p.step, p.at - 1, "none", p.tx, ready, failed)
    BY <1>1, <1>2, <2>1, <2>2 DEF Becomes, Processes
  <2> QED
    BY <1>1, <1>3, <2>3 DEF p, ready, failed
<1>4. CASE ~(p.at > 1) /\ failed /\ p.mode = "restore"
  <2>1. p.at = 1
    BY <1>1, <1>4, NodesNat
  <2>2. head' = [head EXCEPT ![h] = Off]
    BY <1>4 DEF Checked
  <2> QED
    BY <1>4, <2>1, <2>2, StopsOK
<1>5. CASE ~(p.at > 1) /\ ~(failed /\ p.mode = "restore")
  <2>1. head' = [head EXCEPT ![h] = [At(h, "restore") EXCEPT !.ready = ready, !.failed = failed]]
    BY <1>5 DEF Checked
  <2>2. [At(h, "restore") EXCEPT !.ready = ready, !.failed = failed]
          = [p EXCEPT !.step = "restore", !.at = NNodes, !.call = "none", !.ready = ready, !.failed = failed]
    BY <1>1 DEF At, StartOf, Backward, Processes
  <2>3. NNodes \in 0..NNodes /\ p.at = 1
    BY <1>1, <1>5, NodesNat
  <2> HIDE DEF p, ready, failed
  <2>4. Becomes(h, p.mode, "restore", NNodes, "none", p.tx, ready, failed)
    BY <1>1, <1>2, <2>1, <2>2, <2>3 DEF Becomes, Processes, Actions
  <2> QED
    BY <1>5, <2>3, <2>4 DEF p, ready, failed
<1> QED
  BY <1>3, <1>4, <1>5

LEMMA SkipNodeGoes ==
  ASSUME NEW h \in Heads, head \in [Heads -> Processes], SkipNode(h)
  PROVE  Goes(h, "restore", head[h].at - 1, "none")
<1>1. head[h] \in Processes /\ head[h].at - 1 \in 0..NNodes /\ head[h].step = "restore"
  BY NodesNat DEF SkipNode
<1> DEFINE a == head[h].at - 1
<1>2. head' = [head EXCEPT ![h].at = a] /\ head[h].call = "none" /\ a \in 0..NNodes
  BY <1>1 DEF SkipNode
<1> HIDE DEF a
<1>3. Goes(h, head[h].step, a, head[h].call)
  BY <1>1, <1>2 DEF Goes, Becomes, Processes
<1> QED
  BY <1>1, <1>2, <1>3 DEF a

LEMMA RestoredGoes ==
  ASSUME NEW h \in Heads, head \in [Heads -> Processes], Shaped, Restored(h)
  PROVE  Becomes(h, head[h].mode, "restore", head[h].at - 1, "none", head[h].tx, head[h].ready,
                 head[h].failed \/ head[h].call = "error")
<1> DEFINE p == head[h]
           failed == p.failed \/ p.call = "error"
<1>1. p \in Processes /\ p.at \in Nodes /\ p.step = "restore"
  BY DEF Restored, Shaped, Shape
<1>2. p.at - 1 \in 0..NNodes /\ failed \in BOOLEAN
  BY <1>1, NodesNat DEF Processes
<1>3. head' = [head EXCEPT ![h] = [p EXCEPT !.at = @ - 1, !.call = "none", !.failed = failed]]
  BY DEF Restored
<1> HIDE DEF p, failed
<1>4. Becomes(h, p.mode, p.step, p.at - 1, "none", p.tx, p.ready, failed)
  BY <1>1, <1>2, <1>3 DEF Becomes, Processes
<1> QED
  BY <1>1, <1>4 DEF p, failed

-----------------------------------------------------------------------------
Base == TypeOK /\ Shaped /\ Serving /\ Checking

\* A step of a head that changes nothing but its own process.
Quietly(h) ==
  \/ Send(h) \/ SetupProceeds(h) \/ VerifyPasses(h) \/ VerifyFails(h) \/ EnvSaved(h)
  \/ SetupFails(h) \/ SaveEnvProceeds(h) \/ SaveEnvFails(h)
  \/ Checked(h) \/ SkipNode(h) \/ Restored(h)

Others == <<manifest, journal, changed, drift, lock, late, strays>>
Counting == [{"tx", "fault", "giveup", "edit"} -> Nat]

Quiet(h) ==
  /\ UNCHANGED Others /\ count' \in Counting /\ count'["tx"] = count["tx"]
  /\ head' = [head EXCEPT ![h] = head'[h]] /\ head'[h] \in Processes
  /\ Shape(head'[h]) /\ Checks(head'[h])
  /\ head[h].mode # "off" /\ head[h].step # "confirm" /\ head[h].call # "running"
  /\ \/ head'[h].mode = "off" /\ head'[h].tx = 0 /\ head'[h].step = "none"
     \/ /\ head'[h].mode \in {head[h].mode, "rollback"}
        /\ head'[h].step # "confirm" /\ head'[h].tx = head[h].tx

\* A process that stops or rolls back has the shape its command wants.
LEMMA StopsQuiet ==
  ASSUME NEW h \in Heads, Stops(h)
  PROVE  /\ head' = [head EXCEPT ![h] = head'[h]] /\ head'[h] \in Processes
         /\ Shape(head'[h]) /\ Checks(head'[h])
         /\ head'[h].mode = "off" /\ head'[h].tx = 0 /\ head'[h].step = "none"
BY DEF Stops, Becomes, Shape, Checks, Actions, Forward

LEMMA RollsBackQuiet ==
  ASSUME NEW h \in Heads, TypeOK, Shaped, head[h].mode = "setup", RollsBack(h)
  PROVE  /\ head' = [head EXCEPT ![h] = head'[h]] /\ head'[h] \in Processes
         /\ Shape(head'[h]) /\ Checks(head'[h])
         /\ head'[h].mode = "rollback" /\ head'[h].step # "confirm" /\ head'[h].tx = head[h].tx
<1>1. \A i \in Nodes : ~(i > NNodes)
  BY NodesNat
<1>2. NNodes \in Nodes
  BY NodesNat
<1> QED
  BY <1>1, <1>2 DEF RollsBack, Becomes, Shape, Checks, Shaped, Actions

LEMMA TickCounts ==
  ASSUME NEW kind \in {"fault", "giveup", "edit"}, NEW bound, count \in Counting, Tick(kind, bound)
  PROVE  count' \in Counting /\ count'["tx"] = count["tx"]
BY DEF Tick, Counting

\* Each of those steps is quiet.
LEMMA QuietStep ==
  ASSUME NEW h \in Heads, Base, Quietly(h)
  PROVE  Quiet(h)
<1> DEFINE p == head[h]
<1>1. head \in [Heads -> Processes] /\ p \in Processes /\ Shape(p) /\ Checks(p) /\ count \in Counting
  BY DEF Base, TypeOK, Shaped, Checking, Counting
<1>2. p.step \in Actions \union {"verify"} /\ p.call # "running" /\ UNCHANGED Others
  <2>1. p.call # "running"
    BY <1>1 DEF Quietly, Send, SetupProceeds, VerifyPasses, VerifyFails, EnvSaved, SetupFails,
                SaveEnvProceeds, SaveEnvFails, Checked, SkipNode, Restored, Shape, Actions, Forward
  <2>2. p.step \in Actions \union {"verify"}
    BY <1>1 DEF Quietly, Send, SetupProceeds, VerifyPasses, VerifyFails, EnvSaved, SetupFails,
                SaveEnvProceeds, SaveEnvFails, Checked, SkipNode, Restored, Shape, Actions
  <2>3. UNCHANGED Others
    BY DEF Quietly, Send, SetupProceeds, VerifyPasses, VerifyFails, EnvSaved, SetupFails,
           SaveEnvProceeds, SaveEnvFails, Checked, SkipNode, Restored, Others, nodeVars
  <2> QED
    BY <2>1, <2>2, <2>3
<1>3. p.mode # "off" /\ p.step # "confirm"
  BY <1>1, <1>2 DEF Shape, Actions, Forward
<1>4. ASSUME ~VerifyFails(h) PROVE count' \in Counting /\ count'["tx"] = count["tx"]
  BY <1>1, <1>4 DEF Quietly, Send, SetupProceeds, VerifyPasses, EnvSaved, SetupFails,
                SaveEnvProceeds, SaveEnvFails, Checked, SkipNode, Restored
<1>5. ASSUME VerifyFails(h) PROVE count' \in Counting /\ count'["tx"] = count["tx"]
  BY <1>1, <1>5, TickCounts DEF VerifyFails
<1> DEFINE Kept ==
      /\ head' = [head EXCEPT ![h] = head'[h]] /\ head'[h] \in Processes
      /\ Shape(head'[h]) /\ Checks(head'[h])
      /\ head'[h].mode \in {p.mode, "rollback"} /\ head'[h].step # "confirm" /\ head'[h].tx = p.tx
<1> SUFFICES Stops(h) \/ Kept
  BY <1>2, <1>3, <1>4, <1>5, StopsQuiet DEF Quiet
<1>a. CASE Send(h)
  <2>1. Goes(h, p.step, p.at, "sent") /\ p.step \in Actions /\ p.at \in Nodes
    BY <1>1, <1>a, SendGoes DEF Send
  <2> QED
    BY <1>1, <1>3, <2>1 DEF Goes, Becomes, Shape, Checks
<1>b. CASE SetupProceeds(h)
  <2>1. p.mode = "setup" /\ p.step \in Forward
    BY <1>b DEF SetupProceeds
  <2>2. NextStep(p.step) \in (Forward \union {"verify"}) /\ StartOf(NextStep(p.step)) \in Nodes
    BY StartOfOK DEF NextStep, Forward
  <2>3. PICK s \in Forward \union {"verify"}, i \in Nodes : Goes(h, s, i, "none")
    BY <1>1, <1>b, <2>1, <2>2, SetupProceedsGoes DEF Base
  <2> QED
    BY <1>1, <2>1, <2>3 DEF Goes, Becomes, Shape, Checks, Forward
<1>c. CASE VerifyPasses(h)
  <2>1. Goes(h, "env", StartOf("env"), "none") \/ Stops(h)
    BY <1>1, <1>c, VerifyPassesGoes
  <2>2. StartOf("env") \in Nodes /\ p.mode \in {"setup", "saveenv"}
    BY <1>1, <1>3, <1>c, StartOfOK DEF VerifyPasses, Shape, Processes
  <2> QED
    BY <1>1, <2>1, <2>2 DEF Goes, Becomes, Shape, Checks
<1>d. CASE VerifyFails(h)
  <2>1. (p.mode = "setup" /\ RollsBack(h)) \/ Stops(h)
    BY <1>1, <1>d, VerifyFailsGoes
  <2> QED
    BY <2>1, RollsBackQuiet DEF Base
<1>e. CASE EnvSaved(h) \/ SaveEnvFails(h)
  BY <1>1, <1>e, StopsOK DEF EnvSaved, SaveEnvFails
<1>f. CASE SetupFails(h)
  BY <1>1, <1>f, RollsBackOK, RollsBackQuiet DEF SetupFails, Base
<1>g. CASE SaveEnvProceeds(h)
  <2>1. \/ Goes(h, "verify", StartOf("verify"), "none")
        \/ \E a \in Nodes : Goes(h, "inspect", a, "none")
    BY <1>1, <1>g, SaveEnvProceedsGoes DEF Base
  <2>2. p.mode = "saveenv"
    BY <1>1, <1>3, <1>g DEF SaveEnvProceeds, Shape, Forward, Processes
  <2> QED
    BY <1>1, <2>1, <2>2 DEF Goes, Becomes, Shape, Checks, Actions, Forward
<1>h. CASE Checked(h)
  <2> DEFINE ready == IF p.call = "ok" THEN p.ready \union {p.at} ELSE p.ready
             failed == p.failed \/ p.call = "error"
  <2>1. p.mode \in {"rollback", "restore"} /\ p.step = "check" /\ p.call \in {"ok", "error"} /\ p.at \in Nodes
    BY <1>1, <1>3, <1>h DEF Checked, Shape, Forward, Processes
  <2>2. \A i \in Nodes : ~failed /\ i > p.at - 1 => i \in ready
    BY <1>1, <2>1, NodesNat DEF Checks
  <2>3. ready \subseteq Nodes
    BY <1>1, <2>1 DEF Processes
  <2>4. CASE Becomes(h, p.mode, "check", p.at - 1, "none", p.tx, ready, failed) /\ p.at > 1
    <3>1. p.at - 1 \in Nodes
      BY <2>1, <2>4, NodesNat
    <3> QED
      BY <1>1, <2>1, <2>2, <2>4, <3>1 DEF Becomes, Shape, Checks
  <2>5. CASE /\ p.at = 1 /\ ~(failed /\ p.mode = "restore")
             /\ Becomes(h, p.mode, "restore", NNodes, "none", p.tx, ready, failed)
    <3>1. ASSUME ~failed PROVE ready = Nodes
      <4>1. \A i \in Nodes : i > p.at - 1
        BY <2>5, NodesNat
      <4>2. \A i \in Nodes : i \in ready
        BY <2>2, <3>1, <4>1
      <4> HIDE DEF ready
      <4> QED
        BY <2>3, <4>2
    <3> QED
      BY <1>1, <2>1, <2>5, <3>1 DEF Becomes, Shape, Checks
  <2> QED
    BY <1>1, <1>h, <2>4, <2>5, CheckedGoes DEF Base
<1>i. CASE SkipNode(h)
  <2>1. Goes(h, "restore", p.at - 1, "none") /\ p.step = "restore"
    BY <1>1, <1>i, SkipNodeGoes DEF SkipNode
  <2> QED
    BY <1>1, <2>1 DEF Goes, Becomes, Shape, Checks
<1>j. CASE Restored(h)
  <2>1. Becomes(h, p.mode, "restore", p.at - 1, "none", p.tx, p.ready, p.failed \/ p.call = "error")
    BY <1>1, <1>j, RestoredGoes DEF Base
  <2> QED
    BY <1>1, <1>j, <2>1 DEF Becomes, Shape, Checks, Restored
<1> QED
  BY <1>a, <1>b, <1>c, <1>d, <1>e, <1>f, <1>g, <1>h, <1>i, <1>j DEF Quietly

\* What a step that changes one head's process to a good one keeps.
LEMMA OneHead ==
  ASSUME NEW h \in Heads, Base,
         head' = [head EXCEPT ![h] = head'[h]], head'[h] \in Processes,
         Shape(head'[h]), Checks(head'[h])
  PROVE  /\ head' \in [Heads -> Processes] /\ Shaped' /\ Checking'
         /\ \A g \in Heads \ {h} : head'[g] = head[g]
<1>1. head \in [Heads -> Processes]
  BY DEF Base, TypeOK
<1>2. \A g \in Heads \ {h} : head'[g] = head[g]
  BY <1>1
<1>3. head' \in [Heads -> Processes]
  BY <1>1
<1>4. Shaped'
  BY <1>2 DEF Base, Shaped
<1>5. Checking'
  BY <1>2 DEF Base, Checking
<1> QED
  BY <1>2, <1>3, <1>4, <1>5

\* A quiet step keeps the base invariant.
LEMMA QuietBase ==
  ASSUME NEW h \in Heads, Base, Quiet(h)
  PROVE  Base' /\ \A g \in Heads \ {h} : head'[g] = head[g]
<1>1. head' \in [Heads -> Processes] /\ Shaped' /\ Checking' /\ \A g \in Heads \ {h} : head'[g] = head[g]
  BY OneHead DEF Quiet
<1>2. TypeOK'
  BY <1>1 DEF Quiet, Base, TypeOK, Others, Counting
<1>3. Serving'
  <2>1. \A n \in Nodes : lock[n].head # h
    BY ClusterAssumption DEF Quiet, Base, Serving, Attended
  <2>2. \A n \in Nodes : lock[n].head \in Heads \union {NoHead}
    BY DEF Base, TypeOK, Requests
  <2> QED
    BY <1>1, <2>1, <2>2 DEF Quiet, Others, Base, Serving, Attended, Node
<1> QED
  BY <1>1, <1>2, <1>3 DEF Base

\* A head that stops waiting.
GivesUp(h) == TimeOut(h) \/ Interrupt(h) \/ Killed(h)

Drops(h) ==
  /\ UNCHANGED <<manifest, journal, changed, drift, strays>>
  /\ count' \in Counting /\ count'["tx"] = count["tx"]
  /\ Dropped(h)
  /\ head' = [head EXCEPT ![h] = head'[h]] /\ head'[h] \in Processes
  /\ Shape(head'[h]) /\ Checks(head'[h])
  /\ head'[h].call \in {"none", "error"}
  /\ \/ head'[h].mode = "off" /\ head'[h].tx = 0 /\ head'[h].step = "none"
     \/ /\ head[h].mode # "off" /\ head[h].step # "confirm"
        /\ head'[h].mode \in {head[h].mode, "rollback"}
        /\ head'[h].step # "confirm" /\ head'[h].tx = head[h].tx

\* Whatever a head gives up, it leaves its own process in order.
LEMMA GivesUpStep ==
  ASSUME NEW h \in Heads, Base, GivesUp(h)
  PROVE  Drops(h)
<1> DEFINE p == head[h]
<1>1. head \in [Heads -> Processes] /\ p \in Processes /\ Shape(p) /\ Checks(p) /\ count \in Counting
  BY DEF Base, TypeOK, Shaped, Checking, Counting
<1>2. UNCHANGED <<manifest, journal, changed, drift, strays>> /\ Dropped(h)
  BY DEF GivesUp, TimeOut, Interrupt, Killed, nodeVars
<1>3. count' \in Counting /\ count'["tx"] = count["tx"]
  BY <1>1, TickCounts DEF GivesUp, TimeOut, Interrupt, Killed
<1>4. CASE TimeOut(h)
  <2>1. head' = [head EXCEPT ![h].call = "error"] /\ p.call \in {"sent", "running"}
    BY <1>4 DEF TimeOut
  <2>2. head'[h] \in Processes
    BY <1>1, <2>1 DEF Processes
  <2>3. Goes(h, p.step, p.at, "error")
    BY <1>1, <2>1, <2>2 DEF Goes, Becomes, Processes
  <2>4. p.step \in Actions /\ p.at \in Nodes /\ p.mode # "off"
    BY <1>1, <2>1 DEF Shape, Actions, Forward
  <2>5. Shape(head'[h]) /\ Checks(head'[h])
    BY <1>1, <2>3, <2>4 DEF Goes, Becomes, Shape, Checks
  <2>6. head[h].step # "confirm"
    BY <2>4 DEF Actions, Forward
  <2> QED
    BY <1>2, <1>3, <2>3, <2>4, <2>5, <2>6 DEF Drops, Goes, Becomes
<1>5. CASE Interrupt(h)
  <2>1. RollsBack(h) /\ p.mode = "setup" /\ p.step # "confirm"
    BY <1>1, <1>5, RollsBackOK DEF Interrupt
  <2>2. head'[h].call = "none"
    BY <2>1 DEF RollsBack, Becomes
  <2> QED
    BY <1>2, <1>3, <2>1, <2>2, RollsBackQuiet DEF Drops, Base
<1>6. CASE Killed(h)
  <2>1. Stops(h)
    BY <1>1, <1>6, StopsOK DEF Killed
  <2>2. head'[h].call = "none"
    BY <2>1 DEF Stops, Becomes
  <2> QED
    BY <1>2, <1>3, <2>1, <2>2, StopsQuiet DEF Drops
<1> QED
  BY <1>4, <1>5, <1>6 DEF GivesUp

\* What giving up leaves behind: a call that runs on unattended, or one that starts late.
LEMMA DroppedLeaves ==
  ASSUME NEW h \in Heads, Base, Dropped(h)
  PROVE  /\ lock' \in [Nodes -> Requests]
         /\ late' \in SUBSET [node : Nodes, action : Actions, tx : Tx]
         /\ \A n \in Nodes :
              /\ lock'[n].action = lock[n].action /\ lock'[n].tx = lock[n].tx
              /\ lock'[n].head \in {lock[n].head, NoHead} /\ lock'[n].head # h
              /\ lock'[n] # Free => lock[n] # Free
         /\ \A r \in late' \ late : r.action = head[h].step /\ r.tx = head[h].tx /\ head[h].step \in Actions
<1> DEFINE p == head[h]
<1>1. p \in Processes /\ Shape(p) /\ lock \in [Nodes -> Requests]
  BY DEF Base, TypeOK, Shaped
<1>2. CASE p.call = "running"
  <2>1. Node(h) \in Nodes
    BY <1>1, <1>2, ClusterAssumption DEF Shape, Node
  <2>2. lock' = [lock EXCEPT ![Node(h)].head = NoHead] /\ late' = late
    BY <1>2 DEF Dropped
  <2>3. \A n \in Nodes : lock[n].head = h => Node(h) = n
    BY ClusterAssumption DEF Base, Serving, Attended
  <2>4. lock' \in [Nodes -> Requests]
    BY <1>1, <2>1, <2>2 DEF Requests
  <2>5. \A n \in Nodes :
              /\ lock'[n].action = lock[n].action /\ lock'[n].tx = lock[n].tx
              /\ lock'[n].head \in {lock[n].head, NoHead} /\ lock'[n].head # h
    BY <1>1, <2>1, <2>2, <2>3, ClusterAssumption DEF Requests
  <2>6. \A n \in Nodes : lock[n] = Free => lock'[n] = Free
    BY <1>1, <2>1, <2>2 DEF Requests, Free
  <2>7. late' \in SUBSET [node : Nodes, action : Actions, tx : Tx]
    BY <2>2 DEF Base, TypeOK
  <2> QED
    BY <2>2, <2>4, <2>5, <2>6, <2>7
<1>3. CASE p.call # "running"
  <2>1. lock' = lock
    BY <1>3 DEF Dropped
  <2>2. \A n \in Nodes : lock[n].head # h
    BY <1>3, ClusterAssumption DEF Base, Serving, Attended
  <2>3. late' = late \/ (p.call = "sent" /\ late' = late \union {Request(h)})
    BY DEF Dropped
  <2>4. ASSUME p.call = "sent"
        PROVE  Request(h) \in [node : Nodes, action : Actions, tx : Tx] /\ p.step \in Actions
    <3>1. p.step \in Actions /\ p.at \in Nodes /\ p.tx \in Tx
      BY <1>1, <2>4 DEF Shape, Actions, Forward
    <3>2. Node(h) \in Nodes
      BY <3>1, ClusterAssumption DEF Node
    <3> QED
      BY <3>1, <3>2 DEF Request
  <2>5. late \in SUBSET [node : Nodes, action : Actions, tx : Tx]
    BY DEF Base, TypeOK
  <2>6. late' \in SUBSET [node : Nodes, action : Actions, tx : Tx]
    BY <2>3, <2>4, <2>5
  <2>7. \A r \in late' \ late : r.action = p.step /\ r.tx = p.tx /\ p.step \in Actions
    BY <2>3, <2>4 DEF Request
  <2> QED
    BY <1>1, <2>1, <2>2, <2>3, <2>6, <2>7
<1> QED
  BY <1>2, <1>3

\* A call given up disturbs nobody else.
LEMMA DropsBase ==
  ASSUME NEW h \in Heads, Base, Drops(h)
  PROVE  Base' /\ \A g \in Heads \ {h} : head'[g] = head[g]
<1>1. head' \in [Heads -> Processes] /\ Shaped' /\ Checking' /\ \A g \in Heads \ {h} : head'[g] = head[g]
  BY OneHead DEF Drops
<1>2. Dropped(h)
  BY DEF Drops
<1>3. TypeOK'
  BY <1>1, <1>2, DroppedLeaves DEF Drops, Base, TypeOK, Counting
<1>4. Serving'
  <2> SUFFICES ASSUME NEW n \in Nodes PROVE Attended(n)'
    BY DEF Serving
  <2>2. lock[n].head \in Heads \union {NoHead}
    BY DEF Base, TypeOK, Requests
  <2>3. lock'[n] # Free => lock'[n].action \in Actions /\ lock'[n].tx \in Tx
    BY <1>2, DroppedLeaves DEF Base, Serving, Attended
  <2>4. ASSUME lock'[n].head # NoHead
        PROVE  /\ head'[lock'[n].head].call = "running" /\ Node(lock[n].head)' = n
               /\ lock'[n].action = head'[lock'[n].head].step /\ lock'[n].tx = head'[lock'[n].head].tx
               /\ lock'[n].head = lock[n].head
    <3>1. lock'[n].head = lock[n].head /\ lock[n].head \in Heads \ {h}
      BY <1>2, <2>2, <2>4, DroppedLeaves
    <3>2. head'[lock[n].head] = head[lock[n].head]
      BY <1>1, <3>1
    <3> QED
      BY <1>2, <2>4, <3>1, <3>2, DroppedLeaves DEF Base, Serving, Attended, Node
  <2> QED
    BY <2>3, <2>4 DEF Attended
<1> QED
  BY <1>1, <1>3, <1>4 DEF Base

\* What a handler that ran, to its end or not, has done to its node.
Effect(n) ==
  LET r == lock[n] IN
  /\ journal' \in [Nodes -> 0..MaxTx] /\ changed' \in [Nodes -> SUBSET (Forward \union {"env"})]
  /\ \A m \in Nodes \ {n} : journal'[m] = journal[m] /\ changed'[m] = changed[m]
  /\ \/ journal'[n] = journal[n]
     \/ r.action = "prepare" /\ journal[n] = 0 /\ journal'[n] = r.tx
     \/ r.action = "restore" /\ journal[n] = r.tx /\ journal'[n] = 0
  /\ \/ changed[n] \subseteq changed'[n]
     \/ r.action = "prepare" /\ journal[n] = 0
     \/ r.action = "restore" /\ journal[n] \in {0, r.tx}

\* A handler that ends well has done what was asked; one that fails has done part of it.
LEMMA ServeEffect ==
  ASSUME NEW n \in Nodes, Base, Serve(n)
  PROVE  /\ Effect(n)
         /\ lock[n].action \in Forward => journal'[n] = lock[n].tx /\ lock[n].action \in changed'[n]
         /\ lock[n].action = "restore" => journal'[n] = 0
<1> DEFINE r == lock[n]
<1>1. r.action \in Actions /\ r.tx \in Tx /\ Accepts(n, r) /\ Complete(n, r)
  BY DEF Serve, Base, Serving, Attended
<1>2. journal \in [Nodes -> 0..MaxTx] /\ changed \in [Nodes -> SUBSET (Forward \union {"env"})] /\ r.tx \in 0..MaxTx
  BY <1>1 DEF Base, TypeOK, Tx
<1>3. 0 \in 0..MaxTx /\ r.tx # 0
  BY <1>1, ClusterAssumption DEF Tx
<1>4. CASE r.action = "prepare"
  <2>1. journal[n] = 0
    BY <1>1, <1>4 DEF Accepts
  <2>2. journal' = [journal EXCEPT ![n] = r.tx] /\ changed' = [changed EXCEPT ![n] = {"prepare"}]
    BY <1>1, <1>4 DEF Complete
  <2> HIDE DEF r
  <2> QED
    BY <1>2, <1>4, <2>1, <2>2 DEF Effect, Forward, r
<1>5. CASE r.action \in {"docker", "ssh", "network", "env"}
  <2>1. journal[n] = r.tx
    BY <1>1, <1>5 DEF Accepts
  <2>2. journal' = journal /\ changed' = [changed EXCEPT ![n] = @ \union {r.action}]
    BY <1>1, <1>5 DEF Complete
  <2> QED
    BY <1>2, <1>5, <2>1, <2>2 DEF Effect, Forward
<1>6. CASE r.action = "restore"
  <2>1. journal[n] = 0 \/ journal[n] = r.tx
    BY <1>1, <1>6 DEF Accepts
  <2>2. journal' = [journal EXCEPT ![n] = 0] /\ changed' = [changed EXCEPT ![n] = {}]
    BY <1>1, <1>6 DEF Complete
  <2> QED
    BY <1>2, <1>3, <1>6, <2>1, <2>2 DEF Effect, Forward
<1>7. CASE r.action \in {"check", "inspect"}
  <2>1. journal' = journal /\ changed' = changed
    BY <1>1, <1>7 DEF Complete
  <2> QED
    BY <1>2, <1>7, <2>1 DEF Effect, Forward
<1> QED
  BY <1>1, <1>4, <1>5, <1>6, <1>7 DEF Actions, Forward

LEMMA FailEffect ==
  ASSUME NEW n \in Nodes, Base, Fail(n)
  PROVE  Effect(n)
<1> DEFINE r == lock[n]
<1>1. r.action \in Actions /\ r.tx \in Tx /\ Accepts(n, r)
  BY DEF Fail, Base, Serving, Attended
<1>2. journal \in [Nodes -> 0..MaxTx] /\ changed \in [Nodes -> SUBSET (Forward \union {"env"})] /\ r.tx \in 0..MaxTx
  BY <1>1 DEF Base, TypeOK, Tx
<1>3. CASE journal' = journal /\ changed' = changed
  BY <1>2, <1>3 DEF Effect
<1>4. CASE Partial(n, r)
  <2>1. CASE r.action = "prepare"
    <3>1. journal[n] = 0
      BY <1>1, <2>1 DEF Accepts
    <3>2. journal' = [journal EXCEPT ![n] = r.tx] /\ changed' \in {changed, [changed EXCEPT ![n] = {"prepare"}]}
      BY <1>4, <2>1 DEF Partial
    <3> HIDE DEF r
    <3> QED
      BY <1>2, <2>1, <3>1, <3>2 DEF Effect, Forward, r
  <2>2. CASE r.action \in {"docker", "ssh", "network", "env"}
    <3>1. journal' = journal /\ changed' \in {changed, [changed EXCEPT ![n] = @ \union {r.action}]}
      BY <1>4, <2>2 DEF Partial
    <3> QED
      BY <1>2, <2>2, <3>1 DEF Effect, Forward
  <2>3. CASE r.action = "restore"
    <3>1. journal[n] = 0 \/ journal[n] = r.tx
      BY <1>1, <2>3 DEF Accepts
    <3>2. /\ journal' = journal
          /\ changed' \in {changed, [changed EXCEPT ![n] = @ \ {"network"}], [changed EXCEPT ![n] = {}]}
      BY <1>4, <2>3 DEF Partial
    <3> QED
      BY <1>2, <2>3, <3>1, <3>2 DEF Effect, Forward
  <2>4. CASE r.action \in {"check", "inspect"}
    BY <1>2, <1>4, <2>4 DEF Effect, Partial
  <2> QED
    BY <1>1, <2>1, <2>2, <2>3, <2>4 DEF Actions, Forward
<1> QED
  BY <1>3, <1>4 DEF Fail

\* The head whose request is answered, if it still waits, reads the answer.
Answered(n, g, result) ==
  /\ lock[n].head = g /\ head[g].call = "running" /\ Node(g) = n
  /\ head[g].step = lock[n].action /\ head[g].tx = lock[n].tx
  /\ Goes(g, head[g].step, head[g].at, result)

\* The answer reaches the head that waits for it, and no other.
LEMMA ReplyGoes ==
  ASSUME NEW n \in Nodes, NEW result \in {"ok", "error"}, Base, Reply(n, result)
  PROVE  /\ head' \in [Heads -> Processes] /\ lock' \in [Nodes -> Requests]
         /\ Shaped' /\ Checking' /\ Serving'
         /\ lock' = [lock EXCEPT ![n] = Free]
         /\ \A g \in Heads : head'[g] = head[g] \/ Answered(n, g, result)
<1>1. lock \in [Nodes -> Requests] /\ head \in [Heads -> Processes] /\ lock' = [lock EXCEPT ![n] = Free]
  BY DEF Base, TypeOK, Reply
<1>2. Free \in Requests
  BY ClusterAssumption DEF Free, Requests
<1>3. lock' \in [Nodes -> Requests] /\ \A m \in Nodes \ {n} : lock'[m] = lock[m]
  BY <1>1, <1>2
<1>4. lock'[n] = Free /\ Free.head = NoHead
  BY <1>1 DEF Free
<1>5. CASE lock[n].head = NoHead
  <2>1. head' = head
    BY <1>5 DEF Reply
  <2>2. Serving'
    BY <1>3, <1>4, <2>1 DEF Base, Serving, Attended, Node
  <2> QED
    BY <1>1, <1>3, <2>1, <2>2 DEF Base, Shaped, Checking
<1>6. CASE lock[n].head # NoHead
  <2> DEFINE g == lock[n].head  p == head[g]
  <2>1. g \in Heads /\ p.call = "running" /\ Node(g) = n /\ p.step = lock[n].action /\ p.tx = lock[n].tx
    BY <1>1, <1>6 DEF Base, Serving, Attended, Requests
  <2>2. head' = [head EXCEPT ![g].call = result]
    BY <1>6 DEF Reply
  <2>3. p \in Processes /\ Shape(p) /\ Checks(p)
    BY <1>1, <2>1 DEF Base, Shaped, Checking
  <2>4. head'[g] \in Processes
    BY <1>1, <2>1, <2>2, <2>3 DEF Processes
  <2>5. Goes(g, p.step, p.at, result)
    BY <1>1, <2>1, <2>2, <2>3, <2>4 DEF Goes, Becomes, Processes
  <2>6. Shape(head'[g]) /\ Checks(head'[g])
    BY <2>1, <2>3, <2>5 DEF Goes, Becomes, Shape, Checks
  <2>7. /\ head' \in [Heads -> Processes] /\ Shaped' /\ Checking'
        /\ \A x \in Heads \ {g} : head'[x] = head[x]
    BY <2>1, <2>5, <2>6, OneHead DEF Goes, Becomes
  <2>8. \A m \in Nodes \ {n} : lock[m].head \in (Heads \ {g}) \union {NoHead}
    BY <1>1, <2>1 DEF Base, Serving, Attended, Requests
  <2>9. Serving'
    BY <1>3, <1>4, <2>7, <2>8 DEF Base, Serving, Attended, Node
  <2>10. Answered(n, g, result)
    BY <2>1, <2>5 DEF Answered
  <2> QED
    BY <1>1, <1>3, <2>7, <2>9, <2>10
<1> QED
  BY <1>5, <1>6

\* A node that answers.
LEMMA AnswerBase ==
  ASSUME NEW n \in Nodes, Base, Serve(n) \/ Refuse(n) \/ Fail(n)
  PROVE  /\ Base' /\ UNCHANGED <<manifest, late, strays>> /\ count'["tx"] = count["tx"]
         /\ lock' = [lock EXCEPT ![n] = Free]
         /\ Effect(n) \/ UNCHANGED <<journal, changed>>
         /\ \/ Serve(n) /\ \A g \in Heads : head'[g] = head[g] \/ Answered(n, g, "ok")
            \/ ~Serve(n) /\ \A g \in Heads : head'[g] = head[g] \/ Answered(n, g, "error")
<1>1. count \in Counting /\ journal \in [Nodes -> 0..MaxTx] /\ changed \in [Nodes -> SUBSET (Forward \union {"env"})]
  BY DEF Base, TypeOK, Counting
<1>2. UNCHANGED <<manifest, late, strays>> /\ drift' \in [Nodes -> SUBSET Drifts]
  <2>1. drift \in [Nodes -> SUBSET Drifts] /\ "noid" \in Drifts
    BY DEF Base, TypeOK, Drifts
  <2>2. CASE Serve(n)
    BY <2>1, <2>2 DEF Serve
  <2>3. CASE Refuse(n)
    BY <2>1, <2>3 DEF Refuse, nodeVars
  <2>4. CASE Fail(n)
    <3>1. drift' \in {drift, [drift EXCEPT ![n] = @ \union {"noid"}]} /\ UNCHANGED <<manifest, late, strays>>
      BY <2>4 DEF Fail
    <3> QED
      BY <2>1, <3>1
  <2> QED
    BY <2>2, <2>3, <2>4
<1>3. count' \in Counting /\ count'["tx"] = count["tx"]
  BY <1>1, TickCounts DEF Serve, Refuse, Fail
<1>4. \/ Serve(n) /\ Reply(n, "ok")
      \/ ~Serve(n) /\ Reply(n, "error")
  BY DEF Serve, Refuse, Fail
<1>5. Effect(n) \/ UNCHANGED <<journal, changed>>
  BY ServeEffect, FailEffect DEF Refuse, nodeVars
<1>6. journal' \in [Nodes -> 0..MaxTx] /\ changed' \in [Nodes -> SUBSET (Forward \union {"env"})]
  BY <1>1, <1>5 DEF Effect
<1>7. /\ head' \in [Heads -> Processes] /\ lock' \in [Nodes -> Requests]
      /\ Shaped' /\ Checking' /\ Serving' /\ lock' = [lock EXCEPT ![n] = Free]
  BY <1>4, ReplyGoes
<1>8. TypeOK'
  BY <1>2, <1>3, <1>6, <1>7 DEF Base, TypeOK, Counting
<1>9. \/ Serve(n) /\ \A g \in Heads : head'[g] = head[g] \/ Answered(n, g, "ok")
      \/ ~Serve(n) /\ \A g \in Heads : head'[g] = head[g] \/ Answered(n, g, "error")
  BY <1>4, ReplyGoes
<1> QED
  BY <1>2, <1>3, <1>5, <1>7, <1>8, <1>9 DEF Base

\* A call that reaches its node: it is served, or fails because the node is busy.
LEMMA ArriveGoes ==
  ASSUME NEW h \in Heads, Base, Arrive(h)
  PROVE  /\ Base' /\ Node(h) \in Nodes /\ head[h].step \in Actions
         /\ head[h].mode # "off" /\ head[h].step # "confirm"
         /\ UNCHANGED <<manifest, journal, changed, late, strays, count>>
         /\ \A g \in Heads \ {h} : head'[g] = head[g]
         /\ \A n \in Nodes : lock'[n] = lock[n]
              \/ (n = Node(h) /\ lock'[n] = [action |-> head[h].step, tx |-> head[h].tx, head |-> h])
         /\ \E call \in {"running", "error"} : Goes(h, head[h].step, head[h].at, call)
<1> DEFINE p == head[h]
           n == Node(h)
           request == [action |-> p.step, tx |-> p.tx, head |-> h]
<1>1. head \in [Heads -> Processes] /\ p \in Processes /\ Shape(p) /\ Checks(p) /\ lock \in [Nodes -> Requests]
  BY DEF Base, TypeOK, Shaped, Checking
<1>2. p.call = "sent" /\ UNCHANGED <<manifest, journal, changed, drift, late, strays, count>>
  BY DEF Arrive, nodeVars
<1>3. p.step \in Actions /\ p.at \in Nodes /\ p.mode # "off" /\ p.tx \in Tx
  BY <1>1, <1>2 DEF Shape, Actions, Forward
<1>4. n \in Nodes /\ request \in Requests
  <2>1. n \in Nodes
    BY <1>3, ClusterAssumption DEF Node
  <2>2. p.tx \in 0..MaxTx
    BY <1>1 DEF Processes
  <2> QED
    BY <1>3, <2>1, <2>2 DEF Requests
<1>5. \A m \in Nodes : lock[m].head # h /\ lock[m].head \in Heads \union {NoHead}
  BY <1>1, <1>2, ClusterAssumption DEF Base, Serving, Attended, Requests
<1>6. ASSUME NEW call \in {"running", "error"}, head' = [head EXCEPT ![h].call = call]
      PROVE  /\ Goes(h, p.step, p.at, call)
             /\ head' \in [Heads -> Processes] /\ Shaped' /\ Checking'
             /\ \A g \in Heads \ {h} : head'[g] = head[g]
  <2>1. head'[h] \in Processes
    BY <1>1, <1>6 DEF Processes
  <2>2. Goes(h, p.step, p.at, call)
    BY <1>1, <1>6, <2>1 DEF Goes, Becomes, Processes
  <2>3. Shape(head'[h]) /\ Checks(head'[h])
    BY <1>1, <1>3, <2>2 DEF Goes, Becomes, Shape, Checks
  <2> QED
    BY <2>2, <2>3, OneHead DEF Goes, Becomes
<1>7. CASE lock[n] = Free
  <2>1. lock' = [lock EXCEPT ![n] = request] /\ head' = [head EXCEPT ![h].call = "running"]
    BY <1>7 DEF Arrive
  <2>2. Goes(h, p.step, p.at, "running") /\ head' \in [Heads -> Processes] /\ Shaped' /\ Checking'
        /\ \A g \in Heads \ {h} : head'[g] = head[g]
    BY <1>6, <2>1
  <2>3. TypeOK'
    BY <1>1, <1>2, <1>4, <2>1, <2>2 DEF Base, TypeOK
  <2>4. Serving'
    <3>1. SUFFICES ASSUME NEW m \in Nodes PROVE Attended(m)'
      BY DEF Serving
    <3>2. CASE m = n
      <4>1. lock'[m] = request
        BY <1>1, <1>4, <2>1, <3>2
      <4>2. Node(h)' = n
        BY <2>2 DEF Goes, Becomes, Node
      <4> QED
        BY <1>3, <2>2, <3>2, <4>1, <4>2 DEF Goes, Becomes, Attended
    <3>3. CASE m # n
      <4>1. lock'[m] = lock[m]
        BY <1>1, <2>1, <3>3
      <4>2. lock[m].head # NoHead => head'[lock[m].head] = head[lock[m].head]
        BY <1>5, <2>2
      <4> QED
        BY <4>1, <4>2 DEF Base, Serving, Attended, Node
    <3> QED
      BY <3>2, <3>3
  <2>5. p.step # "confirm"
    BY <1>3 DEF Actions, Forward
  <2> QED
    BY <1>1, <1>2, <1>3, <1>4, <2>1, <2>2, <2>3, <2>4, <2>5 DEF Base
<1>8. CASE lock[n] # Free
  <2>1. lock' = lock /\ head' = [head EXCEPT ![h].call = "error"]
    BY <1>8 DEF Arrive
  <2>2. Goes(h, p.step, p.at, "error") /\ head' \in [Heads -> Processes] /\ Shaped' /\ Checking'
        /\ \A g \in Heads \ {h} : head'[g] = head[g]
    BY <1>6, <2>1
  <2>3. TypeOK'
    BY <1>1, <1>2, <2>1, <2>2 DEF Base, TypeOK
  <2>4. Serving'
    BY <1>5, <2>1, <2>2 DEF Base, Serving, Attended, Node
  <2>5. p.step # "confirm"
    BY <1>3 DEF Actions, Forward
  <2> QED
    BY <1>2, <1>3, <1>4, <2>1, <2>2, <2>3, <2>4, <2>5 DEF Base
<1> QED
  BY <1>7, <1>8

\* A call given up that starts after all.
LEMMA LateArriveGoes ==
  ASSUME NEW r \in late, Base, LateArrive(r)
  PROVE  /\ Base'
         /\ UNCHANGED <<manifest, head, journal, changed, count>>
         /\ late' = late \ {r} /\ r.node \in Nodes
         /\ \A n \in Nodes : lock'[n] = lock[n]
              \/ (n = r.node /\ lock'[n] = [action |-> r.action, tx |-> r.tx, head |-> NoHead])
<1> DEFINE request == [action |-> r.action, tx |-> r.tx, head |-> NoHead]
<1>1. r.node \in Nodes /\ r.action \in Actions /\ r.tx \in Tx
  BY DEF Base, TypeOK
<1>2. UNCHANGED <<manifest, head, journal, changed, drift, count>> /\ late' = late \ {r}
  BY DEF LateArrive, nodeVars
<1>3. lock \in [Nodes -> Requests] /\ request \in Requests
  BY <1>1, ClusterAssumption DEF Base, TypeOK, Requests, Tx
<1>4. lock' = lock \/ lock' = [lock EXCEPT ![r.node] = request]
  BY DEF LateArrive
<1>5. \A n \in Nodes : lock'[n] = lock[n] \/ (n = r.node /\ lock'[n] = request)
  BY <1>1, <1>3, <1>4
<1>6. TypeOK'
  <2>1. strays' \in SUBSET (Nodes \X Tx)
    BY <1>1 DEF Base, TypeOK, LateArrive
  <2>2. lock' \in [Nodes -> Requests]
    BY <1>1, <1>3, <1>4
  <2> QED
    BY <1>2, <2>1, <2>2 DEF Base, TypeOK
<1>7. Serving'
  BY <1>1, <1>2, <1>5 DEF Base, Serving, Attended, Node
<1> QED
  BY <1>1, <1>2, <1>5, <1>6, <1>7 DEF Base, Shaped, Checking

LEMMA ManifestType ==
  ASSUME manifest \in [Files -> 0..Torn], NEW f, NEW t \in Tx \union {0, Torn},
         manifest' = [manifest EXCEPT ![f] = t]
  PROVE  manifest' \in [Files -> 0..Torn]
<1>1. MaxTx \in Nat
  BY ClusterAssumption
<1>2. t \in 0..Torn
  BY <1>1 DEF Tx, Torn
<1> QED
  BY <1>2

\* The manifest is written, or found: the head prepares its first node, or stops.
LEMMA SaveManifestGoes ==
  ASSUME NEW h \in Heads, Base, SaveManifest(h)
  PROVE  /\ Base' /\ UNCHANGED <<journal, changed, lock, late, strays, count>>
         /\ head[h].mode = "setup"
         /\ \A g \in Heads \ {h} : head'[g] = head[g]
         /\ \/ manifest' = manifest /\ manifest[StateFile[h]] # 0 /\ Stops(h)
            \/ /\ manifest[StateFile[h]] = 0
               /\ manifest' = [manifest EXCEPT ![StateFile[h]] = head[h].tx]
               /\ Goes(h, "prepare", StartOf("prepare"), "none")
<1> DEFINE p == head[h]
<1>1. head \in [Heads -> Processes] /\ p \in Processes /\ Shape(p) /\ manifest \in [Files -> 0..Torn]
  BY DEF Base, TypeOK, Shaped
<1>2. p.step = "confirm" /\ p.mode = "setup" /\ p.tx \in Tx /\ p.call = "none"
  BY <1>1 DEF SaveManifest, Shape, Processes, Actions, Forward
<1>3. UNCHANGED <<journal, changed, drift, lock, late, strays, count>>
  BY DEF SaveManifest, nodeVars
<1>4. \A n \in Nodes : lock[n].head # h /\ lock[n].head \in Heads \union {NoHead}
  BY <1>2, ClusterAssumption DEF Base, Serving, Attended, TypeOK, Requests
<1>5. CASE manifest[StateFile[h]] # 0
  <2>1. manifest' = manifest /\ Stops(h)
    BY <1>1, <1>5, StopsOK DEF SaveManifest
  <2>2. head' \in [Heads -> Processes] /\ Shaped' /\ Checking' /\ \A g \in Heads \ {h} : head'[g] = head[g]
    BY <2>1, StopsQuiet, OneHead
  <2>3. TypeOK' /\ Serving'
    BY <1>3, <1>4, <2>1, <2>2 DEF Base, TypeOK, Serving, Attended, Node
  <2> QED
    BY <1>2, <1>3, <1>5, <2>1, <2>2, <2>3 DEF Base
<1>6. CASE manifest[StateFile[h]] = 0
  <2>1. manifest' = [manifest EXCEPT ![StateFile[h]] = p.tx] /\ Goes(h, "prepare", StartOf("prepare"), "none")
    BY <1>1, <1>6, AtOK DEF SaveManifest, Steps, Actions, Forward
  <2>2. Shape(head'[h]) /\ Checks(head'[h])
    BY <1>2, <2>1, StartOfOK DEF Goes, Becomes, Shape, Checks, Forward
  <2>3. head' \in [Heads -> Processes] /\ Shaped' /\ Checking' /\ \A g \in Heads \ {h} : head'[g] = head[g]
    BY <2>1, <2>2, OneHead DEF Goes, Becomes
  <2>4. manifest' \in [Files -> 0..Torn]
    BY <1>1, <1>2, <2>1, ManifestType
  <2>5. TypeOK' /\ Serving'
    BY <1>3, <1>4, <2>3, <2>4 DEF Base, TypeOK, Serving, Attended, Node
  <2> QED
    BY <1>2, <1>3, <1>6, <2>1, <2>3, <2>5 DEF Base
<1> QED
  BY <1>5, <1>6

\* The end of a restore, and a kill while the manifest is written.
LEMMA RestoreEndsGoes ==
  ASSUME NEW h \in Heads, Base, RestoreEnds(h)
  PROVE  /\ Base' /\ UNCHANGED <<journal, changed, lock, late, strays, count>> /\ Stops(h)
         /\ head[h].mode # "off" /\ head[h].step = "restore" /\ head[h].at = 0
         /\ manifest' = IF head[h].failed THEN manifest ELSE [manifest EXCEPT ![StateFile[h]] = 0]
         /\ \A g \in Heads \ {h} : head'[g] = head[g]
<1> DEFINE p == head[h]
<1>1. head \in [Heads -> Processes] /\ p \in Processes /\ Shape(p) /\ manifest \in [Files -> 0..Torn]
  BY DEF Base, TypeOK, Shaped
<1>2. p.step = "restore" /\ p.at = 0 /\ p.mode # "off" /\ p.call = "none"
  <2>1. p.step = "restore" /\ p.at = 0
    BY DEF RestoreEnds
  <2>2. 0 \notin Nodes
    BY NodesNat
  <2> QED
    BY <1>1, <2>1, <2>2 DEF Shape
<1>3. UNCHANGED <<journal, changed, drift, lock, late, strays, count>>
  BY DEF RestoreEnds, nodeVars
<1>4. manifest' = IF p.failed THEN manifest ELSE [manifest EXCEPT ![StateFile[h]] = 0]
  BY DEF RestoreEnds
<1>5. Stops(h)
  BY <1>1, StopsOK DEF RestoreEnds
<1>6. head' \in [Heads -> Processes] /\ Shaped' /\ Checking' /\ \A g \in Heads \ {h} : head'[g] = head[g]
  BY <1>5, StopsQuiet, OneHead
<1>7. manifest' \in [Files -> 0..Torn]
  BY <1>1, <1>4, ManifestType
<1>8. \A n \in Nodes : lock[n].head # h /\ lock[n].head \in Heads \union {NoHead}
  BY <1>2, ClusterAssumption DEF Base, Serving, Attended, TypeOK, Requests
<1>9. TypeOK' /\ Serving'
  BY <1>3, <1>6, <1>7, <1>8 DEF Base, TypeOK, Serving, Attended, Node
<1> QED
  BY <1>2, <1>3, <1>4, <1>5, <1>6, <1>9 DEF Base

LEMMA KilledInSaveGoes ==
  ASSUME NEW h \in Heads, Base, KilledInSave(h)
  PROVE  /\ Base' /\ UNCHANGED <<journal, changed, lock, late, strays>> /\ count'["tx"] = count["tx"] /\ Stops(h)
         /\ head[h].mode = "setup" /\ manifest[StateFile[h]] = 0
         /\ manifest' = [manifest EXCEPT ![StateFile[h]] = Torn]
         /\ \A g \in Heads \ {h} : head'[g] = head[g]
<1> DEFINE p == head[h]
<1>1. /\ head \in [Heads -> Processes] /\ p \in Processes /\ Shape(p) /\ manifest \in [Files -> 0..Torn]
      /\ count \in Counting
  BY DEF Base, TypeOK, Shaped, Counting
<1>2. p.step = "confirm" /\ p.mode = "setup" /\ p.call = "none"
  BY <1>1 DEF KilledInSave, Shape, Processes, Actions, Forward
<1>3. UNCHANGED <<journal, changed, drift, lock, late, strays>> /\ manifest[StateFile[h]] = 0
      /\ manifest' = [manifest EXCEPT ![StateFile[h]] = Torn]
  BY DEF KilledInSave, nodeVars
<1>4. count' \in Counting /\ count'["tx"] = count["tx"]
  BY <1>1, TickCounts DEF KilledInSave
<1>5. Stops(h)
  BY <1>1, StopsOK DEF KilledInSave
<1>6. head' \in [Heads -> Processes] /\ Shaped' /\ Checking' /\ \A g \in Heads \ {h} : head'[g] = head[g]
  BY <1>5, StopsQuiet, OneHead
<1>7. manifest' \in [Files -> 0..Torn]
  BY <1>1, <1>3, ManifestType
<1>8. \A n \in Nodes : lock[n].head # h /\ lock[n].head \in Heads \union {NoHead}
  BY <1>2, ClusterAssumption DEF Base, Serving, Attended, TypeOK, Requests
<1>9. TypeOK' /\ Serving'
  BY <1>3, <1>4, <1>6, <1>7, <1>8 DEF Base, TypeOK, Serving, Attended, Node, Counting
<1> QED
  BY <1>2, <1>3, <1>4, <1>5, <1>6, <1>9 DEF Base

\* A command begins: a setup with a transaction of its own, the others with the manifest's.
Begins(h, mode, step, at, tx) == Becomes(h, mode, step, at, "none", tx, {}, FALSE)

LEMMA BeginsOK ==
  ASSUME NEW h \in Heads, head \in [Heads -> Processes],
         NEW mode \in {"setup", "restore", "saveenv"}, NEW step \in Steps, NEW at \in 0..NNodes,
         NEW tx \in Tx,
         head' = [head EXCEPT ![h] = [Off EXCEPT !.mode = mode, !.step = step, !.at = at, !.tx = tx]]
  PROVE  Begins(h, mode, step, at, tx)
<1>1. tx \in 0..MaxTx
  BY ClusterAssumption DEF Tx
<1>2. head'[h] \in Processes
  BY <1>1, ClusterAssumption DEF Processes, Off, Steps
<1> QED
  BY <1>2 DEF Begins, Becomes, Off

\* A command starts with nothing of another head's changed.
LEMMA StartGoes ==
  ASSUME NEW h \in Heads, Base, Commands(h)
  PROVE  /\ Base' /\ UNCHANGED <<manifest, journal, changed, lock, late, strays>>
         /\ head[h].call = "none"
         /\ \A g \in Heads \ {h} : head'[g] = head[g]
         /\ \/ /\ Begins(h, "setup", "confirm", 0, count["tx"] + 1)
               /\ count["tx"] < MaxTx /\ count'["tx"] = count["tx"] + 1
               /\ manifest[StateFile[h]] = 0
            \/ /\ manifest[StateFile[h]] \in Tx /\ count' = count
               /\ \/ Begins(h, "restore", "check", NNodes, manifest[StateFile[h]])
                  \/ Begins(h, "saveenv", "inspect", 1, manifest[StateFile[h]])
<1>1. /\ head \in [Heads -> Processes] /\ manifest \in [Files -> 0..Torn] /\ count \in Counting
  BY DEF Base, TypeOK, Counting
<1>2. head[h] = Off /\ UNCHANGED <<manifest, journal, changed, drift, lock, late, strays>>
  BY DEF Commands, StartSetup, StartRestore, StartSaveEnv, nodeVars
<1>3. \A n \in Nodes : lock[n].head # h /\ lock[n].head \in Heads \union {NoHead}
  BY <1>2, OffOK, ClusterAssumption DEF Base, Serving, Attended, TypeOK, Requests
<1>4. ASSUME count' \in Counting, head' = [head EXCEPT ![h] = head'[h]], head'[h] \in Processes,
             Shape(head'[h]), Checks(head'[h])
      PROVE  Base' /\ \A g \in Heads \ {h} : head'[g] = head[g]
  <2>1. head' \in [Heads -> Processes] /\ Shaped' /\ Checking' /\ \A g \in Heads \ {h} : head'[g] = head[g]
    BY <1>4, OneHead
  <2>2. TypeOK'
    BY <1>2, <1>4, <2>1 DEF Base, TypeOK, Counting
  <2>3. Serving'
    BY <1>2, <1>3, <2>1 DEF Base, Serving, Attended, Node
  <2> QED
    BY <2>1, <2>2, <2>3 DEF Base
<1>5. 0 \in 0..NNodes /\ 1 \in 0..NNodes /\ NNodes \in 0..NNodes /\ 1 \in Nodes /\ NNodes \in Nodes
      /\ \A i \in Nodes : ~(i > NNodes)
  BY NodesNat
<1>6. CASE StartSetup(h)
  <2>1. /\ count["tx"] < MaxTx /\ count' = [count EXCEPT !["tx"] = @ + 1] /\ manifest[StateFile[h]] = 0
        /\ head' = [head EXCEPT ![h] = [Off EXCEPT !.mode = "setup", !.step = "confirm", !.tx = count["tx"] + 1]]
    BY <1>6 DEF StartSetup, Tick
  <2>2. count' \in Counting /\ count'["tx"] = count["tx"] + 1 /\ count["tx"] + 1 \in Tx
    BY <1>1, <2>1, ClusterAssumption DEF Counting, Tx
  <2> DEFINE tx == count["tx"] + 1
  <2>3. head' = [head EXCEPT ![h] = [Off EXCEPT !.mode = "setup", !.step = "confirm", !.tx = tx]]
    BY <2>1
  <2>4. tx \in Tx /\ tx \in 0..MaxTx
    BY <2>2, ClusterAssumption DEF Tx
  <2> HIDE DEF tx
  <2>5. Begins(h, "setup", "confirm", 0, tx)
    <3>1. head'[h] \in Processes
      BY <1>1, <1>5, <2>3, <2>4 DEF Processes, Off
    <3> QED
      BY <1>1, <2>3, <3>1 DEF Begins, Becomes, Off
  <2>6. Shape(head'[h]) /\ Checks(head'[h])
    BY <2>4, <2>5 DEF Begins, Becomes, Shape, Checks, Actions, Forward
  <2> QED
    BY <1>2, <1>4, <2>1, <2>2, <2>5, <2>6, OffOK DEF Begins, Becomes, tx
<1>7. CASE StartRestore(h)
  <2> DEFINE tx == manifest[StateFile[h]]
  <2>1. /\ tx \in Tx /\ count' = count
        /\ head' = [head EXCEPT ![h] = [Off EXCEPT !.mode = "restore", !.step = "check", !.at = NNodes, !.tx = tx]]
    BY <1>7 DEF StartRestore
  <2> HIDE DEF tx
  <2>2. Begins(h, "restore", "check", NNodes, tx)
    BY <1>1, <1>5, <2>1, BeginsOK DEF Steps, Actions
  <2>3. Shape(head'[h]) /\ Checks(head'[h])
    BY <1>5, <2>1, <2>2 DEF Begins, Becomes, Shape, Checks, Actions, Forward
  <2> QED
    BY <1>1, <1>2, <1>4, <2>1, <2>2, <2>3, OffOK DEF Begins, Becomes, tx
<1>8. CASE StartSaveEnv(h)
  <2> DEFINE tx == manifest[StateFile[h]]
  <2>1. /\ tx \in Tx /\ count' = count
        /\ head' = [head EXCEPT ![h] = [Off EXCEPT !.mode = "saveenv", !.step = "inspect", !.at = 1, !.tx = tx]]
    BY <1>8 DEF StartSaveEnv
  <2> HIDE DEF tx
  <2>2. Begins(h, "saveenv", "inspect", 1, tx)
    BY <1>1, <1>5, <2>1, BeginsOK DEF Steps, Actions
  <2>3. Shape(head'[h]) /\ Checks(head'[h])
    BY <1>5, <2>1, <2>2 DEF Begins, Becomes, Shape, Checks, Actions, Forward
  <2> QED
    BY <1>1, <1>2, <1>4, <2>1, <2>2, <2>3, OffOK DEF Begins, Becomes, tx
<1> QED
  BY <1>6, <1>7, <1>8 DEF Commands

LEMMA EditGoes ==
  ASSUME NEW n \in Nodes, Base, Edit(n)
  PROVE  Base' /\ UNCHANGED <<manifest, head, journal, changed, lock, late, strays>> /\ count'["tx"] = count["tx"]
<1>1. count \in Counting /\ drift \in [Nodes -> SUBSET Drifts]
  BY DEF Base, TypeOK, Counting
<1>2. count' \in Counting /\ count'["tx"] = count["tx"]
  BY <1>1, TickCounts DEF Edit
<1>3. drift' \in [Nodes -> SUBSET Drifts] /\ UNCHANGED <<manifest, head, journal, changed, lock, late, strays>>
  <2>1. CASE drift' = [drift EXCEPT ![n] = @ \union {"edited"}]
    BY <1>1, <2>1 DEF Edit, Drifts
  <2>2. CASE \E d \in drift[n] : drift' = [drift EXCEPT ![n] = @ \ {d}]
    BY <1>1, <2>2 DEF Edit
  <2> QED
    BY <2>1, <2>2 DEF Edit
<1> QED
  BY <1>2, <1>3 DEF Base, TypeOK, Shaped, Serving, Attended, Node, Checking, Counting

\* Every step is one of these.
LEMMA NextCases ==
  ASSUME Next
  PROVE  \/ \E h \in Heads : \/ Quietly(h) \/ Arrive(h) \/ SaveManifest(h) \/ RestoreEnds(h)
                             \/ Commands(h) \/ KilledInSave(h) \/ GivesUp(h)
         \/ \E n \in Nodes : Serve(n) \/ Refuse(n) \/ Fail(n) \/ Edit(n)
         \/ \E r \in late : LateArrive(r)
BY DEF Next, HeadStep, GivenUp, NodeStep, Quietly, GivesUp

LEMMA InitBase == Init => Base
<1> SUFFICES ASSUME Init PROVE Base
  OBVIOUS
<1>1. \A h \in Heads : head[h] = Off /\ Shape(head[h]) /\ Checks(head[h])
  BY OffOK DEF Init, Shape, Checks, Actions, Forward
<1>2. Free \in Requests /\ Free.head = NoHead
  BY ClusterAssumption DEF Free, Requests
<1>3. TypeOK
  BY <1>2, OffOK, ClusterAssumption DEF Init, TypeOK, Torn
<1>4. Serving
  BY <1>2 DEF Init, Serving, Attended
<1> QED
  BY <1>1, <1>3, <1>4 DEF Base, Shaped, Checking

\* The base invariant is inductive.
LEMMA BaseStep == Base /\ [Next]_vars => Base'
<1> SUFFICES ASSUME Base, [Next]_vars PROVE Base'
  OBVIOUS
<1>1. ASSUME NEW h \in Heads,
             \/ Quietly(h) \/ Arrive(h) \/ SaveManifest(h) \/ RestoreEnds(h)
             \/ Commands(h) \/ KilledInSave(h) \/ GivesUp(h)
      PROVE  Base'
  BY <1>1, QuietStep, QuietBase, ArriveGoes, SaveManifestGoes, RestoreEndsGoes, StartGoes,
     KilledInSaveGoes, GivesUpStep, DropsBase
<1>2. ASSUME NEW n \in Nodes, Serve(n) \/ Refuse(n) \/ Fail(n) \/ Edit(n) PROVE Base'
  BY <1>2, AnswerBase, EditGoes
<1>3. ASSUME NEW r \in late, LateArrive(r) PROVE Base'
  BY <1>3, LateArriveGoes
<1>4. CASE UNCHANGED vars
  BY <1>4 DEF vars, nodeVars, Base, TypeOK, Shaped, Serving, Attended, Node, Checking
<1> QED
  BY <1>1, <1>2, <1>3, <1>4, NextCases

LEMMA BaseAlways == Spec => []Base
BY InitBase, BaseStep, PTL DEF Spec

\* Every variable keeps its type, whatever calls, kills and late starts come.
THEOREM TypeCorrect == Spec => []TypeOK
<1>1. Base => TypeOK
  BY DEF Base
<1> QED
  BY <1>1, BaseAlways, PTL

\* --restore changes no node before every node has passed its check.
THEOREM ChecksAllFirst == Spec => []AllCheckedFirst
<1>1. Base => AllCheckedFirst
  BY DEF Base, Checking, Checks, AllCheckedFirst
<1> QED
  BY <1>1, BaseAlways, PTL

-----------------------------------------------------------------------------
Own == Base /\ Numbered /\ Distinct /\ Recorded /\ NoUndo

\* No two heads work under one transaction.
LEMMA HeadsApart ==
  ASSUME OwnFiles, Base, Distinct, Recorded, NEW g \in Heads, NEW h \in Heads, g # h,
         head[g].mode # "off", head[h].mode # "off"
  PROVE  head[g].tx # head[h].tx
<1>1. CASE head[g].step = "confirm" \/ head[h].step = "confirm"
  BY <1>1 DEF Recorded, Unseen
<1>2. CASE head[g].step # "confirm" /\ head[h].step # "confirm"
  <2>1. manifest[StateFile[g]] = head[g].tx /\ manifest[StateFile[h]] = head[h].tx /\ head[g].tx \in Tx
    BY <1>2 DEF Recorded, Base, Shaped, Shape
  <2>2. StateFile[g] \in Files /\ StateFile[h] \in Files
    BY DEF Files
  <2> QED
    BY <2>1, <2>2 DEF Distinct, OwnFiles
<1> QED
  BY <1>1, <1>2

\* A head that goes on, or stops, keeps what it works under.
Continues(h) ==
  \/ head'[h].mode = "off" /\ head'[h].tx = 0 /\ head'[h].step = "none"
  \/ /\ head[h].mode # "off" /\ head[h].step # "confirm"
     /\ head'[h].mode \in {head[h].mode, "rollback"}
     /\ head'[h].step # "confirm" /\ head'[h].tx = head[h].tx

\* Steps that neither write a file nor start a command.
LEMMA ContinuesOwn ==
  ASSUME OwnFiles, Own, Base', NEW h \in Heads, Continues(h),
         \A g \in Heads \ {h} : head'[g] = head[g],
         UNCHANGED <<manifest, journal>>, count'["tx"] = count["tx"],
         \A n \in Nodes : lock'[n].action = lock[n].action /\ lock'[n].tx = lock[n].tx,
         \A r \in late' \ late : r.action = head[h].step /\ r.tx = head[h].tx /\ head[h].step \in Actions
  PROVE  Own'
<1>1. head[h].step \in Actions => head[h].mode # "off" /\ head[h].step # "confirm"
  BY DEF Own, Base, Shaped, Shape, Actions, Forward
<1>2. \A g \in Heads : head[g].tx \in 0..MaxTx /\ head[g].tx <= count["tx"]
  BY DEF Own, Base, TypeOK, Processes, Numbered
<1>3. count["tx"] \in 0..MaxTx /\ MaxTx \in Nat
  BY ClusterAssumption DEF Own, Numbered
<1>4. Numbered'
  <2>1. head'[h].tx <= count["tx"]
    BY <1>2, <1>3 DEF Continues
  <2>2. \A g \in Heads : head'[g].tx <= count["tx"]
    BY <1>2, <2>1
  <2>3. \A r \in late' : r.tx <= count["tx"]
    BY <1>2 DEF Own, Numbered
  <2> QED
    BY <2>2, <2>3 DEF Own, Numbered
<1>5. Distinct'
  BY DEF Own, Distinct
<1>6. Recorded'
  <2>1. SUFFICES ASSUME NEW g \in Heads
                 PROVE  /\ head'[g].mode # "off" /\ head'[g].step # "confirm" => manifest[StateFile[g]] = head'[g].tx
                        /\ head'[g].step = "confirm" => Unseen(g)'
    BY DEF Recorded
  <2>2. CASE g = h
    BY <2>2 DEF Continues, Own, Recorded
  <2>3. CASE g # h
    <3>1. head'[g] = head[g]
      BY <2>3
    <3>2. ASSUME head[g].step = "confirm" PROVE Unseen(g)'
      <4>1. Unseen(g) /\ head[g].tx \in Tx
        BY <3>2 DEF Own, Recorded, Base, Shaped, Shape, TypeOK, Processes
      <4>2. head'[h].tx # head[g].tx
        BY <2>3, <4>1 DEF Continues, Unseen, Tx
      <4>3. \A x \in Heads \ {g} : head'[x].tx # head[g].tx
        BY <4>1, <4>2 DEF Unseen
      <4>4. \A r \in late' : r.tx # head[g].tx
        BY <2>3, <4>1 DEF Unseen
      <4> QED
        BY <3>1, <4>1, <4>3, <4>4 DEF Unseen
    <3> QED
      BY <3>1, <3>2 DEF Own, Recorded
  <2> QED
    BY <2>2, <2>3
<1>7. NoUndo'
  <2>1. SUFFICES ASSUME NEW g \in Heads, head'[g].mode = "setup"
                 PROVE  /\ \A n \in Nodes : ~(lock'[n].action = "restore" /\ lock'[n].tx = head'[g].tx)
                        /\ \A r \in late' : ~(r.action = "restore" /\ r.tx = head'[g].tx)
    BY DEF NoUndo
  <2>2. head[g].mode = "setup" /\ head'[g].tx = head[g].tx
    BY <2>1 DEF Continues
  <2>3. ASSUME NEW r \in late' \ late, r.action = "restore" PROVE r.tx # head[g].tx
    <3>1. head[h].step = "restore" /\ head[h].mode # "off" /\ r.tx = head[h].tx
      BY <1>1, <2>3
    <3>2. h # g
      BY <2>2, <3>1 DEF Own, Base, Shaped, Shape, Forward
    <3> QED
      BY <2>2, <3>1, <3>2, HeadsApart DEF Own
  <2> QED
    BY <2>2, <2>3 DEF Own, NoUndo
<1> QED
  BY <1>4, <1>5, <1>6, <1>7 DEF Own

\* An answer makes a journal only under the transaction that was asked for.
LEMMA AnswerOwn ==
  ASSUME Own, NEW n \in Nodes, Serve(n) \/ Refuse(n) \/ Fail(n)
  PROVE  Own'
<1>1. /\ Base' /\ UNCHANGED <<manifest, late, strays>> /\ count'["tx"] = count["tx"]
      /\ lock' = [lock EXCEPT ![n] = Free]
      /\ Effect(n) \/ UNCHANGED <<journal, changed>>
      /\ \A g \in Heads : head'[g] = head[g] \/ Answered(n, g, "ok") \/ Answered(n, g, "error")
  BY AnswerBase DEF Own
<1>2. \A g \in Heads : head'[g].mode = head[g].mode /\ head'[g].step = head[g].step /\ head'[g].tx = head[g].tx
  BY <1>1 DEF Answered, Goes, Becomes
<1>3. lock \in [Nodes -> Requests] /\ journal \in [Nodes -> 0..MaxTx] /\ MaxTx \in Nat /\ count["tx"] \in 0..MaxTx
  BY ClusterAssumption DEF Own, Base, TypeOK, Numbered
<1>4. \A m \in Nodes : lock'[m] = lock[m] \/ (lock'[m].action = "none" /\ lock'[m].tx = 0)
  BY <1>1, <1>3 DEF Free
<1>5. \A m \in Nodes : journal'[m] \in {journal[m], lock[m].tx, 0}
  BY <1>1, <1>3 DEF Effect
<1>6. Numbered'
  BY <1>1, <1>2, <1>3, <1>4, <1>5 DEF Own, Numbered
<1>7. Distinct'
  BY <1>1 DEF Own, Distinct
<1>8. Recorded'
  <2>1. ASSUME NEW g \in Heads, head[g].step = "confirm" PROVE Unseen(g)'
    <3>1. Unseen(g) /\ head[g].tx # 0
      BY <2>1 DEF Own, Recorded, Base, Shaped, Shape, TypeOK, Processes, Tx
    <3> QED
      BY <1>1, <1>2, <1>4, <1>5, <3>1 DEF Unseen
  <2> QED
    BY <1>1, <1>2, <2>1 DEF Own, Recorded
<1>9. NoUndo'
  BY <1>1, <1>2, <1>4 DEF Own, NoUndo
<1> QED
  BY <1>1, <1>6, <1>7, <1>8, <1>9 DEF Own

\* A call takes the lock under its head's own transaction.
LEMMA ArriveOwn ==
  ASSUME OwnFiles, Own, NEW h \in Heads, Arrive(h)
  PROVE  Own'
<1>1. /\ Base' /\ Node(h) \in Nodes /\ head[h].step \in Actions
      /\ head[h].mode # "off" /\ head[h].step # "confirm"
      /\ UNCHANGED <<manifest, journal, changed, late, strays, count>>
      /\ \A g \in Heads \ {h} : head'[g] = head[g]
      /\ \A n \in Nodes : lock'[n] = lock[n]
           \/ (lock'[n].action = head[h].step /\ lock'[n].tx = head[h].tx)
      /\ head'[h].mode = head[h].mode /\ head'[h].step = head[h].step /\ head'[h].tx = head[h].tx
  <2>1. /\ Base' /\ Node(h) \in Nodes /\ head[h].step \in Actions
        /\ head[h].mode # "off" /\ head[h].step # "confirm"
        /\ UNCHANGED <<manifest, journal, changed, late, strays, count>>
        /\ \A g \in Heads \ {h} : head'[g] = head[g]
        /\ \A n \in Nodes : lock'[n] = lock[n]
             \/ (n = Node(h) /\ lock'[n] = [action |-> head[h].step, tx |-> head[h].tx, head |-> h])
        /\ \E call \in {"running", "error"} : Goes(h, head[h].step, head[h].at, call)
    BY ArriveGoes DEF Own
  <2>2. head'[h].mode = head[h].mode /\ head'[h].step = head[h].step /\ head'[h].tx = head[h].tx
    BY <2>1 DEF Goes, Becomes
  <2> QED
    BY <2>1, <2>2
<1>2. \A g \in Heads : head'[g].mode = head[g].mode /\ head'[g].step = head[g].step /\ head'[g].tx = head[g].tx
  BY <1>1
<1>3. Numbered'
  BY <1>1, <1>2 DEF Own, Numbered
<1>4. Distinct'
  BY <1>1 DEF Own, Distinct
<1>5. Recorded'
  <2>1. ASSUME NEW g \in Heads, head[g].step = "confirm" PROVE Unseen(g)'
    <3>1. Unseen(g) /\ head[h].tx # head[g].tx
      BY <1>1, <2>1 DEF Own, Recorded, Unseen
    <3> QED
      BY <1>1, <1>2, <3>1 DEF Unseen
  <2> QED
    BY <1>1, <1>2, <2>1 DEF Own, Recorded
<1>6. NoUndo'
  <2>1. SUFFICES ASSUME NEW g \in Heads, head[g].mode = "setup", NEW n \in Nodes,
                        lock'[n].action = "restore", lock'[n].tx = head[g].tx
                 PROVE  FALSE
    BY <1>1, <1>2 DEF Own, NoUndo
  <2>2. head[h].step = "restore" /\ head[h].tx = head[g].tx
    BY <1>1, <2>1 DEF Own, NoUndo
  <2>3. h # g
    BY <2>1, <2>2 DEF Own, Base, Shaped, Shape, Forward
  <2> QED
    BY <1>1, <2>1, <2>2, <2>3, HeadsApart DEF Own
<1> QED
  BY <1>1, <1>3, <1>4, <1>5, <1>6 DEF Own

\* A late call still has its transaction.
LEMMA LateArriveOwn ==
  ASSUME Own, NEW r \in late, LateArrive(r)
  PROVE  Own'
<1>1. /\ Base' /\ UNCHANGED <<manifest, head, journal, count>> /\ late' \subseteq late
      /\ \A n \in Nodes : lock'[n] = lock[n] \/ (lock'[n].action = r.action /\ lock'[n].tx = r.tx)
  <2>1. /\ Base' /\ UNCHANGED <<manifest, head, journal, changed, count>> /\ late' = late \ {r}
        /\ \A n \in Nodes : lock'[n] = lock[n]
             \/ (n = r.node /\ lock'[n] = [action |-> r.action, tx |-> r.tx, head |-> NoHead])
    BY LateArriveGoes DEF Own
  <2> QED
    BY <2>1
<1>2. Numbered' /\ Distinct'
  BY <1>1 DEF Own, Numbered, Distinct
<1>3. Recorded'
  BY <1>1 DEF Own, Recorded, Unseen
<1>4. NoUndo'
  BY <1>1 DEF Own, NoUndo
<1> QED
  BY <1>1, <1>2, <1>3, <1>4 DEF Own

\* What a head does to its own state file.
Writes(h, t) ==
  /\ \A g \in Heads \ {h} : head'[g] = head[g] /\ (head[g].step = "confirm" => head[g].tx # t)
  /\ UNCHANGED <<journal, lock, late, strays>> /\ count'["tx"] = count["tx"]
  /\ manifest' = [manifest EXCEPT ![StateFile[h]] = t]
  /\ t \in Tx => t <= count["tx"] /\ \A f \in Files : manifest[f] # t
  /\ head'[h].tx \in {0, head[h].tx} /\ head'[h].step # "confirm"
  /\ head'[h].mode # "off" => t = head'[h].tx
  /\ head'[h].mode = "setup" => head[h].mode = "setup" /\ head'[h].tx = head[h].tx

LEMMA FileOwn ==
  ASSUME OwnFiles, Own, Base', NEW h \in Heads, NEW t \in Tx \union {0, Torn}, Writes(h, t)
  PROVE  Own'
<1>0. /\ \A g \in Heads \ {h} : head'[g] = head[g] /\ (head[g].step = "confirm" => head[g].tx # t)
      /\ UNCHANGED <<journal, lock, late, strays>> /\ count'["tx"] = count["tx"]
      /\ manifest' = [manifest EXCEPT ![StateFile[h]] = t]
      /\ t \in Tx => t <= count["tx"] /\ \A f \in Files : manifest[f] # t
      /\ head'[h].tx \in {0, head[h].tx} /\ head'[h].step # "confirm"
      /\ head'[h].mode # "off" => t = head'[h].tx
      /\ head'[h].mode = "setup" => head[h].mode = "setup" /\ head'[h].tx = head[h].tx
  BY DEF Writes
<1>1. MaxTx \in Nat /\ count["tx"] \in 0..MaxTx /\ manifest \in [Files -> 0..Torn] /\ Torn = MaxTx + 1
  BY ClusterAssumption DEF Own, Base, TypeOK, Numbered, Torn
<1>2. StateFile[h] \in Files /\ \A g \in Heads \ {h} : StateFile[g] \in Files /\ StateFile[g] # StateFile[h]
  BY DEF Files, OwnFiles
<1>3. manifest'[StateFile[h]] = t /\ \A f \in Files \ {StateFile[h]} : manifest'[f] = manifest[f]
  BY <1>0, <1>1, <1>2
<1>4. Numbered'
  BY <1>0, <1>1, <1>3 DEF Own, Numbered, Tx
<1>5. Distinct'
  BY <1>0, <1>1, <1>3 DEF Own, Distinct, Tx
<1>6. Recorded'
  <2>1. ASSUME NEW g \in Heads, head'[g].step = "confirm" PROVE Unseen(g)'
    <3>1. g # h /\ head'[g] = head[g] /\ head[g].tx # t
      BY <1>0, <2>1
    <3>2. Unseen(g) /\ head[g].tx # 0
      BY <2>1, <3>1 DEF Own, Recorded, Base, Shaped, Shape, TypeOK, Processes, Tx
    <3>3. \A x \in Heads \ {g} : head'[x].tx # head[g].tx
      BY <1>0, <3>1, <3>2 DEF Unseen
    <3> QED
      BY <1>0, <1>3, <3>1, <3>2, <3>3 DEF Unseen
  <2> QED
    BY <1>0, <1>2, <1>3, <2>1 DEF Own, Recorded
<1>7. NoUndo'
  BY <1>0 DEF Own, NoUndo
<1> QED
  BY <1>4, <1>5, <1>6, <1>7 DEF Own

\* A setup's transaction is new; the others take the one in their file.
LEMMA StartOwn ==
  ASSUME OwnFiles, Own, NEW h \in Heads, Commands(h)
  PROVE  Own'
<1>1. /\ Base' /\ UNCHANGED <<manifest, journal, changed, lock, late, strays>>
      /\ \A g \in Heads \ {h} : head'[g] = head[g]
      /\ \/ /\ Begins(h, "setup", "confirm", 0, count["tx"] + 1)
            /\ count["tx"] < MaxTx /\ count'["tx"] = count["tx"] + 1
            /\ manifest[StateFile[h]] = 0
         \/ /\ manifest[StateFile[h]] \in Tx /\ count' = count
            /\ \/ Begins(h, "restore", "check", NNodes, manifest[StateFile[h]])
               \/ Begins(h, "saveenv", "inspect", 1, manifest[StateFile[h]])
  BY StartGoes DEF Own
<1>2. /\ MaxTx \in Nat /\ count["tx"] \in 0..MaxTx /\ Torn = MaxTx + 1 /\ StateFile[h] \in Files
      /\ manifest \in [Files -> 0..Torn] /\ journal \in [Nodes -> 0..MaxTx]
      /\ \A g \in Heads : head[g].tx \in 0..MaxTx
      /\ \A n \in Nodes : lock[n].tx \in 0..MaxTx
      /\ \A r \in late : r.tx \in Tx
  BY ClusterAssumption DEF Own, Base, TypeOK, Numbered, Torn, Files, Processes, Requests
<1>3. Distinct'
  BY <1>1 DEF Own, Distinct
<1>4. CASE /\ Begins(h, "setup", "confirm", 0, count["tx"] + 1)
           /\ count["tx"] < MaxTx /\ count'["tx"] = count["tx"] + 1
  <2> DEFINE tx == count["tx"] + 1
  <2>1. head'[h].mode = "setup" /\ head'[h].step = "confirm" /\ head'[h].tx = tx
    BY <1>4 DEF Begins, Becomes
  <2>2. tx \in 1..MaxTx /\ count'["tx"] = tx /\ count["tx"] < tx /\ tx # Torn
    BY <1>2, <1>4
  <2>3. \A g \in Heads \ {h} : head'[g] = head[g] /\ head[g].tx < tx
    BY <1>1, <1>2, <2>2 DEF Own, Numbered
  <2>4. \A f \in Files : manifest[f] < tx \/ manifest[f] = Torn
    BY <1>2, <2>2 DEF Own, Numbered
  <2>5. \A n \in Nodes : journal[n] < tx /\ lock[n].tx < tx
    BY <1>2, <2>2 DEF Own, Numbered
  <2>6. \A r \in late : r.tx < tx
    BY <1>2, <2>2 DEF Own, Numbered, Tx
  <2> HIDE DEF tx
  <2>7. Numbered'
    <3>1. \A g \in Heads : head'[g].tx <= tx
      BY <1>2, <2>1, <2>2, <2>3
    <3>2. \A f \in Files : manifest[f] <= tx \/ manifest[f] = Torn
      BY <1>2, <2>2, <2>4
    <3>3. \A n \in Nodes : journal[n] <= tx /\ lock[n].tx <= tx
      BY <1>2, <2>2, <2>5
    <3>4. \A r \in late : r.tx <= tx
      BY <1>2, <2>2, <2>6 DEF Tx
    <3> QED
      BY <1>1, <1>2, <2>2, <3>1, <3>2, <3>3, <3>4 DEF Numbered
  <2>8. Unseen(h)'
    <3>1. \A f \in Files : manifest[f] # tx
      BY <1>2, <2>2, <2>4
    <3>2. \A g \in Heads \ {h} : head'[g].tx # tx
      BY <1>2, <2>2, <2>3
    <3>3. \A n \in Nodes : journal[n] # tx /\ lock[n].tx # tx
      BY <1>2, <2>2, <2>5
    <3>4. \A r \in late : r.tx # tx
      BY <1>2, <2>2, <2>6 DEF Tx
    <3> QED
      BY <1>1, <2>1, <3>1, <3>2, <3>3, <3>4 DEF Unseen
  <2>9. Recorded'
    <3>1. ASSUME NEW g \in Heads \ {h}, head[g].step = "confirm" PROVE Unseen(g)'
      <4>1. Unseen(g) /\ head[g].tx # tx
        BY <1>2, <2>2, <2>3, <3>1 DEF Own, Recorded
      <4> QED
        BY <1>1, <2>1, <2>3, <4>1 DEF Unseen
    <3> QED
      BY <1>1, <2>1, <2>3, <2>8, <3>1 DEF Own, Recorded
  <2>10. NoUndo'
    <3>1. \A n \in Nodes : lock[n].tx # tx
      BY <1>2, <2>2, <2>5
    <3>2. \A r \in late : r.tx # tx
      BY <1>2, <2>2, <2>6 DEF Tx
    <3> QED
      BY <1>1, <2>1, <2>3, <3>1, <3>2 DEF Own, NoUndo
  <2> QED
    BY <1>1, <1>3, <2>7, <2>9, <2>10 DEF Own
<1>5. CASE /\ manifest[StateFile[h]] \in Tx /\ count' = count
           /\ \/ Begins(h, "restore", "check", NNodes, manifest[StateFile[h]])
              \/ Begins(h, "saveenv", "inspect", 1, manifest[StateFile[h]])
  <2> DEFINE tx == manifest[StateFile[h]]
  <2>1. head'[h].mode \in {"restore", "saveenv"} /\ head'[h].step # "confirm" /\ head'[h].tx = tx
    BY <1>5 DEF Begins, Becomes
  <2>2. tx <= count["tx"] /\ tx \in Tx
    BY <1>2, <1>5 DEF Own, Numbered, Tx
  <2>3. Numbered'
    BY <1>1, <1>5, <2>1, <2>2 DEF Own, Numbered
  <2>4. Recorded'
    <3>1. ASSUME NEW g \in Heads \ {h}, head[g].step = "confirm" PROVE Unseen(g)'
      <4>1. Unseen(g) /\ head[g].tx # tx
        BY <1>2, <3>1 DEF Own, Recorded, Unseen
      <4> QED
        BY <1>1, <2>1, <4>1 DEF Unseen
    <3> QED
      BY <1>1, <2>1, <3>1 DEF Own, Recorded
  <2>5. NoUndo'
    BY <1>1, <2>1 DEF Own, NoUndo
  <2> QED
    BY <1>1, <1>3, <2>3, <2>4, <2>5 DEF Own
<1> QED
  BY <1>1, <1>4, <1>5

LEMMA InitOwn == Init => Own
<1> SUFFICES ASSUME Init PROVE Own
  OBVIOUS
<1>1. MaxTx \in Nat /\ Free.tx = 0 /\ Free.action = "none"
  BY ClusterAssumption DEF Free
<1>2. Numbered
  BY <1>1, OffOK DEF Init, Numbered
<1>3. Distinct /\ Recorded /\ NoUndo
  BY <1>1, OffOK DEF Init, Distinct, Recorded, NoUndo, Tx
<1> QED
  BY <1>2, <1>3, InitBase DEF Own

\* The transactions stay apart.
LEMMA OwnStep ==
  ASSUME OwnFiles, Own, [Next]_vars
  PROVE  Own'
<1>1. Base'
  BY BaseStep DEF Own
<1>2. ASSUME NEW h \in Heads, Quietly(h) PROVE Own'
  <2>1. Quiet(h) /\ \A g \in Heads \ {h} : head'[g] = head[g]
    BY <1>2, QuietStep, QuietBase DEF Own
  <2> QED
    BY <1>1, <2>1, ContinuesOwn DEF Quiet, Others, Continues
<1>3. ASSUME NEW h \in Heads, GivesUp(h) PROVE Own'
  <2>1. Drops(h) /\ \A g \in Heads \ {h} : head'[g] = head[g]
    BY <1>3, GivesUpStep, DropsBase DEF Own
  <2>2. /\ \A n \in Nodes : lock'[n].action = lock[n].action /\ lock'[n].tx = lock[n].tx
        /\ \A r \in late' \ late : r.action = head[h].step /\ r.tx = head[h].tx /\ head[h].step \in Actions
    BY <2>1, DroppedLeaves DEF Drops, Own
  <2> QED
    BY <1>1, <2>1, <2>2, ContinuesOwn DEF Drops, Continues
<1>4. ASSUME NEW h \in Heads, SaveManifest(h) PROVE Own'
  <2>1. /\ UNCHANGED <<journal, changed, lock, late, strays, count>> /\ head[h].mode = "setup" /\ head[h].step = "confirm"
        /\ \A g \in Heads \ {h} : head'[g] = head[g]
        /\ \/ manifest' = manifest /\ Stops(h)
           \/ /\ manifest' = [manifest EXCEPT ![StateFile[h]] = head[h].tx]
              /\ Goes(h, "prepare", StartOf("prepare"), "none")
    BY <1>4, SaveManifestGoes DEF Own, SaveManifest
  <2>2. CASE manifest' = manifest /\ Stops(h)
    BY <1>1, <2>1, <2>2, StopsQuiet, ContinuesOwn DEF Continues
  <2>3. CASE /\ manifest' = [manifest EXCEPT ![StateFile[h]] = head[h].tx]
             /\ Goes(h, "prepare", StartOf("prepare"), "none")
    <3>1. head'[h].mode = "setup" /\ head'[h].step = "prepare" /\ head'[h].tx = head[h].tx
      BY <2>1, <2>3 DEF Goes, Becomes
    <3>2. Unseen(h) /\ head[h].tx \in Tx /\ head[h].tx <= count["tx"]
      BY <2>1 DEF Own, Recorded, Base, Shaped, Shape, Numbered
    <3>3. Writes(h, head[h].tx)
      BY <2>1, <2>3, <3>1, <3>2 DEF Writes, Unseen
    <3> QED
      BY <1>1, <3>2, <3>3, FileOwn
  <2> QED
    BY <2>1, <2>2, <2>3
<1>5. ASSUME NEW h \in Heads, RestoreEnds(h) PROVE Own'
  <2>1. /\ UNCHANGED <<journal, lock, late, strays, count>> /\ Stops(h)
        /\ manifest' = IF head[h].failed THEN manifest ELSE [manifest EXCEPT ![StateFile[h]] = 0]
        /\ \A g \in Heads \ {h} : head'[g] = head[g]
    BY <1>5, RestoreEndsGoes DEF Own
  <2>2. CASE head[h].failed
    BY <1>1, <2>1, <2>2, StopsQuiet, ContinuesOwn DEF Continues
  <2>3. CASE ~head[h].failed
    <3>1. manifest' = [manifest EXCEPT ![StateFile[h]] = 0]
      BY <2>1, <2>3
    <3>2. head'[h].mode = "off" /\ head'[h].tx = 0 /\ head'[h].step = "none"
      BY <2>1, StopsQuiet
    <3>3. \A g \in Heads : head[g].step = "confirm" => head[g].tx # 0
      BY DEF Own, Base, Shaped, Shape, Tx
    <3>4. 0 \notin Tx
      BY DEF Tx
    <3>5. UNCHANGED <<journal, lock, late, strays>> /\ count' = count /\ \A g \in Heads \ {h} : head'[g] = head[g]
      BY <2>1
    <3>6. Writes(h, 0)
      BY <3>1, <3>2, <3>3, <3>4, <3>5 DEF Writes
    <3> QED
      BY <1>1, <3>6, FileOwn
  <2> QED
    BY <2>2, <2>3
<1>6. ASSUME NEW h \in Heads, KilledInSave(h) PROVE Own'
  <2>1. /\ UNCHANGED <<journal, lock, late, strays>> /\ count'["tx"] = count["tx"] /\ Stops(h)
        /\ manifest' = [manifest EXCEPT ![StateFile[h]] = Torn]
        /\ \A g \in Heads \ {h} : head'[g] = head[g]
    BY <1>6, KilledInSaveGoes DEF Own
  <2>2. head'[h].mode = "off" /\ head'[h].tx = 0 /\ head'[h].step = "none"
    BY <2>1, StopsQuiet
  <2>3. Torn \notin Tx /\ \A g \in Heads : head[g].tx # Torn
    BY ClusterAssumption DEF Torn, Tx, Own, Base, TypeOK, Processes
  <2>4. Writes(h, Torn)
    BY <2>1, <2>2, <2>3 DEF Writes
  <2> QED
    BY <1>1, <2>4, FileOwn
<1>7. ASSUME NEW h \in Heads, Arrive(h) \/ Commands(h) PROVE Own'
  BY <1>7, ArriveOwn, StartOwn
<1>8. ASSUME NEW n \in Nodes, Serve(n) \/ Refuse(n) \/ Fail(n) PROVE Own'
  BY <1>8, AnswerOwn
<1>9. ASSUME NEW n \in Nodes, Edit(n) PROVE Own'
  <2>1. UNCHANGED <<manifest, head, journal, changed, lock, late, strays>> /\ count'["tx"] = count["tx"]
    BY <1>9, EditGoes DEF Own
  <2> QED
    BY <1>1, <2>1 DEF Own, Numbered, Distinct, Recorded, Unseen, NoUndo
<1>10. ASSUME NEW r \in late, LateArrive(r) PROVE Own'
  BY <1>10, LateArriveOwn
<1>11. CASE UNCHANGED vars
  BY <1>1, <1>11 DEF vars, nodeVars, Own, Numbered, Distinct, Recorded, Unseen, NoUndo
<1> QED
  BY <1>2, <1>3, <1>4, <1>5, <1>6, <1>7, <1>8, <1>9, <1>10, <1>11, NextCases

LEMMA OwnAlways == ASSUME OwnFiles PROVE Spec => []Own
<1>1. Own /\ [Next]_vars => Own'
  BY OwnStep
<1> QED
  BY InitOwn, <1>1, PTL DEF Spec

-----------------------------------------------------------------------------
\* What a setup has done on a node stays done until it rolls back.
LEMMA UndisturbedStep ==
  ASSUME Own, [Next]_vars, NEW h \in Heads, NEW n \in Nodes,
         head[h].mode = "setup", journal[n] = head[h].tx
  PROVE  journal'[n] = journal[n] /\ changed[n] \subseteq changed'[n]
<1>1. head[h].tx \in Tx /\ head[h].tx # 0
  BY DEF Own, Base, Shaped, Shape, Tx
<1>2. ASSUME UNCHANGED <<journal, changed>>
      PROVE  journal'[n] = journal[n] /\ changed[n] \subseteq changed'[n]
  BY <1>2
<1>3. ASSUME NEW m \in Nodes, Effect(m)
      PROVE  journal'[n] = journal[n] /\ changed[n] \subseteq changed'[n]
  <2>1. CASE m # n
    BY <1>3, <2>1 DEF Effect
  <2>2. CASE m = n
    <3>1. ~(lock[n].action = "restore" /\ journal[n] = lock[n].tx) /\ journal[n] # 0
      BY <1>1 DEF Own, NoUndo
    <3> QED
      BY <1>3, <2>2, <3>1 DEF Effect
  <2> QED
    BY <2>1, <2>2
<1>4. ASSUME NEW g \in Heads,
             \/ Quietly(g) \/ Arrive(g) \/ SaveManifest(g) \/ RestoreEnds(g)
             \/ Commands(g) \/ KilledInSave(g) \/ GivesUp(g)
      PROVE  UNCHANGED <<journal, changed>>
  BY <1>4, QuietStep, ArriveGoes, SaveManifestGoes, RestoreEndsGoes, StartGoes, KilledInSaveGoes, GivesUpStep
     DEF Own, Quiet, Others, Drops
<1>5. ASSUME NEW m \in Nodes, Serve(m) \/ Refuse(m) \/ Fail(m)
      PROVE  Effect(m) \/ UNCHANGED <<journal, changed>>
  BY <1>5, AnswerBase DEF Own
<1>6. ASSUME NEW m \in Nodes, Edit(m) PROVE UNCHANGED <<journal, changed>>
  BY <1>6, EditGoes DEF Own
<1>7. ASSUME NEW r \in late, LateArrive(r) PROVE UNCHANGED <<journal, changed>>
  BY <1>7, LateArriveGoes DEF Own
<1>8. CASE UNCHANGED vars
  BY <1>2, <1>8 DEF vars, nodeVars
<1> QED
  BY <1>2, <1>3, <1>4, <1>5, <1>6, <1>7, <1>8, NextCases

\* From its own manifest on, a setup keeps what it has done on every node until it
\* rolls back itself, when every operator has a state file of their own.
THEOREM Undisturbed == ASSUME OwnFiles PROVE Spec => SetupUndisturbed
<1>1. Own /\ [Next]_vars =>
        \A h \in Heads, n \in Nodes :
          head[h].mode = "setup" /\ journal[n] = head[h].tx
            => journal'[n] = journal[n] /\ changed[n] \subseteq changed'[n]
  BY UndisturbedStep
<1> QED
  BY <1>1, OwnAlways, PTL DEF Spec, SetupUndisturbed

-----------------------------------------------------------------------------
\* A step forward passes one node in one phase: the one that just answered.
LEMMA PassedOn ==
  ASSUME NEW p \in Processes, NEW q \in Processes, NEW s \in Forward, NEW i \in Nodes,
         p.step \in Forward, p.at \in Nodes, p.call = "ok", q.call = "none",
         \/ p.at = EndOf(p.step) /\ q.step = NextStep(p.step) /\ q.at = StartOf(q.step)
         \/ p.at # EndOf(p.step) /\ q.step = p.step /\ q.at = After(p.step, p.at),
         Passed(q, s, i)
  PROVE  Passed(p, s, i)
<1>1. i \in Nat /\ p.at \in Nat /\ 1 <= i /\ i <= NNodes /\ 1 <= p.at /\ p.at <= NNodes /\ NNodes \in Nat
  BY NodesNat
<1>2. CASE p.at = EndOf(p.step) /\ q.step = NextStep(p.step) /\ q.at = StartOf(q.step)
  <2>1. CASE p.step = "prepare"
    <3>1. p.at = NNodes /\ q.step = "docker" /\ q.at = 1
      BY <1>2, <2>1 DEF EndOf, NextStep, StartOf, Backward
    <3> QED
      BY <1>1, <2>1, <3>1 DEF Passed, Rank, Forward
  <2>2. CASE p.step = "docker"
    <3>1. p.at = NNodes /\ q.step = "ssh" /\ q.at = 1
      BY <1>2, <2>2 DEF EndOf, NextStep, StartOf, Backward
    <3> QED
      BY <1>1, <2>2, <3>1 DEF Passed, Rank, Forward
  <2>3. CASE p.step = "ssh"
    <3>1. p.at = NNodes /\ q.step = "network" /\ q.at = NNodes
      BY <1>2, <2>3 DEF EndOf, NextStep, StartOf, Backward
    <3> QED
      BY <1>1, <2>3, <3>1 DEF Passed, Rank, Forward
  <2>4. CASE p.step = "network"
    <3>1. p.at = 1 /\ q.step = "verify"
      BY <1>2, <2>4 DEF EndOf, NextStep, StartOf, Backward
    <3> QED
      BY <1>1, <2>4, <3>1 DEF Passed, Rank, Forward
  <2> QED
    BY <2>1, <2>2, <2>3, <2>4 DEF Forward
<1>3. CASE q.step = p.step /\ q.at = After(p.step, p.at)
  <2>1. CASE p.step = "network"
    <3>1. q.at = p.at - 1
      BY <1>3, <2>1 DEF After, Backward
    <3> QED
      BY <1>1, <1>3, <2>1, <3>1 DEF Passed
  <2>2. CASE p.step # "network"
    <3>1. q.at = p.at + 1
      BY <1>3, <2>2 DEF After, Backward, Forward
    <3> QED
      BY <1>1, <1>3, <2>2, <3>1 DEF Passed
  <2> QED
    BY <2>1, <2>2
<1> QED
  BY <1>2, <1>3

\* No quiet step of a setup passes more than has answered.
LEMMA QuietPassed ==
  ASSUME NEW h \in Heads, Base, Quietly(h), head[h].mode = "setup", head'[h].mode = "setup",
         NEW s \in Forward, NEW i \in Nodes, Passed(head'[h], s, i)
  PROVE  Passed(head[h], s, i)
<1>1. /\ head \in [Heads -> Processes] /\ head[h] \in Processes /\ Shape(head[h]) /\ Shaped
      /\ head[h].step \in Forward \union {"confirm", "verify", "env"}
  BY DEF Base, TypeOK, Shaped, Shape
<1>2. ~Stops(h) /\ ~RollsBack(h)
  BY DEF Stops, RollsBack, Becomes
<1>3. CASE Send(h)
  <2>1. Goes(h, head[h].step, head[h].at, "sent")
    BY <1>1, <1>3, SendGoes
  <2> QED
    BY <2>1 DEF Goes, Becomes, Passed
<1>4. CASE SetupProceeds(h)
  <2>1. head[h].step \in Forward /\ head[h].call = "ok" /\ head[h].at \in Nodes
    BY <1>1, <1>4 DEF SetupProceeds, Shape
  <2>2. /\ head'[h] \in Processes /\ head'[h].call = "none"
        /\ \/ /\ head[h].at = EndOf(head[h].step) /\ head'[h].step = NextStep(head[h].step)
              /\ head'[h].at = StartOf(head'[h].step)
           \/ /\ head[h].at # EndOf(head[h].step) /\ head'[h].step = head[h].step
              /\ head'[h].at = After(head[h].step, head[h].at)
    BY <1>1, <1>4, SetupProceedsGoes DEF Goes, Becomes
  <2> QED
    BY <1>1, <2>1, <2>2, PassedOn
<1>5. CASE VerifyPasses(h)
  BY <1>5 DEF VerifyPasses, Passed, Rank, Forward
<1>6. CASE VerifyFails(h)
  BY <1>1, <1>2, <1>6, VerifyFailsGoes
<1>7. CASE EnvSaved(h) \/ SetupFails(h)
  BY <1>1, <1>2, <1>7, StopsOK, RollsBackOK DEF EnvSaved, SetupFails
<1>8. ~(SaveEnvProceeds(h) \/ SaveEnvFails(h) \/ Checked(h) \/ SkipNode(h) \/ Restored(h))
  BY <1>1 DEF SaveEnvProceeds, SaveEnvFails, Checked, SkipNode, Restored, Forward
<1> QED
  BY <1>3, <1>4, <1>5, <1>6, <1>7, <1>8 DEF Quietly

\* Nor does any other step, but for the answer itself.
LEMMA StepPassed ==
  ASSUME Own, Own', Next, NEW h \in Heads, head[h].mode = "setup", head'[h].mode = "setup",
         NEW s \in Forward, NEW i \in Nodes, Passed(head'[h], s, i)
  PROVE  \/ Passed(head[h], s, i)
         \/ \E n \in Nodes : Serve(n) /\ n = Order[h][i] /\ lock[n].action = s /\ lock[n].tx = head[h].tx
<1>1. ASSUME head'[h] = head[h] PROVE Passed(head[h], s, i)
  BY <1>1
<1>2. ASSUME head'[h].step = head[h].step, head'[h].at = head[h].at, head'[h].call # "ok"
      PROVE  Passed(head[h], s, i)
  BY <1>2 DEF Passed
<1>3. ASSUME NEW g \in Heads, Quietly(g) PROVE Passed(head[h], s, i)
  <2>1. \A x \in Heads \ {g} : head'[x] = head[x]
    BY <1>3, QuietStep, QuietBase DEF Own
  <2> QED
    BY <1>1, <1>3, <2>1, QuietPassed DEF Own
<1>4. ASSUME NEW g \in Heads, GivesUp(g) PROVE Passed(head[h], s, i)
  <2>1. \A x \in Heads \ {g} : head'[x] = head[x]
    BY <1>4, GivesUpStep, DropsBase DEF Own
  <2>2. ASSUME g = h PROVE Passed(head[h], s, i)
    <3>1. head \in [Heads -> Processes] /\ head[h] \in Processes
      BY DEF Own, Base, TypeOK
    <3>2. CASE TimeOut(h)
      <4>1. head' = [head EXCEPT ![h].call = "error"]
        BY <3>2 DEF TimeOut
      <4>2. head'[h].step = head[h].step /\ head'[h].at = head[h].at /\ head'[h].call = "error"
        BY <3>1, <4>1 DEF Processes
      <4> QED
        BY <1>2, <4>2
    <3>3. CASE Interrupt(h)
      BY <3>1, <3>3, RollsBackOK DEF Interrupt, RollsBack, Becomes
    <3>4. CASE Killed(h)
      BY <3>1, <3>4, StopsOK DEF Killed, Stops, Becomes
    <3> QED
      BY <1>4, <2>2, <3>2, <3>3, <3>4 DEF GivesUp
  <2> QED
    BY <1>1, <2>1, <2>2
<1>5. ASSUME NEW g \in Heads, Arrive(g) PROVE Passed(head[h], s, i)
  <2>1. /\ \A x \in Heads \ {g} : head'[x] = head[x]
        /\ \E call \in {"running", "error"} : Goes(g, head[g].step, head[g].at, call)
    BY <1>5, ArriveGoes DEF Own
  <2>2. head'[g].step = head[g].step /\ head'[g].at = head[g].at /\ head'[g].call # "ok"
    BY <2>1 DEF Goes, Becomes
  <2> QED
    BY <1>1, <1>2, <2>1, <2>2
<1>6. ASSUME NEW g \in Heads, SaveManifest(g) PROVE Passed(head[h], s, i)
  <2>1. /\ \A x \in Heads \ {g} : head'[x] = head[x]
        /\ Stops(g) \/ Goes(g, "prepare", StartOf("prepare"), "none")
    BY <1>6, SaveManifestGoes DEF Own
  <2>2. CASE Stops(g)
    BY <1>1, <2>1, <2>2 DEF Stops, Becomes
  <2>3. CASE Goes(g, "prepare", StartOf("prepare"), "none") /\ g = h
    <3>1. head'[h].step = "prepare" /\ head'[h].at = 1 /\ head'[h].call = "none"
      BY <2>3 DEF Goes, Becomes, StartOf, Backward
    <3>2. ~(i < 1)
      BY NodesNat
    <3> QED
      BY <3>1, <3>2 DEF Passed, Rank, Forward
  <2> QED
    BY <1>1, <2>1, <2>2, <2>3
<1>7. ASSUME NEW g \in Heads, RestoreEnds(g) \/ KilledInSave(g) PROVE Passed(head[h], s, i)
  <2>1. Stops(g) /\ \A x \in Heads \ {g} : head'[x] = head[x]
    BY <1>7, RestoreEndsGoes, KilledInSaveGoes DEF Own
  <2> QED
    BY <1>1, <2>1 DEF Stops, Becomes
<1>8. ASSUME NEW g \in Heads, Commands(g) PROVE Passed(head[h], s, i)
  <2>1. \A x \in Heads \ {g} : head'[x] = head[x]
    BY <1>8, StartGoes DEF Own
  <2>2. head[g] = Off
    BY <1>8 DEF Commands, StartSetup, StartRestore, StartSaveEnv
  <2> QED
    BY <1>1, <2>1, <2>2 DEF Off
<1>9. ASSUME NEW n \in Nodes, Serve(n) \/ Refuse(n) \/ Fail(n)
      PROVE  \/ Passed(head[h], s, i)
             \/ Serve(n) /\ n = Order[h][i] /\ lock[n].action = s /\ lock[n].tx = head[h].tx
  <2>1. \/ head'[h] = head[h]
        \/ Serve(n) /\ Answered(n, h, "ok")
        \/ Answered(n, h, "error")
    BY <1>9, AnswerBase DEF Own
  <2>2. CASE Answered(n, h, "error")
    BY <1>2, <2>2 DEF Answered, Goes, Becomes
  <2>3. CASE Serve(n) /\ Answered(n, h, "ok")
    <3>1. /\ head'[h].step = head[h].step /\ head'[h].at = head[h].at /\ head'[h].call = "ok"
          /\ n = Order[h][head[h].at] /\ lock[n].action = head[h].step /\ lock[n].tx = head[h].tx
      BY <2>3 DEF Answered, Goes, Becomes, Node
    <3> QED
      BY <2>3, <3>1 DEF Passed
  <2> QED
    BY <1>1, <2>1, <2>2, <2>3
<1>10. ASSUME NEW n \in Nodes, Edit(n) PROVE Passed(head[h], s, i)
  BY <1>1, <1>10, EditGoes DEF Own
<1>11. ASSUME NEW r \in late, LateArrive(r) PROVE Passed(head[h], s, i)
  BY <1>1, <1>11, LateArriveGoes DEF Own
<1> QED
  BY <1>3, <1>4, <1>5, <1>6, <1>7, <1>8, <1>9, <1>10, <1>11, NextCases

\* A setup comes from a setup, or has only just started.
LEMMA StartsSetup ==
  ASSUME Own, Next, NEW h \in Heads, head'[h].mode = "setup", head[h].mode # "setup"
  PROVE  head'[h].step = "confirm"
<1>1. ASSUME NEW g \in Heads,
             \/ Quietly(g) \/ Arrive(g) \/ SaveManifest(g) \/ RestoreEnds(g)
             \/ KilledInSave(g) \/ GivesUp(g)
      PROVE  FALSE
  <2>1. \A x \in Heads \ {g} : head'[x] = head[x]
    BY <1>1, QuietStep, QuietBase, ArriveGoes, SaveManifestGoes, RestoreEndsGoes, KilledInSaveGoes,
       GivesUpStep, DropsBase DEF Own
  <2>2. g = h
    BY <2>1
  <2>3. CASE Quietly(h)
    BY <2>3, QuietStep DEF Own, Quiet, Base, Shaped, Shape
  <2>4. CASE GivesUp(h)
    BY <2>4, GivesUpStep DEF Own, Drops, Base, Shaped, Shape
  <2>5. CASE RestoreEnds(h) \/ KilledInSave(h)
    BY <2>5, RestoreEndsGoes, KilledInSaveGoes DEF Own, Stops, Becomes
  <2>6. CASE SaveManifest(h)
    BY <2>6, SaveManifestGoes DEF Own
  <2>7. CASE Arrive(h)
    <3>1. \E call \in {"running", "error"} : Goes(h, head[h].step, head[h].at, call)
      BY <2>7, ArriveGoes DEF Own
    <3> QED
      BY <3>1 DEF Goes, Becomes
  <2> QED
    BY <1>1, <2>2, <2>3, <2>4, <2>5, <2>6, <2>7
<1>2. ASSUME NEW g \in Heads, Commands(g) PROVE head'[h].step = "confirm"
  <2>1. /\ \A x \in Heads \ {g} : head'[x] = head[x]
        /\ \/ Begins(g, "setup", "confirm", 0, count["tx"] + 1)
           \/ Begins(g, "restore", "check", NNodes, manifest[StateFile[g]])
           \/ Begins(g, "saveenv", "inspect", 1, manifest[StateFile[g]])
    BY <1>2, StartGoes DEF Own
  <2> QED
    BY <2>1 DEF Begins, Becomes
<1>3. ASSUME NEW n \in Nodes, Serve(n) \/ Refuse(n) \/ Fail(n) PROVE FALSE
  <2>1. head'[h] = head[h] \/ Answered(n, h, "ok") \/ Answered(n, h, "error")
    BY <1>3, AnswerBase DEF Own
  <2> QED
    BY <2>1 DEF Answered, Goes, Becomes
<1>4. ASSUME NEW n \in Nodes, Edit(n) PROVE FALSE
  BY <1>4, EditGoes DEF Own
<1>5. ASSUME NEW r \in late, LateArrive(r) PROVE FALSE
  BY <1>5, LateArriveGoes DEF Own
<1> QED
  BY <1>1, <1>2, <1>3, <1>4, <1>5, NextCases

\* A setup keeps its transaction to its end.
LEMMA KeepsTx ==
  ASSUME Own, Next, NEW h \in Heads, head[h].mode = "setup", head'[h].mode = "setup"
  PROVE  head'[h].tx = head[h].tx
<1>1. ASSUME NEW g \in Heads,
             \/ Quietly(g) \/ Arrive(g) \/ SaveManifest(g) \/ RestoreEnds(g)
             \/ Commands(g) \/ KilledInSave(g) \/ GivesUp(g)
      PROVE  head'[h].tx = head[h].tx
  <2>1. \A x \in Heads \ {g} : head'[x] = head[x]
    BY <1>1, QuietStep, QuietBase, ArriveGoes, SaveManifestGoes, RestoreEndsGoes, StartGoes,
       KilledInSaveGoes, GivesUpStep, DropsBase DEF Own
  <2>2. ASSUME g = h PROVE head'[h].tx = head[h].tx
    <3>1. CASE Quietly(h)
      BY <3>1, QuietStep DEF Own, Quiet
    <3>2. CASE GivesUp(h)
      BY <3>2, GivesUpStep DEF Own, Drops
    <3>3. CASE RestoreEnds(h) \/ KilledInSave(h)
      BY <3>3, RestoreEndsGoes, KilledInSaveGoes DEF Own, Stops, Becomes
    <3>4. CASE SaveManifest(h)
      BY <3>4, SaveManifestGoes DEF Own, Stops, Goes, Becomes
    <3>5. CASE Arrive(h)
      <4>1. \E call \in {"running", "error"} : Goes(h, head[h].step, head[h].at, call)
        BY <3>5, ArriveGoes DEF Own
      <4> QED
        BY <4>1 DEF Goes, Becomes
    <3>6. CASE Commands(h)
      <4>1. head[h] = Off
        BY <3>6 DEF Commands, StartSetup, StartRestore, StartSaveEnv
      <4> QED
        BY <4>1 DEF Off
    <3> QED
      BY <1>1, <2>2, <3>1, <3>2, <3>3, <3>4, <3>5, <3>6
  <2> QED
    BY <2>1, <2>2
<1>2. ASSUME NEW n \in Nodes, Serve(n) \/ Refuse(n) \/ Fail(n) PROVE head'[h].tx = head[h].tx
  <2>1. head'[h] = head[h] \/ Answered(n, h, "ok") \/ Answered(n, h, "error")
    BY <1>2, AnswerBase DEF Own
  <2> QED
    BY <2>1 DEF Answered, Goes, Becomes
<1>3. ASSUME NEW n \in Nodes, Edit(n) PROVE head'[h].tx = head[h].tx
  BY <1>3, EditGoes DEF Own
<1>4. ASSUME NEW r \in late, LateArrive(r) PROVE head'[h].tx = head[h].tx
  BY <1>4, LateArriveGoes DEF Own
<1> QED
  BY <1>1, <1>2, <1>3, <1>4, NextCases

\* Whatever a setup has passed is in place.
LEMMA ProgressStep ==
  ASSUME Own, Own', Progress, [Next]_vars
  PROVE  Progress'
<1>1. CASE UNCHANGED vars
  BY <1>1 DEF vars, nodeVars, Progress
<1>2. CASE Next
  <2>1. SUFFICES ASSUME NEW h \in Heads, head'[h].mode = "setup", NEW s \in Forward, NEW i \in Nodes,
                        Passed(head'[h], s, i)
                 PROVE  journal'[Order[h][i]] = head'[h].tx /\ s \in changed'[Order[h][i]]
    BY DEF Progress
  <2>2. CASE head[h].mode # "setup"
    <3>1. head'[h].step = "confirm"
      BY <1>2, <2>1, <2>2, StartsSetup
    <3> QED
      BY <2>1, <3>1 DEF Passed, Rank, Forward
  <2>3. CASE head[h].mode = "setup"
    <3>1. Order[h][i] \in Nodes /\ head'[h].tx = head[h].tx
      BY <1>2, <2>1, <2>3, KeepsTx, ClusterAssumption
    <3>2. CASE Passed(head[h], s, i)
      <4>1. journal[Order[h][i]] = head[h].tx /\ s \in changed[Order[h][i]]
        BY <2>3, <3>2 DEF Progress
      <4> QED
        BY <2>3, <3>1, <4>1, UndisturbedStep
    <3>3. CASE \E n \in Nodes : Serve(n) /\ n = Order[h][i] /\ lock[n].action = s /\ lock[n].tx = head[h].tx
      BY <3>1, <3>3, ServeEffect DEF Own
    <3> QED
      BY <1>2, <2>1, <2>3, <3>2, <3>3, StepPassed
  <2> QED
    BY <2>2, <2>3
<1> QED
  BY <1>1, <1>2

LEMMA ProgressAlways == ASSUME OwnFiles PROVE Spec => [](Own /\ Progress)
<1>1. Init => Own /\ Progress
  <2>1. Init => Progress
    BY OffOK DEF Init, Progress
  <2> QED
    BY <2>1, InitOwn
<1>2. Own /\ Progress /\ [Next]_vars => (Own /\ Progress)'
  BY OwnStep, ProgressStep
<1> QED
  BY <1>1, <1>2, PTL DEF Spec

\* When setup reports success every node has everything in place, under the
\* transaction its state file records, however calls, kills and other heads interleave.
THEOREM SetupEndsComplete == ASSUME OwnFiles PROVE Spec => SetupComplete
<1>1. ASSUME Own, Progress, [Next]_vars, NEW h \in Heads,
             head[h].mode = "setup", VerifyPasses(h) \/ EnvSaved(h)
      PROVE  /\ manifest[StateFile[h]] = head[h].tx
             /\ \A n \in Nodes : journal[n] = head[h].tx /\ Forward \subseteq changed[n]
  <2>1. head[h].step \in {"verify", "env"}
    BY <1>1 DEF VerifyPasses, EnvSaved
  <2>2. manifest[StateFile[h]] = head[h].tx
    BY <1>1, <2>1 DEF Own, Recorded
  <2>3. \A s \in Forward, i \in Nodes : Passed(head[h], s, i)
    BY <2>1 DEF Passed, Rank, Forward
  <2>4. \A s \in Forward, i \in Nodes : journal[Order[h][i]] = head[h].tx /\ s \in changed[Order[h][i]]
    BY <1>1, <2>3 DEF Progress
  <2>5. ASSUME NEW n \in Nodes PROVE journal[n] = head[h].tx /\ Forward \subseteq changed[n]
    <3>1. PICK i \in Nodes : Order[h][i] = n
      BY ClusterAssumption
    <3>2. "prepare" \in Forward
      BY DEF Forward
    <3> QED
      BY <2>4, <3>1, <3>2
  <2> QED
    BY <2>2, <2>5
<1>2. Own /\ Progress /\ [Next]_vars =>
        \A h \in Heads :
          head[h].mode = "setup" /\ head'[h] = Off /\ (VerifyPasses(h) \/ EnvSaved(h))
            => /\ manifest[StateFile[h]] = head[h].tx
               /\ \A n \in Nodes : journal[n] = head[h].tx /\ Forward \subseteq changed[n]
  BY <1>1
<1> QED
  BY <1>2, ProgressAlways, PTL DEF Spec, SetupComplete

-----------------------------------------------------------------------------
\* No state file is ever replaced, however the heads that share it interleave:
\* what one records stays until the file is removed.
THEOREM ManifestKept == Spec => ManifestNotReplaced
<1>1. ASSUME Base, [Next]_vars, NEW f \in Files, manifest[f] # 0
      PROVE  manifest'[f] \in {manifest[f], 0}
  <2>1. manifest \in [Files -> 0..Torn]
    BY <1>1 DEF Base, TypeOK
  <2>2. ASSUME manifest' = manifest PROVE manifest'[f] \in {manifest[f], 0}
    BY <2>2
  <2>3. ASSUME NEW h \in Heads, NEW t, manifest' = [manifest EXCEPT ![StateFile[h]] = t],
               t = 0 \/ manifest[StateFile[h]] = 0
        PROVE  manifest'[f] \in {manifest[f], 0}
    BY <1>1, <2>1, <2>3
  <2>4. ASSUME NEW h \in Heads, Quietly(h) \/ Arrive(h) \/ Commands(h) \/ GivesUp(h)
        PROVE  manifest' = manifest
    BY <1>1, <2>4, QuietStep, ArriveGoes, StartGoes, GivesUpStep DEF Quiet, Others, Drops
  <2>5. ASSUME NEW h \in Heads, SaveManifest(h) \/ KilledInSave(h) \/ RestoreEnds(h)
        PROVE  \/ manifest' = manifest
               \/ \E t \in {0, Torn, head[h].tx} :
                    /\ manifest' = [manifest EXCEPT ![StateFile[h]] = t]
                    /\ t = 0 \/ manifest[StateFile[h]] = 0
    <3>1. CASE SaveManifest(h)
      BY <1>1, <3>1, SaveManifestGoes
    <3>2. CASE KilledInSave(h)
      BY <1>1, <3>2, KilledInSaveGoes
    <3>3. CASE RestoreEnds(h)
      BY <1>1, <3>3, RestoreEndsGoes
    <3> QED
      BY <2>5, <3>1, <3>2, <3>3
  <2>6. ASSUME NEW n \in Nodes, Serve(n) \/ Refuse(n) \/ Fail(n) \/ Edit(n) PROVE manifest' = manifest
    BY <1>1, <2>6, AnswerBase, EditGoes
  <2>7. ASSUME NEW r \in late, LateArrive(r) PROVE manifest' = manifest
    BY <1>1, <2>7, LateArriveGoes
  <2>8. CASE UNCHANGED vars
    BY <2>2, <2>8 DEF vars
  <2> QED
    BY <1>1, <2>2, <2>3, <2>4, <2>5, <2>6, <2>7, <2>8, NextCases
<1>2. Base /\ [Next]_vars => \A f \in Files : manifest[f] # 0 => manifest'[f] \in {manifest[f], 0}
  BY <1>1
<1> QED
  BY <1>2, BaseAlways, PTL DEF Spec, ManifestNotReplaced

-----------------------------------------------------------------------------
\* What the journals rest on that no late prepare made.
Cover == Covered /\ Preparing /\ Clearing

\* A restore goes on only past nodes it has cleared.
LEMMA QuietClearing ==
  ASSUME Own, Clearing, NEW h \in Heads, Quietly(h)
  PROVE  Clearing'
<1>1. /\ UNCHANGED Others /\ \A g \in Heads \ {h} : head'[g] = head[g]
      /\ head \in [Heads -> Processes] /\ Shaped /\ head[h] \in Processes
      /\ head[h].mode # "off"
  BY QuietStep, QuietBase DEF Own, Base, TypeOK, Quiet
<1>2. strays' = strays /\ \A n \in Nodes : journal'[n] = journal[n] /\ lock'[n] = lock[n]
  BY <1>1 DEF Others
<1>3. ASSUME NEW i \in Nodes, head'[h].step = "restore", ~head'[h].failed,
             head'[h].at < i \/ (i = head'[h].at /\ head'[h].call = "ok")
      PROVE  /\ head[h].step = "restore" /\ ~head[h].failed /\ head'[h].tx = head[h].tx
             /\ head[h].at < i \/ (i = head[h].at /\ head[h].call = "ok")
  <2>0. i <= NNodes /\ i \in Nat /\ NNodes \in Nat /\ head[h].at \in Nat
    BY <1>1, NodesNat DEF Processes
  <2>1. CASE Send(h)
    <3>1. Goes(h, head[h].step, head[h].at, "sent")
      BY <1>1, <2>1, SendGoes
    <3> QED
      BY <1>3, <3>1 DEF Goes, Becomes
  <2>2. CASE SetupProceeds(h)
    <3>1. head'[h].step \in Forward \union {"verify"}
      BY <1>1, <2>2, SetupProceedsGoes DEF SetupProceeds, Goes, Becomes, NextStep, Forward
    <3> QED
      BY <1>3, <3>1 DEF Forward
  <2>3. CASE VerifyPasses(h) \/ VerifyFails(h) \/ EnvSaved(h) \/ SetupFails(h) \/ SaveEnvFails(h)
    <3>1. head'[h].step \in {"env", "none", "check"}
      BY <1>1, <2>3, VerifyPassesGoes, VerifyFailsGoes, StopsOK, RollsBackOK
         DEF EnvSaved, SetupFails, SaveEnvFails, Goes, Becomes, Stops, RollsBack
    <3> QED
      BY <1>3, <3>1
  <2>4. CASE SaveEnvProceeds(h)
    <3>1. head'[h].step \in {"inspect", "verify"}
      BY <1>1, <2>4, SaveEnvProceedsGoes DEF Goes, Becomes
    <3> QED
      BY <1>3, <3>1
  <2>5. CASE Checked(h)
    <3>1. head'[h].step \in {"check", "none"} \/ (head'[h].at = NNodes /\ head'[h].call = "none")
      BY <1>1, <2>5, CheckedGoes DEF Becomes, Stops
    <3> QED
      BY <1>3, <2>0, <3>1
  <2>6. CASE SkipNode(h)
    <3>1. /\ head[h].step = "restore" /\ head[h].at \in Nodes \ head[h].ready
          /\ head'[h].failed = head[h].failed
      BY <1>1, <2>6, SkipNodeGoes DEF SkipNode, Goes, Becomes
    <3>2. head[h].ready = Nodes
      BY <1>3, <3>1 DEF Own, Base, Checking, Checks
    <3> QED
      BY <3>1, <3>2
  <2>7. CASE Restored(h)
    <3>1. /\ head'[h].at = head[h].at - 1 /\ head'[h].call = "none" /\ head'[h].tx = head[h].tx
          /\ head'[h].failed = (head[h].failed \/ head[h].call = "error")
      BY <1>1, <2>7, RestoredGoes DEF Becomes
    <3>2. head[h].step = "restore" /\ head[h].call \in {"ok", "error"}
      BY <2>7 DEF Restored
    <3>3. ~head[h].failed /\ head[h].call = "ok"
      <4>1. ~(head[h].failed \/ head[h].call = "error")
        BY <1>3, <3>1, Zenon
      <4> QED
        BY <3>2, <4>1
    <3>4. head[h].at - 1 < i
      BY <1>3, <3>1
    <3>5. head[h].at < i \/ i = head[h].at
      BY <2>0, <3>4
    <3> QED
      BY <3>1, <3>2, <3>3, <3>5
  <2> QED
    BY <2>1, <2>2, <2>3, <2>4, <2>5, <2>6, <2>7 DEF Quietly
<1>4. SUFFICES ASSUME NEW g \in Heads, head'[g].step = "restore", ~head'[g].failed, NEW i \in Nodes,
                      head'[g].at < i \/ (i = head'[g].at /\ head'[g].call = "ok"),
                      <<Order[g][i], head'[g].tx>> \notin strays'
               PROVE  /\ journal'[Order[g][i]] # head'[g].tx
                      /\ ~(lock'[Order[g][i]].action = "prepare" /\ lock'[Order[g][i]].tx = head'[g].tx)
  BY DEF Clearing, Cleared
<1>5. /\ head[g].step = "restore" /\ ~head[g].failed /\ head'[g].tx = head[g].tx
      /\ head[g].at < i \/ (i = head[g].at /\ head[g].call = "ok")
  BY <1>1, <1>3, <1>4
<1>6. Cleared(Order[g][i], head[g].tx)
  BY <1>5 DEF Clearing
<1>7. Order[g][i] \in Nodes
  BY ClusterAssumption
<1>8. <<Order[g][i], head[g].tx>> \notin strays
  BY <1>2, <1>4, <1>5
<1> QED
  BY <1>2, <1>5, <1>6, <1>7, <1>8 DEF Cleared

\* A step that leaves every restore where it was, and prepares nothing under its transaction.
LEMMA StandsClearing ==
  ASSUME Own, Clearing, strays \subseteq strays',
         \A h \in Heads : head'[h].step = "restore" /\ ~head'[h].failed =>
           /\ head[h].step = "restore" /\ ~head[h].failed /\ head'[h].tx = head[h].tx
           /\ head'[h].at = head[h].at /\ (head'[h].call = "ok" => head[h].call = "ok"),
         \A n \in Nodes :
           journal'[n] = 0 \/ journal'[n] = journal[n] \/ (lock[n].action = "prepare" /\ journal'[n] = lock[n].tx),
         \A n \in Nodes, h \in Heads : head[h].step = "restore" =>
           \/ lock'[n].action = lock[n].action /\ lock'[n].tx = lock[n].tx
           \/ lock'[n].action # "prepare" \/ lock'[n].tx # head[h].tx
  PROVE  Clearing'
<1>1. SUFFICES ASSUME NEW h \in Heads, head'[h].step = "restore", ~head'[h].failed, NEW i \in Nodes,
                      head'[h].at < i \/ (i = head'[h].at /\ head'[h].call = "ok"),
                      <<Order[h][i], head'[h].tx>> \notin strays'
               PROVE  /\ journal'[Order[h][i]] # head'[h].tx
                      /\ ~(lock'[Order[h][i]].action = "prepare" /\ lock'[Order[h][i]].tx = head'[h].tx)
  BY DEF Clearing, Cleared
<1>2. /\ head[h].step = "restore" /\ head'[h].tx = head[h].tx
      /\ Cleared(Order[h][i], head[h].tx) /\ Order[h][i] \in Nodes
  <2>1. /\ head[h].step = "restore" /\ ~head[h].failed /\ head'[h].tx = head[h].tx
        /\ head'[h].at = head[h].at /\ (head'[h].call = "ok" => head[h].call = "ok")
    BY <1>1
  <2>2. head[h].at < i \/ (i = head[h].at /\ head[h].call = "ok")
    BY <1>1, <2>1
  <2>3. Cleared(Order[h][i], head[h].tx)
    BY <2>1, <2>2 DEF Clearing
  <2>4. Order[h][i] \in Nodes
    BY ClusterAssumption
  <2> QED
    BY <2>1, <2>3, <2>4
<1>3. head[h].tx # 0
  BY <1>2 DEF Own, Base, Shaped, Shape, Tx
<1>4. <<Order[h][i], head[h].tx>> \notin strays
  BY <1>1, <1>2
<1>5. journal[Order[h][i]] # head[h].tx
      /\ ~(lock[Order[h][i]].action = "prepare" /\ lock[Order[h][i]].tx = head[h].tx)
  BY <1>2, <1>4 DEF Cleared
<1> QED
  BY <1>2, <1>3, <1>5

\* A node that answers a restore with success has neither the journal nor a prepare.
LEMMA AnswerClearing ==
  ASSUME Own, Clearing, NEW n \in Nodes, Serve(n) \/ Refuse(n) \/ Fail(n)
  PROVE  Clearing'
<1>1. /\ lock' = [lock EXCEPT ![n] = Free]
      /\ Effect(n) \/ UNCHANGED <<journal, changed>>
      /\ \/ Serve(n) /\ \A g \in Heads : head'[g] = head[g] \/ Answered(n, g, "ok")
         \/ \A g \in Heads : head'[g] = head[g] \/ Answered(n, g, "error")
      /\ lock \in [Nodes -> Requests] /\ Free.action = "none" /\ strays' = strays
  BY AnswerBase DEF Own, Base, TypeOK, Free
<1>2. /\ lock'[n].action = "none" /\ \A m \in Nodes \ {n} : lock'[m] = lock[m]
      /\ \A m \in Nodes : journal'[m] = 0 \/ journal'[m] = journal[m]
                            \/ (lock[m].action = "prepare" /\ journal'[m] = lock[m].tx)
  <2>1. lock'[n].action = "none" /\ \A m \in Nodes \ {n} : lock'[m] = lock[m]
    BY <1>1
  <2>2. \A m \in Nodes : journal'[m] = 0 \/ journal'[m] = journal[m]
                            \/ (lock[m].action = "prepare" /\ journal'[m] = lock[m].tx)
    BY <1>1 DEF Effect
  <2> QED
    BY <2>1, <2>2
<1>3. SUFFICES ASSUME NEW h \in Heads, head'[h].step = "restore", ~head'[h].failed, NEW i \in Nodes,
                      head'[h].at < i \/ (i = head'[h].at /\ head'[h].call = "ok"),
                      <<Order[h][i], head'[h].tx>> \notin strays'
               PROVE  /\ journal'[Order[h][i]] # head'[h].tx
                      /\ ~(lock'[Order[h][i]].action = "prepare" /\ lock'[Order[h][i]].tx = head'[h].tx)
  BY DEF Clearing, Cleared
<1>4. /\ head[h].step = "restore" /\ ~head[h].failed /\ head'[h].tx = head[h].tx /\ head'[h].at = head[h].at
      /\ head'[h] = head[h] \/ (Serve(n) /\ Answered(n, h, "ok")) \/ head'[h].call = "error"
  BY <1>1, <1>3 DEF Answered, Goes, Becomes
<1>5. head[h].tx # 0 /\ Order[h][i] \in Nodes
  BY <1>4, ClusterAssumption DEF Own, Base, Shaped, Shape, Tx
<1>6. CASE Cleared(Order[h][i], head[h].tx)
  <2>1. <<Order[h][i], head[h].tx>> \notin strays
    BY <1>1, <1>3, <1>4
  <2>2. journal[Order[h][i]] # head[h].tx
        /\ ~(lock[Order[h][i]].action = "prepare" /\ lock[Order[h][i]].tx = head[h].tx)
    BY <1>6, <2>1 DEF Cleared
  <2> QED
    BY <1>2, <1>4, <1>5, <2>2
<1>7. CASE i = head[h].at /\ Serve(n) /\ Answered(n, h, "ok")
  <2>1. Order[h][i] = n /\ lock[n].action = "restore"
    BY <1>4, <1>7 DEF Answered, Node
  <2>2. journal'[n] = 0
    BY <1>7, <2>1, ServeEffect DEF Own
  <2> QED
    BY <1>2, <1>4, <1>5, <2>1, <2>2
<1> QED
  BY <1>3, <1>4, <1>6, <1>7 DEF Clearing

\* The state file goes only when no node and no call is left under its transaction.
LEMMA RestoreEndsCover ==
  ASSUME OwnFiles, Own, Cover, NEW h \in Heads, RestoreEnds(h)
  PROVE  Cover'
<1>1. /\ UNCHANGED <<journal, changed, lock, late, strays, count>> /\ Stops(h)
      /\ head[h].mode # "off" /\ head[h].step = "restore" /\ head[h].at = 0
      /\ manifest' = IF head[h].failed THEN manifest ELSE [manifest EXCEPT ![StateFile[h]] = 0]
      /\ \A g \in Heads \ {h} : head'[g] = head[g]
  BY RestoreEndsGoes DEF Own
<1>2. head'[h].step = "none"
  BY <1>1 DEF Stops, Becomes
<1>3. Clearing'
  BY <1>1, <1>2 DEF Cover, Clearing, Cleared
<1>5. CASE head[h].failed
  <2>1. manifest' = manifest
    BY <1>1, <1>5
  <2> QED
    BY <1>1, <1>3, <2>1 DEF Cover, Covered, Preparing
<1>6. CASE ~head[h].failed
  <2>1. manifest' = [manifest EXCEPT ![StateFile[h]] = 0] /\ manifest \in [Files -> 0..Torn]
    BY <1>1, <1>6 DEF Own, Base, TypeOK
  <2>2. manifest[StateFile[h]] = head[h].tx
    BY <1>1 DEF Own, Recorded
  <2>3. ASSUME NEW n \in Nodes PROVE Cleared(n, head[h].tx)
    <3>1. PICK i \in Nodes : Order[h][i] = n
      BY ClusterAssumption
    <3>2. 0 < i
      BY NodesNat
    <3> QED
      BY <1>1, <1>6, <3>1, <3>2 DEF Cover, Clearing
  <2>4. \A f \in Files : manifest[f] # head[h].tx => manifest'[f] = manifest[f]
    BY <2>1, <2>2
  <2>5. Covered'
    BY <1>1, <2>3, <2>4 DEF Cover, Covered, Cleared
  <2>6. Preparing'
    BY <1>1, <2>3, <2>4 DEF Cover, Preparing, Cleared
  <2> QED
    BY <1>3, <2>5, <2>6 DEF Cover
<1> QED
  BY <1>5, <1>6

\* A manifest is written where there was none, so it takes nothing away.
LEMMA WriteCover ==
  ASSUME Own, Cover, NEW h \in Heads, NEW t, manifest[StateFile[h]] = 0,
         manifest' = [manifest EXCEPT ![StateFile[h]] = t],
         UNCHANGED <<journal, lock, late, strays>>, head'[h].step # "restore",
         \A g \in Heads \ {h} : head'[g] = head[g]
  PROVE  Cover'
<1>1. manifest \in [Files -> 0..Torn]
  BY DEF Own, Base, TypeOK
<1>2. \A f \in Files : manifest[f] # 0 => manifest'[f] = manifest[f]
  BY <1>1
<1>3. \A n \in Nodes : lock[n].action = "prepare" => lock[n].tx # 0
  <2>1. \A n \in Nodes : lock[n].action = "prepare" => lock[n] # Free
    BY DEF Free
  <2> QED
    BY <2>1 DEF Own, Base, Serving, Attended, Tx
<1>4. Covered' /\ Preparing'
  BY <1>2, <1>3 DEF Cover, Covered, Preparing
<1>5. Clearing'
  BY DEF Cover, Clearing, Cleared
<1> QED
  BY <1>4, <1>5 DEF Cover

\* A prepare takes a lock only under a manifest.
LEMMA ArriveCover ==
  ASSUME OwnFiles, Own, Cover, NEW h \in Heads, Arrive(h)
  PROVE  Cover'
<1>1. /\ head[h].mode # "off" /\ head[h].step # "confirm" /\ UNCHANGED <<manifest, journal, changed, late, strays, count>>
      /\ \A g \in Heads \ {h} : head'[g] = head[g]
      /\ \A n \in Nodes : lock'[n] = lock[n]
           \/ (n = Node(h) /\ lock'[n] = [action |-> head[h].step, tx |-> head[h].tx, head |-> h])
      /\ \E call \in {"running", "error"} : Goes(h, head[h].step, head[h].at, call)
  BY ArriveGoes DEF Own
<1>2. \A n \in Nodes : lock'[n] = lock[n] \/ (lock'[n].action = head[h].step /\ lock'[n].tx = head[h].tx)
  BY <1>1
<1>3. /\ head'[h].step = head[h].step /\ head'[h].at = head[h].at /\ head'[h].call # "ok"
      /\ head'[h].tx = head[h].tx /\ head'[h].failed = head[h].failed
  BY <1>1 DEF Goes, Becomes
<1>4. manifest[StateFile[h]] = head[h].tx /\ StateFile[h] \in Files
  BY <1>1 DEF Own, Recorded, Files
<1>5. Covered' /\ Preparing'
  BY <1>1, <1>2, <1>4 DEF Cover, Covered, Preparing
<1>6. Clearing'
  <2>1. SUFFICES ASSUME NEW g \in Heads, head'[g].step = "restore", ~head'[g].failed, NEW i \in Nodes,
                        head'[g].at < i \/ (i = head'[g].at /\ head'[g].call = "ok"),
                        <<Order[g][i], head'[g].tx>> \notin strays'
                 PROVE  /\ journal'[Order[g][i]] # head'[g].tx
                        /\ ~(lock'[Order[g][i]].action = "prepare" /\ lock'[Order[g][i]].tx = head'[g].tx)
    BY DEF Clearing, Cleared
  <2>2. /\ head[g].step = "restore" /\ ~head[g].failed /\ head'[g].tx = head[g].tx
        /\ head[g].at < i \/ (i = head[g].at /\ head[g].call = "ok")
    BY <1>1, <1>3, <2>1
  <2>3. Cleared(Order[g][i], head[g].tx) /\ Order[g][i] \in Nodes
    BY <2>2, ClusterAssumption DEF Cover, Clearing
  <2>4. head[g].mode # "off"
    BY <2>2 DEF Own, Base, Shaped, Shape
  <2>5. head[h].step = "prepare" => head[h].tx # head[g].tx
    <3>1. head[h].step = "prepare" => g # h
      BY <2>2
    <3> QED
      BY <1>1, <2>4, <3>1, HeadsApart DEF Own
  <2>6. <<Order[g][i], head[g].tx>> \notin strays
    BY <1>1, <2>1, <2>2
  <2>7. journal[Order[g][i]] # head[g].tx
        /\ ~(lock[Order[g][i]].action = "prepare" /\ lock[Order[g][i]].tx = head[g].tx)
    BY <2>3, <2>6 DEF Cleared
  <2> QED
    BY <1>1, <1>2, <2>2, <2>3, <2>5, <2>7
<1> QED
  BY <1>1, <1>5, <1>6 DEF Cover

\* The cover is inductive, given that the transactions stay apart.
LEMMA CoverStep ==
  ASSUME OwnFiles, Own, Cover, [Next]_vars
  PROVE  Cover'
<1>1. ASSUME NEW h \in Heads, Quietly(h) PROVE Cover'
  <2>1. UNCHANGED Others
    BY <1>1, QuietStep DEF Own, Quiet
  <2> QED
    BY <1>1, <2>1, QuietClearing DEF Others, Cover, Covered, Preparing
<1>2. ASSUME NEW h \in Heads, GivesUp(h) PROVE Cover'
  <2>1. /\ Dropped(h) /\ UNCHANGED <<manifest, journal, changed, drift, strays>>
        /\ \A g \in Heads \ {h} : head'[g] = head[g]
    BY <1>2, GivesUpStep, DropsBase DEF Own, Drops
  <2>2. \A n \in Nodes : lock'[n].action = lock[n].action /\ lock'[n].tx = lock[n].tx
    BY <2>1, DroppedLeaves DEF Own
  <2>3. \/ head'[h].step # "restore"
        \/ /\ head'[h].step = head[h].step /\ head'[h].at = head[h].at /\ head'[h].call = "error"
           /\ head'[h].tx = head[h].tx /\ head'[h].failed = head[h].failed
    <3>1. head \in [Heads -> Processes]
      BY DEF Own, Base, TypeOK
    <3>2. CASE TimeOut(h)
      <4>1. head[h] \in Processes /\ head' = [head EXCEPT ![h].call = "error"]
        BY <3>1, <3>2 DEF TimeOut
      <4> QED
        BY <3>1, <4>1 DEF Processes
    <3>3. CASE Interrupt(h) \/ Killed(h)
      BY <3>1, <3>3, RollsBackOK, StopsOK DEF Interrupt, Killed, RollsBack, Stops, Becomes
    <3> QED
      BY <1>2, <3>2, <3>3 DEF GivesUp
  <2>4. Clearing'
    BY <2>1, <2>2, <2>3, StandsClearing DEF Cover
  <2> QED
    BY <2>1, <2>2, <2>4 DEF Cover, Covered, Preparing
<1>3. ASSUME NEW h \in Heads, SaveManifest(h) PROVE Cover'
  <2>1. /\ UNCHANGED <<journal, changed, lock, late, strays, count>> /\ \A g \in Heads \ {h} : head'[g] = head[g]
        /\ \/ manifest' = manifest /\ Stops(h)
           \/ /\ manifest[StateFile[h]] = 0 /\ manifest' = [manifest EXCEPT ![StateFile[h]] = head[h].tx]
              /\ Goes(h, "prepare", StartOf("prepare"), "none")
    BY <1>3, SaveManifestGoes DEF Own
  <2>2. head'[h].step # "restore"
    BY <2>1 DEF Stops, Goes, Becomes
  <2>3. CASE manifest' = manifest
    BY <2>1, <2>2, <2>3 DEF Cover, Covered, Preparing, Clearing, Cleared
  <2>4. CASE manifest[StateFile[h]] = 0 /\ manifest' = [manifest EXCEPT ![StateFile[h]] = head[h].tx]
    BY <2>1, <2>2, <2>4, WriteCover
  <2> QED
    BY <2>1, <2>3, <2>4
<1>4. ASSUME NEW h \in Heads, KilledInSave(h) PROVE Cover'
  <2>1. /\ UNCHANGED <<journal, lock, late, strays>> /\ \A g \in Heads \ {h} : head'[g] = head[g]
        /\ manifest[StateFile[h]] = 0 /\ manifest' = [manifest EXCEPT ![StateFile[h]] = Torn]
        /\ head'[h].step # "restore"
    BY <1>4, KilledInSaveGoes DEF Own, Stops, Becomes
  <2> QED
    BY <2>1, WriteCover
<1>5. ASSUME NEW h \in Heads, Commands(h) PROVE Cover'
  <2>1. /\ UNCHANGED <<manifest, journal, lock, late, strays>> /\ \A g \in Heads \ {h} : head'[g] = head[g]
        /\ \/ Begins(h, "setup", "confirm", 0, count["tx"] + 1)
           \/ Begins(h, "restore", "check", NNodes, manifest[StateFile[h]])
           \/ Begins(h, "saveenv", "inspect", 1, manifest[StateFile[h]])
    BY <1>5, StartGoes DEF Own
  <2>2. head'[h].step # "restore"
    BY <2>1 DEF Begins, Becomes
  <2> QED
    BY <2>1, <2>2 DEF Cover, Covered, Preparing, Clearing, Cleared
<1>6. ASSUME NEW n \in Nodes, Serve(n) \/ Refuse(n) \/ Fail(n) PROVE Cover'
  <2>1. /\ UNCHANGED <<manifest, late, strays>> /\ lock' = [lock EXCEPT ![n] = Free]
        /\ Effect(n) \/ UNCHANGED <<journal, changed>>
        /\ lock \in [Nodes -> Requests] /\ Free.action = "none"
    BY <1>6, AnswerBase DEF Own, Base, TypeOK, Free
  <2>2. \A m \in Nodes : lock'[m] = lock[m] \/ lock'[m].action = "none"
    BY <2>1
  <2>3. \A m \in Nodes : journal'[m] = 0 \/ journal'[m] = journal[m]
                            \/ (lock[m].action = "prepare" /\ journal'[m] = lock[m].tx)
    BY <2>1 DEF Effect
  <2>4. Covered' /\ Preparing'
    BY <2>1, <2>2, <2>3 DEF Cover, Covered, Preparing
  <2> QED
    BY <1>6, <2>1, <2>4, AnswerClearing DEF Cover
<1>7. ASSUME NEW n \in Nodes, Edit(n) PROVE Cover'
  BY <1>7, EditGoes DEF Own, Cover, Covered, Preparing, Clearing, Cleared
<1>8. ASSUME NEW r \in late, LateArrive(r) PROVE Cover'
  <2>1. UNCHANGED <<manifest, head, journal>> /\ strays \subseteq strays'
    BY <1>8, LateArriveGoes DEF Own, LateArrive
  <2>2. \A n \in Nodes : lock'[n] = lock[n] \/ lock'[n].action # "prepare" \/ <<n, lock'[n].tx>> \in strays'
    <3>1. lock \in [Nodes -> Requests]
      BY DEF Own, Base, TypeOK
    <3>2. CASE lock[r.node] = Free
      <4>1. lock' = [lock EXCEPT ![r.node] = [action |-> r.action, tx |-> r.tx, head |-> NoHead]]
        BY <1>8, <3>2 DEF LateArrive
      <4>2. r.action = "prepare" => <<r.node, r.tx>> \in strays'
        BY <1>8, <3>2 DEF LateArrive
      <4> QED
        BY <3>1, <4>1, <4>2
    <3> QED
      BY <1>8, <3>2 DEF LateArrive
  <2>3. Covered' /\ Preparing'
    BY <2>1, <2>2 DEF Cover, Covered, Preparing
  <2>4. ASSUME NEW n \in Nodes, NEW t, Cleared(n, t)
        PROVE  <<n, t>> \notin strays' => journal'[n] # t /\ ~(lock'[n].action = "prepare" /\ lock'[n].tx = t)
    BY <2>1, <2>2, <2>4 DEF Cleared
  <2>5. Clearing'
    <3>1. SUFFICES ASSUME NEW h \in Heads, head'[h].step = "restore", ~head'[h].failed, NEW i \in Nodes,
                          head'[h].at < i \/ (i = head'[h].at /\ head'[h].call = "ok"),
                          <<Order[h][i], head'[h].tx>> \notin strays'
                   PROVE  /\ journal'[Order[h][i]] # head'[h].tx
                          /\ ~(lock'[Order[h][i]].action = "prepare" /\ lock'[Order[h][i]].tx = head'[h].tx)
      BY DEF Clearing, Cleared
    <3>2. Cleared(Order[h][i], head[h].tx) /\ head'[h] = head[h]
      BY <2>1, <3>1 DEF Cover, Clearing
    <3>3. Order[h][i] \in Nodes
      BY ClusterAssumption
    <3> QED
      BY <2>4, <3>1, <3>2, <3>3
  <2> QED
    BY <2>3, <2>5 DEF Cover
<1>9. CASE UNCHANGED vars
  BY <1>9 DEF vars, nodeVars, Cover, Covered, Preparing, Clearing, Cleared
<1> QED
  BY <1>1, <1>2, <1>3, <1>4, <1>5, <1>6, <1>7, <1>8, <1>9, ArriveCover, RestoreEndsCover, NextCases

\* Every journal on a node is under a transaction some state file records, so --restore
\* can undo it, unless its prepare started only after the head had given it up.
THEOREM JournalsCovered ==
  ASSUME OwnFiles
  PROVE  Spec => []ManifestCovers
<1>1. Init => Own /\ Cover
  <2>1. Free.action = "none" /\ \A h \in Heads : Init => head[h].step = "none"
    BY OffOK DEF Free, Init
  <2>2. Init => Cover
    BY <2>1 DEF Init, Cover, Covered, Preparing, Clearing
  <2> QED
    BY <2>2, InitOwn
<1>2. Own /\ Cover /\ [Next]_vars => (Own /\ Cover)'
  BY OwnStep, CoverStep
<1>3. Own /\ Cover => ManifestCovers
  BY DEF Cover, Covered, ManifestCovers, Stray
<1> QED
  BY <1>1, <1>2, <1>3, PTL DEF Spec
=============================================================================
