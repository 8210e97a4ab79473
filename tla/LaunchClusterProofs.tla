------------------------ MODULE LaunchClusterProofs ------------------------
(***************************************************************************)
(* What LaunchCluster keeps for every number of launchers and nodes.       *)
(*                                                                         *)
(* The inductive invariant of LeavesNothing, IInv, follows a foreground    *)
(* launcher's containers: as long as there is one, the launcher either     *)
(* still has its traps and a reason to use them, or its cleanup has that   *)
(* node ahead of it.                                                       *)
(*                                                                         *)
(* SparesRunning and ReadyFirst rest on Known: what each launcher that was *)
(* not misled knows of the containers, which nodes it has found empty,     *)
(* filled and readied on the way it has come.  What the other launchers do *)
(* meanwhile either keeps that or misleads it.                             *)
(***************************************************************************)
EXTENDS LaunchCluster, TLAPS

\* Where the flag, the traps and the containers can stand to each other.
Flagged ==
  \A l \in Launchers :
    /\ pc[l] \in {"image", "run", "mods", "copy", "ray", "wait"} => ~wasRunning[l]
    /\ pc[l] \in {"idle", "check", "image"} \/ wasRunning[l] => \A n \in Nodes : box[n] # l
    /\ pc[l] = "idle" => stopping[l] = 0

Trapped ==
  \A l \in Launchers \ Daemons :
    pc[l] \in Launching /\ ~upset[l] => trapped[l]

\* A container of a launcher that was not upset is still its concern.
Minded ==
  \A l \in Launchers \ Daemons, n \in Nodes :
    box[n] = l /\ ~upset[l] =>
      \/ stopping[l] \in 1..n
      \/ stopping[l] = 0 /\ trapped[l] /\ pc[l] \notin {"idle", "done"}

IInv == TypeOK /\ Flagged /\ Trapped /\ Minded

LEMMA InitInv == Init => IInv
BY LauncherAssumption DEF Init, IInv, TypeOK, Flagged, Trapped, Minded, Nodes, Phases, Launching

\* Whichever way the loop goes on, the launcher stands at a node in a phase.
LEMMA NextNodeType ==
  ASSUME NEW l \in Launchers, NEW last \in Nodes, NEW phase \in Phases,
         TypeOK, NextNode(l, last, phase)
  PROVE  pc' \in [Launchers -> Phases] /\ at' \in [Launchers -> Nodes]
<1>1. CASE at[l] < last
  <2>1. at[l] + 1 \in Nodes
    BY <1>1, LauncherAssumption DEF TypeOK, Nodes
  <2> QED
    BY <1>1, <2>1 DEF TypeOK, NextNode
<1>2. CASE ~(at[l] < last)
  <2>1. 1 \in Nodes
    BY LauncherAssumption DEF Nodes
  <2> QED
    BY <1>2, <2>1 DEF TypeOK, NextNode, GoTo
<1> QED
  BY <1>1, <1>2

LEMMA Inductive == IInv /\ [Next]_vars => IInv'
<1> SUFFICES ASSUME IInv, [Next]_vars PROVE IInv'
  OBVIOUS
<1> USE LauncherAssumption DEF IInv, boxVars, scriptVars
<1>1. ASSUME NEW l \in Launchers, Start(l) PROVE IInv'
  <2>1. TypeOK'
    BY <1>1 DEF Start, GoTo, In, TypeOK, Nodes, Phases
  <2>2. Flagged'
    BY <1>1 DEF Start, GoTo, In, Flagged, TypeOK, Nodes
  <2>3. Trapped'
    BY <1>1 DEF Start, GoTo, In, Trapped, TypeOK, Launching, Phases
  <2>4. Minded'
    BY <1>1 DEF Start, GoTo, In, Minded, Flagged, Trapped, TypeOK, Nodes, Launching, Phases
  <2> QED
    BY <2>1, <2>2, <2>3, <2>4
<1>2. ASSUME NEW l \in Launchers, CheckClusterRunning(l) PROVE IInv'
  <2>1. TypeOK'
    <3>1. NNodes \in Nodes
      BY DEF Nodes
    <3>2. (IF wasRunning'[l] THEN "exec" ELSE "image") \in Phases
      BY DEF Phases
    <3>3. pc' \in [Launchers -> Phases] /\ at' \in [Launchers -> Nodes]
      BY <1>2, <3>1, <3>2, NextNodeType DEF CheckClusterRunning, CheckNode
    <3>4. wasRunning' \in [Launchers -> BOOLEAN]
      BY <1>2 DEF CheckClusterRunning, CheckNode, TypeOK
    <3> QED
      BY <1>2, <3>3, <3>4 DEF CheckClusterRunning, CheckNode, NoFault, TypeOK
  <2>2. Flagged'
    BY <1>2 DEF CheckClusterRunning, CheckNode, NextNode, GoTo, In, Here, NoFault, Flagged, TypeOK, Nodes
  <2>3. Trapped'
    BY <1>2 DEF CheckClusterRunning, CheckNode, NextNode, GoTo, In, Here, NoFault, Trapped, TypeOK, Launching, Phases
  <2>4. Minded'
    BY <1>2 DEF CheckClusterRunning, CheckNode, NextNode, GoTo, In, Here, NoFault, Minded, Flagged, Trapped, TypeOK, Nodes, Launching, Phases
  <2> QED
    BY <2>1, <2>2, <2>3, <2>4
<1>3. ASSUME NEW l \in Launchers, CheckMisses(l) PROVE IInv'
  <2>1. TypeOK'
    <3>1. NNodes \in Nodes
      BY DEF Nodes
    <3>2. (IF wasRunning'[l] THEN "exec" ELSE "image") \in Phases
      BY DEF Phases
    <3>3. pc' \in [Launchers -> Phases] /\ at' \in [Launchers -> Nodes]
      BY <1>3, <3>1, <3>2, NextNodeType DEF CheckMisses, CheckNode
    <3>4. wasRunning' \in [Launchers -> BOOLEAN] /\ misled' \in [Launchers -> BOOLEAN]
      BY <1>3 DEF CheckMisses, CheckNode, TypeOK
    <3>5. faults' \in 0..MaxFaults
      BY <1>3 DEF CheckMisses, Fault, TypeOK
    <3> QED
      BY <1>3, <3>3, <3>4, <3>5 DEF CheckMisses, CheckNode, TypeOK
  <2>2. Flagged'
    BY <1>3 DEF CheckMisses, CheckNode, NextNode, GoTo, In, Fault, Flagged, TypeOK, Nodes
  <2>3. Trapped'
    BY <1>3 DEF CheckMisses, CheckNode, NextNode, GoTo, In, Fault, Trapped, TypeOK, Launching, Phases
  <2>4. Minded'
    BY <1>3 DEF CheckMisses, CheckNode, NextNode, GoTo, In, Fault, Minded, Flagged, Trapped, TypeOK, Nodes, Launching, Phases
  <2> QED
    BY <2>1, <2>2, <2>3, <2>4
<1>4. ASSUME NEW l \in Launchers, PrsRefused(l) PROVE IInv'
  <2>1. TypeOK'
    BY <1>4 DEF PrsRefused, Leave, GoTo, In, NoFault, TypeOK, Nodes, Phases
  <2>2. Flagged'
    BY <1>4 DEF PrsRefused, Leave, GoTo, In, NoFault, Flagged, TypeOK, Nodes
  <2>3. Trapped'
    BY <1>4 DEF PrsRefused, Leave, GoTo, In, NoFault, Trapped, TypeOK, Launching, Phases
  <2>4. Minded'
    BY <1>4 DEF PrsRefused, Leave, GoTo, In, NoFault, Minded, Flagged, Trapped, TypeOK, Nodes, Launching, Phases
  <2> QED
    BY <2>1, <2>2, <2>3, <2>4
<1>5. ASSUME NEW l \in Launchers, ImagesMatch(l) PROVE IInv'
  <2>1. TypeOK'
    BY <1>5 DEF ImagesMatch, GoTo, In, Stay, NoFault, TypeOK, Nodes, Phases
  <2>2. Flagged'
    BY <1>5 DEF ImagesMatch, GoTo, In, Stay, NoFault, Flagged, TypeOK, Nodes
  <2>3. Trapped'
    BY <1>5 DEF ImagesMatch, GoTo, In, Stay, NoFault, Trapped, TypeOK, Launching, Phases
  <2>4. Minded'
    BY <1>5 DEF ImagesMatch, GoTo, In, Stay, NoFault, Minded, Flagged, Trapped, TypeOK, Nodes, Launching, Phases
  <2> QED
    BY <2>1, <2>2, <2>3, <2>4
<1>6. ASSUME NEW l \in Launchers, ImagesDiffer(l) PROVE IInv'
  <2>1. TypeOK'
    BY <1>6 DEF ImagesDiffer, Leave, GoTo, In, Fault, TypeOK, Nodes, Phases
  <2>2. Flagged'
    BY <1>6 DEF ImagesDiffer, Leave, GoTo, In, Fault, Flagged, TypeOK, Nodes
  <2>3. Trapped'
    BY <1>6 DEF ImagesDiffer, Leave, GoTo, In, Fault, Trapped, TypeOK, Launching, Phases
  <2>4. Minded'
    BY <1>6 DEF ImagesDiffer, Leave, GoTo, In, Fault, Minded, Flagged, Trapped, TypeOK, Nodes, Launching, Phases
  <2> QED
    BY <2>1, <2>2, <2>3, <2>4
<1>7. ASSUME NEW l \in Launchers, RunBox(l) PROVE IInv'
  <2>1. TypeOK'
    <3>1. NNodes \in Nodes /\ 1 \in Nodes
      BY DEF Nodes
    <3>2. pc' \in [Launchers -> Phases] /\ at' \in [Launchers -> Nodes]
      BY <1>7, <3>1, NextNodeType DEF RunBox, Phases
    <3> QED
      BY <1>7, <3>2 DEF RunBox, DockerRun, Here, NoFault, In, TypeOK
  <2>2. Flagged'
    BY <1>7 DEF RunBox, DockerRun, NextNode, GoTo, In, Here, NoFault, Flagged, TypeOK, Nodes
  <2>3. Trapped'
    BY <1>7 DEF RunBox, DockerRun, NextNode, GoTo, In, Here, NoFault, Trapped, TypeOK, Launching, Phases
  <2>4. Minded'
    <3>1. trapped[l] \/ upset[l] \/ l \in Daemons
      BY <1>7 DEF RunBox, DockerRun, In, Trapped, Launching, Phases
    <3>2. pc'[l] \in {"run", "mods"} /\ UNCHANGED <<stopping, trapped, upset>> /\ stopping[l] = 0
      BY <1>7 DEF RunBox, DockerRun, In, NextNode, GoTo, TypeOK
    <3>3. \A k \in Launchers \ {l} : pc'[k] = pc[k]
      BY <1>7 DEF RunBox, NextNode, GoTo, TypeOK
    <3>4. \A n \in Nodes : box'[n] = box[n] \/ box'[n] = l
      BY <1>7 DEF RunBox, DockerRun, TypeOK
    <3> QED
      BY <3>1, <3>2, <3>3, <3>4 DEF Minded
  <2> QED
    BY <2>1, <2>2, <2>3, <2>4
<1>8. ASSUME NEW l \in Launchers, EarlyoomFails(l) PROVE IInv'
  <2>1. TypeOK'
    BY <1>8 DEF EarlyoomFails, DockerRun, CleanUp, GoTo, In, Here, Fault, TypeOK, Nodes, Phases
  <2>2. Flagged'
    BY <1>8 DEF EarlyoomFails, DockerRun, CleanUp, GoTo, In, Here, Fault, Flagged, TypeOK, Nodes
  <2>3. Trapped'
    BY <1>8 DEF EarlyoomFails, DockerRun, CleanUp, GoTo, In, Here, Fault, Trapped, TypeOK, Launching, Phases
  <2>4. Minded'
    BY <1>8 DEF EarlyoomFails, DockerRun, CleanUp, GoTo, In, Here, Fault, Minded, Flagged, Trapped, TypeOK, Nodes, Launching, Phases
  <2> QED
    BY <2>1, <2>2, <2>3, <2>4
<1>9. ASSUME NEW l \in Launchers, RunFails(l) PROVE IInv'
  <2>1. TypeOK'
    BY <1>9 DEF RunFails, CleanUp, GoTo, In, Here, Fault, TypeOK, Nodes, Phases
  <2>2. Flagged'
    BY <1>9 DEF RunFails, CleanUp, GoTo, In, Here, Fault, Flagged, TypeOK, Nodes
  <2>3. Trapped'
    BY <1>9 DEF RunFails, CleanUp, GoTo, In, Here, Fault, Trapped, TypeOK, Launching, Phases
  <2>4. Minded'
    BY <1>9 DEF RunFails, CleanUp, GoTo, In, Here, Fault, Minded, Flagged, Trapped, TypeOK, Nodes, Launching, Phases
  <2> QED
    BY <2>1, <2>2, <2>3, <2>4
<1>10. ASSUME NEW l \in Launchers, ApplyMods(l) PROVE IInv'
  <2>1. TypeOK'
    <3>1. NNodes \in Nodes /\ 1 \in Nodes
      BY DEF Nodes
    <3>2. pc' \in [Launchers -> Phases] /\ at' \in [Launchers -> Nodes]
      BY <1>10, <3>1, NextNodeType DEF ApplyMods, Phases
    <3> QED
      BY <1>10, <3>2 DEF ApplyMods, Here, Stay, NoFault, In, TypeOK
  <2>2. Flagged'
    BY <1>10 DEF ApplyMods, NextNode, GoTo, In, Here, Stay, NoFault, Flagged, TypeOK, Nodes
  <2>3. Trapped'
    BY <1>10 DEF ApplyMods, NextNode, GoTo, In, Here, Stay, NoFault, Trapped, TypeOK, Launching, Phases
  <2>4. Minded'
    BY <1>10 DEF ApplyMods, NextNode, GoTo, In, Here, Stay, NoFault, Minded, Flagged, Trapped, TypeOK, Nodes, Launching, Phases
  <2> QED
    BY <2>1, <2>2, <2>3, <2>4
<1>11. ASSUME NEW l \in Launchers, ModsFail(l) PROVE IInv'
  <2>1. TypeOK'
    BY <1>11 DEF ModsFail, CleanUp, GoTo, In, Here, Fault, TypeOK, Nodes, Phases
  <2>2. Flagged'
    BY <1>11 DEF ModsFail, CleanUp, GoTo, In, Here, Fault, Flagged, TypeOK, Nodes
  <2>3. Trapped'
    BY <1>11 DEF ModsFail, CleanUp, GoTo, In, Here, Fault, Trapped, TypeOK, Launching, Phases
  <2>4. Minded'
    BY <1>11 DEF ModsFail, CleanUp, GoTo, In, Here, Fault, Minded, Flagged, Trapped, TypeOK, Nodes, Launching, Phases
  <2> QED
    BY <2>1, <2>2, <2>3, <2>4
<1>12. ASSUME NEW l \in Launchers, CopyScript(l) PROVE IInv'
  <2>1. TypeOK'
    <3>1. NNodes \in Nodes /\ 1 \in Nodes
      BY DEF Nodes
    <3>2. pc' \in [Launchers -> Phases] /\ at' \in [Launchers -> Nodes]
      BY <1>12, <3>1, NextNodeType DEF CopyScript, Phases
    <3> QED
      BY <1>12, <3>2 DEF CopyScript, Stay, NoFault, In, TypeOK
  <2>2. Flagged'
    BY <1>12 DEF CopyScript, NextNode, GoTo, In, Stay, NoFault, Flagged, TypeOK, Nodes
  <2>3. Trapped'
    BY <1>12 DEF CopyScript, NextNode, GoTo, In, Stay, NoFault, Trapped, TypeOK, Launching, Phases
  <2>4. Minded'
    BY <1>12 DEF CopyScript, NextNode, GoTo, In, Stay, NoFault, Minded, Flagged, Trapped, TypeOK, Nodes, Launching, Phases
  <2> QED
    BY <2>1, <2>2, <2>3, <2>4
<1>13. ASSUME NEW l \in Launchers, CopyFails(l) PROVE IInv'
  <2>1. TypeOK'
    BY <1>13 DEF CopyFails, Leave, GoTo, In, Here, Fault, TypeOK, Nodes, Phases
  <2>2. Flagged'
    BY <1>13 DEF CopyFails, Leave, GoTo, In, Here, Fault, Flagged, TypeOK, Nodes
  <2>3. Trapped'
    BY <1>13 DEF CopyFails, Leave, GoTo, In, Here, Fault, Trapped, TypeOK, Launching, Phases
  <2>4. Minded'
    BY <1>13 DEF CopyFails, Leave, GoTo, In, Here, Fault, Minded, Flagged, Trapped, TypeOK, Nodes, Launching, Phases
  <2> QED
    BY <2>1, <2>2, <2>3, <2>4
<1>14. ASSUME NEW l \in Launchers, StartRay(l) PROVE IInv'
  <2>1. TypeOK'
    <3>1. NNodes \in Nodes /\ 1 \in Nodes
      BY DEF Nodes
    <3>2. pc' \in [Launchers -> Phases] /\ at' \in [Launchers -> Nodes]
      BY <1>14, <3>1, NextNodeType DEF StartRay, Phases
    <3> QED
      BY <1>14, <3>2 DEF StartRay, Here, Stay, NoFault, In, TypeOK
  <2>2. Flagged'
    BY <1>14 DEF StartRay, NextNode, GoTo, In, Here, Stay, NoFault, Flagged, TypeOK, Nodes
  <2>3. Trapped'
    BY <1>14 DEF StartRay, NextNode, GoTo, In, Here, Stay, NoFault, Trapped, TypeOK, Launching, Phases
  <2>4. Minded'
    BY <1>14 DEF StartRay, NextNode, GoTo, In, Here, Stay, NoFault, Minded, Flagged, Trapped, TypeOK, Nodes, Launching, Phases
  <2> QED
    BY <2>1, <2>2, <2>3, <2>4
<1>15. ASSUME NEW l \in Launchers, WaitForCluster(l) PROVE IInv'
  <2>1. TypeOK'
    BY <1>15 DEF WaitForCluster, GoTo, In, Stay, NoFault, TypeOK, Nodes, Phases
  <2>2. Flagged'
    BY <1>15 DEF WaitForCluster, GoTo, In, Stay, NoFault, Flagged, TypeOK, Nodes
  <2>3. Trapped'
    BY <1>15 DEF WaitForCluster, GoTo, In, Stay, NoFault, Trapped, TypeOK, Launching, Phases
  <2>4. Minded'
    BY <1>15 DEF WaitForCluster, GoTo, In, Stay, NoFault, Minded, Flagged, Trapped, TypeOK, Nodes, Launching, Phases
  <2> QED
    BY <2>1, <2>2, <2>3, <2>4
<1>16. ASSUME NEW l \in Launchers, WaitTimesOut(l) PROVE IInv'
  <2>1. TypeOK'
    BY <1>16 DEF WaitTimesOut, Leave, GoTo, In, Fault, TypeOK, Nodes, Phases
  <2>2. Flagged'
    BY <1>16 DEF WaitTimesOut, Leave, GoTo, In, Fault, Flagged, TypeOK, Nodes
  <2>3. Trapped'
    BY <1>16 DEF WaitTimesOut, Leave, GoTo, In, Fault, Trapped, TypeOK, Launching, Phases
  <2>4. Minded'
    BY <1>16 DEF WaitTimesOut, Leave, GoTo, In, Fault, Minded, Flagged, Trapped, TypeOK, Nodes, Launching, Phases
  <2> QED
    BY <2>1, <2>2, <2>3, <2>4
<1>17. ASSUME NEW l \in Launchers, ExecOnWorker(l) PROVE IInv'
  <2>1. TypeOK'
    BY <1>17 DEF ExecOnWorker, In, Stay, NoFault, TypeOK, Nodes, Phases
  <2>2. Flagged'
    BY <1>17 DEF ExecOnWorker, In, Stay, NoFault, Flagged, TypeOK, Nodes
  <2>3. Trapped'
    BY <1>17 DEF ExecOnWorker, In, Stay, NoFault, Trapped, TypeOK, Launching, Phases
  <2>4. Minded'
    BY <1>17 DEF ExecOnWorker, In, Stay, NoFault, Minded, Flagged, Trapped, TypeOK, Nodes, Launching, Phases
  <2> QED
    BY <2>1, <2>2, <2>3, <2>4
<1>18. ASSUME NEW l \in Launchers, ExecOnHead(l) PROVE IInv'
  <2>1. TypeOK'
    BY <1>18 DEF ExecOnHead, GoTo, In, Stay, NoFault, TypeOK, Nodes, Phases
  <2>2. Flagged'
    BY <1>18 DEF ExecOnHead, GoTo, In, Stay, NoFault, Flagged, TypeOK, Nodes
  <2>3. Trapped'
    BY <1>18 DEF ExecOnHead, GoTo, In, Stay, NoFault, Trapped, TypeOK, Launching, Phases
  <2>4. Minded'
    BY <1>18 DEF ExecOnHead, GoTo, In, Stay, NoFault, Minded, Flagged, Trapped, TypeOK, Nodes, Launching, Phases
  <2> QED
    BY <2>1, <2>2, <2>3, <2>4
<1>19. ASSUME NEW l \in Launchers, CommandEnds(l) PROVE IInv'
  <2>1. TypeOK'
    BY <1>19 DEF CommandEnds, GoTo, In, Stay, NoFault, TypeOK, Nodes, Phases
  <2>2. Flagged'
    BY <1>19 DEF CommandEnds, GoTo, In, Stay, NoFault, Flagged, TypeOK, Nodes
  <2>3. Trapped'
    BY <1>19 DEF CommandEnds, GoTo, In, Stay, NoFault, Trapped, TypeOK, Launching, Phases
  <2>4. Minded'
    BY <1>19 DEF CommandEnds, GoTo, In, Stay, NoFault, Minded, Flagged, Trapped, TypeOK, Nodes, Launching, Phases
  <2> QED
    BY <2>1, <2>2, <2>3, <2>4
<1>20. ASSUME NEW l \in Launchers, Exit(l) PROVE IInv'
  <2>1. TypeOK'
    BY <1>20 DEF Exit, GoTo, In, TypeOK, Nodes, Phases
  <2>2. Flagged'
    BY <1>20 DEF Exit, GoTo, In, Flagged, TypeOK, Nodes
  <2>3. Trapped'
    BY <1>20 DEF Exit, GoTo, In, Trapped, TypeOK, Launching, Phases
  <2>4. Minded'
    BY <1>20 DEF Exit, GoTo, In, Minded, Flagged, Trapped, TypeOK, Nodes, Launching, Phases
  <2> QED
    BY <2>1, <2>2, <2>3, <2>4
<1>21. ASSUME NEW l \in Launchers, StopBox(l) PROVE IInv'
  <2>1. TypeOK'
    BY <1>21 DEF StopBox, AfterStop, BoxGone, NoFault, TypeOK, Nodes, Phases
  <2>2. Flagged'
    BY <1>21 DEF StopBox, AfterStop, BoxGone, NoFault, Flagged, TypeOK, Nodes
  <2>3. Trapped'
    BY <1>21 DEF StopBox, AfterStop, BoxGone, NoFault, Trapped, TypeOK, Launching, Phases
  <2>4. Minded'
    BY <1>21 DEF StopBox, AfterStop, BoxGone, NoFault, Minded, Flagged, Trapped, TypeOK, Nodes, Launching, Phases
  <2> QED
    BY <2>1, <2>2, <2>3, <2>4
<1>22. ASSUME NEW l \in Launchers, StopMisses(l) PROVE IInv'
  <2>1. TypeOK'
    BY <1>22 DEF StopMisses, AfterStop, Fault, TypeOK, Nodes, Phases
  <2>2. Flagged'
    BY <1>22 DEF StopMisses, AfterStop, Fault, Flagged, TypeOK, Nodes
  <2>3. Trapped'
    BY <1>22 DEF StopMisses, AfterStop, Fault, Trapped, TypeOK, Launching, Phases
  <2>4. Minded'
    BY <1>22 DEF StopMisses, AfterStop, Fault, Minded, Flagged, Trapped, TypeOK, Nodes, Launching, Phases
  <2> QED
    BY <2>1, <2>2, <2>3, <2>4
<1>23. ASSUME NEW l \in Launchers, Signal(l) PROVE IInv'
  <2>1. TypeOK'
    <3>1. 0 \in 0..NNodes /\ 1 \in 0..NNodes /\ 1 \in Nodes /\ signals + 1 \in Nat
      BY DEF Nodes, TypeOK
    <3>2. pc' \in [Launchers -> Phases] /\ at' \in [Launchers -> Nodes]
      BY <1>23, <3>1 DEF Signal, GoTo, TypeOK, Phases
    <3>3. stopping' \in [Launchers -> 0..NNodes] /\ trapped' \in [Launchers -> BOOLEAN]
      <4>1. CASE trapped[l]
        <5>1. PICK k \in {0, 1} : stopping' = [stopping EXCEPT ![l] = k]
          BY <1>23, <4>1 DEF Signal
        <5> QED
          BY <1>23, <3>1, <4>1, <5>1 DEF Signal, TypeOK
      <4>2. CASE ~trapped[l]
        BY <1>23, <3>1, <4>2 DEF Signal, TypeOK
      <4> QED
        BY <4>1, <4>2
    <3>4. upset' \in [Launchers -> BOOLEAN] /\ misled' \in [Launchers -> BOOLEAN]
      BY <1>23 DEF Signal, TypeOK
    <3>5. signals' \in 0..MaxSignals
      BY <1>23 DEF Signal, TypeOK
    <3> QED
      BY <1>23, <3>2, <3>3, <3>4, <3>5 DEF Signal, TypeOK
  <2>2. Flagged'
    <3>1. pc[l] # "idle" \/ stopping[l] # 0
      BY <1>23 DEF Signal, Active
    <3>2. \A k \in Launchers : pc'[k] = pc[k] \/ (k = l /\ pc'[k] = "done")
      BY <1>23 DEF Signal, GoTo, TypeOK
    <3>3. \A k \in Launchers \ {l} : stopping'[k] = stopping[k]
      BY <1>23 DEF Signal, TypeOK
    <3>4. UNCHANGED <<box, wasRunning>>
      BY <1>23 DEF Signal
    <3>5. pc[l] # "idle"
      BY <3>1 DEF Flagged
    <3> QED
      BY <3>2, <3>3, <3>4, <3>5 DEF Flagged
  <2>3. Trapped'
    BY <1>23 DEF Signal, GoTo, Trapped, TypeOK, Launching, Phases
  <2>4. Minded'
    BY <1>23 DEF Signal, GoTo, Minded, Flagged, Trapped, TypeOK, Nodes, Launching, Phases
  <2> QED
    BY <2>1, <2>2, <2>3, <2>4
<1>24. ASSUME NEW m \in Nodes, BoxDies(m) PROVE IInv'
  <2>1. TypeOK'
    BY <1>24 DEF BoxDies, BoxGone, Fault, TypeOK, Nodes, Phases
  <2>2. Flagged'
    BY <1>24 DEF BoxDies, BoxGone, Fault, Flagged, TypeOK, Nodes
  <2>3. Trapped'
    BY <1>24 DEF BoxDies, BoxGone, Fault, Trapped, TypeOK, Launching, Phases
  <2>4. Minded'
    BY <1>24 DEF BoxDies, BoxGone, Fault, Minded, Flagged, Trapped, TypeOK, Nodes, Launching, Phases
  <2> QED
    BY <2>1, <2>2, <2>3, <2>4
<1>25. CASE UNCHANGED vars
  <2>1. TypeOK'
    BY <1>25 DEF vars, TypeOK, Nodes, Phases
  <2>2. Flagged'
    BY <1>25 DEF vars, Flagged, TypeOK, Nodes
  <2>3. Trapped'
    BY <1>25 DEF vars, Trapped, TypeOK, Launching, Phases
  <2>4. Minded'
    BY <1>25 DEF vars, Minded, Flagged, Trapped, TypeOK, Nodes, Launching, Phases
  <2> QED
    BY <2>1, <2>2, <2>3, <2>4
<1> QED
  BY <1>1, <1>2, <1>3, <1>4, <1>5, <1>6, <1>7, <1>8, <1>9, <1>10, <1>11, <1>12, <1>13, <1>14, <1>15, <1>16, <1>17, <1>18, <1>19, <1>20, <1>21, <1>22, <1>23, <1>24, <1>25 DEF Next, Step

\* Every variable keeps its type, however many launchers run at once.
THEOREM TypeCorrect == Spec => []TypeOK
<1>1. IInv => TypeOK
  BY DEF IInv
<1> QED
  BY <1>1, InitInv, Inductive, PTL DEF Spec

\* A foreground launcher leaves nothing behind, whatever other launchers do to its
\* containers meanwhile: at its end Minded has neither a trap nor a cleanup to offer.
THEOREM LeavesNothing == Spec => []NothingLeft
<1>1. IInv => NothingLeft
  <2> SUFFICES ASSUME IInv, NEW l \in Foreground, Over(l), ~upset[l], NEW n \in Nodes
               PROVE  box[n] # l
    BY DEF NothingLeft
  <2>1. stopping[l] \notin 1..n
    BY DEF Over
  <2> QED
    BY <2>1 DEF IInv, Minded, Foreground, Over
<1> QED
  BY <1>1, InitInv, Inductive, PTL DEF Spec

-----------------------------------------------------------------------------
(***************************************************************************)
(* What a launcher that was not misled knows of every container.           *)
(***************************************************************************)
\* It found nothing, and nothing has come since.
Fresh(l) == ~wasRunning[l] /\ ~misled[l]
OwnOrNone(l, n) == box[n] \in {l, NoBox}
Modded(l, n) == box[n] = l /\ l \in WithMods => l \in mods[n]

\* The flag is down until the check and where it sends the launcher past exec.
FlagKnown(l) ==
  /\ pc[l] = "idle" => ~wasRunning[l] /\ stopping[l] = 0
  /\ wasRunning[l] => pc[l] \in {"check", "exec", "serving", "exit", "done"}

\* The nodes it has looked at are empty, then all of them, then those ahead of it.
Empty(l) ==
  Fresh(l) =>
    /\ pc[l] = "check" => \A n \in Nodes : n < at[l] => box[n] = NoBox
    /\ pc[l] = "image" => \A n \in Nodes : box[n] = NoBox
    /\ pc[l] = "run" => \A n \in Nodes : OwnOrNone(l, n) /\ (n >= at[l] => box[n] = NoBox)

\* Then every container is its own, and has its mods once they were applied there.
Ready(l) ==
  Fresh(l) =>
    /\ pc[l] \in {"mods", "copy", "ray", "wait", "exec", "serving", "exit"}
          => \A n \in Nodes : OwnOrNone(l, n)
    /\ pc[l] = "mods" => \A n \in Nodes : n < at[l] => Modded(l, n)
    /\ pc[l] \in {"copy", "ray", "wait", "exec"} => \A n \in Nodes : Modded(l, n)

\* Its cleanup meets nobody else's container.
Cleaning(l) ==
  stopping[l] # 0 /\ ~misled[l] => ~wasRunning[l] /\ \A n \in Nodes : OwnOrNone(l, n)

Knows(l) == FlagKnown(l) /\ Empty(l) /\ Ready(l) /\ Cleaning(l)
Known == \A l \in Launchers : Knows(l)

Moves(l) == Start(l) \/ Step(l) \/ CommandEnds(l) \/ Signal(l)

LEMMA InitKnown == Init => Known
BY LauncherAssumption
   DEF Init, Known, Knows, FlagKnown, Empty, Ready, Cleaning, Fresh

\* A launcher changes its own part of the script's state only; it may mislead another.
LEMMA MovesAlone ==
  ASSUME TypeOK, NEW l \in Launchers, Moves(l), NEW k \in Launchers \ {l}
  PROVE  /\ pc'[k] = pc[k] /\ at'[k] = at[k] /\ stopping'[k] = stopping[k]
         /\ wasRunning'[k] = wasRunning[k]
         /\ misled[k] => misled'[k]
<1> USE DEF boxVars, scriptVars
<1>1. CASE Start(l)
  BY <1>1 DEF Start, GoTo, In, TypeOK
<1>2. CASE CheckClusterRunning(l)
  BY <1>2 DEF CheckClusterRunning, CheckNode, NextNode, GoTo, In, Here, NoFault, TypeOK
<1>3. CASE CheckMisses(l)
  BY <1>3 DEF CheckMisses, CheckNode, NextNode, GoTo, In, Fault, TypeOK
<1>4. CASE PrsRefused(l)
  BY <1>4 DEF PrsRefused, Leave, GoTo, In, NoFault, TypeOK
<1>5. CASE ImagesMatch(l)
  BY <1>5 DEF ImagesMatch, GoTo, In, Stay, NoFault, TypeOK
<1>6. CASE ImagesDiffer(l)
  BY <1>6 DEF ImagesDiffer, Leave, GoTo, In, Fault, TypeOK
<1>7. CASE RunBox(l)
  BY <1>7 DEF RunBox, DockerRun, NextNode, GoTo, In, Here, NoFault, TypeOK
<1>8. CASE EarlyoomFails(l)
  BY <1>8 DEF EarlyoomFails, DockerRun, CleanUp, GoTo, In, Here, Fault, TypeOK
<1>9. CASE RunFails(l)
  BY <1>9 DEF RunFails, CleanUp, GoTo, In, Here, Fault, TypeOK
<1>10. CASE ApplyMods(l)
  BY <1>10 DEF ApplyMods, NextNode, GoTo, In, Here, Stay, NoFault, TypeOK
<1>11. CASE ModsFail(l)
  BY <1>11 DEF ModsFail, CleanUp, GoTo, In, Here, Fault, TypeOK
<1>12. CASE CopyScript(l)
  BY <1>12 DEF CopyScript, NextNode, GoTo, In, Stay, NoFault, TypeOK
<1>13. CASE CopyFails(l)
  BY <1>13 DEF CopyFails, Leave, GoTo, In, Here, Fault, TypeOK
<1>14. CASE StartRay(l)
  BY <1>14 DEF StartRay, NextNode, GoTo, In, Here, Stay, NoFault, TypeOK
<1>15. CASE WaitForCluster(l)
  BY <1>15 DEF WaitForCluster, GoTo, In, Stay, NoFault, TypeOK
<1>16. CASE WaitTimesOut(l)
  BY <1>16 DEF WaitTimesOut, Leave, GoTo, In, Fault, TypeOK
<1>17. CASE ExecOnWorker(l)
  BY <1>17 DEF ExecOnWorker, In, Stay, NoFault, TypeOK
<1>18. CASE ExecOnHead(l)
  BY <1>18 DEF ExecOnHead, GoTo, In, Stay, NoFault, TypeOK
<1>19. CASE Exit(l)
  BY <1>19 DEF Exit, GoTo, In, TypeOK
<1>20. CASE StopBox(l)
  BY <1>20 DEF StopBox, AfterStop, BoxGone, NoFault, TypeOK
<1>21. CASE StopMisses(l)
  BY <1>21 DEF StopMisses, AfterStop, Fault, TypeOK
<1>22. CASE CommandEnds(l)
  BY <1>22 DEF CommandEnds, GoTo, In, Stay, NoFault, TypeOK
<1>23. CASE Signal(l)
  BY <1>23 DEF Signal, GoTo, TypeOK
<1> QED
  BY <1>1, <1>2, <1>3, <1>4, <1>5, <1>6, <1>7, <1>8, <1>9, <1>10, <1>11, <1>12, <1>13,
     <1>14, <1>15, <1>16, <1>17, <1>18, <1>19, <1>20, <1>21, <1>22, <1>23 DEF Moves, Step

\* To a container that another one knows of, it may put an end; if it starts one, it
\* misleads everyone who is active.
OnlyLoses(k, n) == box'[n] = NoBox \/ (box'[n] = box[n] /\ (k \in mods[n] => k \in mods'[n]))

LEMMA MovesBoxes ==
  ASSUME TypeOK, NEW l \in Launchers, Moves(l), NEW k \in Launchers \ {l}
  PROVE  (\A n \in Nodes : OnlyLoses(k, n)) \/ (Active(k) => misled'[k])
<1> USE DEF boxVars, OnlyLoses
<1>1. CASE DockerRun(l)
  BY <1>1 DEF DockerRun, TypeOK
<1>2. CASE ApplyMods(l)
  <2>1. box' = box /\ \A n \in Nodes : mods[n] \subseteq mods'[n]
    BY <1>2 DEF ApplyMods, TypeOK
  <2> QED
    BY <2>1
<1>3. CASE StopBox(l)
  <2>1. PICK m \in 0..NNodes : BoxGone(m)
    BY <1>3 DEF StopBox, TypeOK
  <2> QED
    BY <2>1 DEF BoxGone, TypeOK
<1>4. CASE UNCHANGED <<box, mods>>
  BY <1>4
<1> QED
  BY <1>1, <1>2, <1>3, <1>4 DEF Moves, Step, Start, CheckClusterRunning, CheckMisses,
     CheckNode, PrsRefused, ImagesMatch, ImagesDiffer, RunBox, EarlyoomFails, RunFails,
     ModsFail, CopyScript, CopyFails, StartRay, WaitForCluster, WaitTimesOut, ExecOnWorker,
     ExecOnHead, Exit, StopMisses, CommandEnds, Signal

\* What it knows stays true while it moves.
LEMMA MoverKnows ==
  ASSUME TypeOK, NEW l \in Launchers, Knows(l), Moves(l)
  PROVE  Knows(l)'
<1> USE LauncherAssumption DEF boxVars, scriptVars
<1>1. CASE Start(l)
  <2>1. FlagKnown(l)'
    BY <1>1 DEF Start, GoTo, In, Knows, FlagKnown, TypeOK
  <2>2. Empty(l)'
    BY <1>1 DEF Start, GoTo, In, Knows, FlagKnown, Empty, Fresh, OwnOrNone, TypeOK, Nodes
  <2>3. Ready(l)'
    BY <1>1 DEF Start, GoTo, In, Knows, FlagKnown, Empty, Ready, Fresh, OwnOrNone, Modded,
       TypeOK, Nodes
  <2>4. Cleaning(l)'
    BY <1>1 DEF Start, GoTo, In, Knows, FlagKnown, Empty, Ready, Cleaning, Fresh,
       OwnOrNone, TypeOK, Nodes
  <2> QED
    BY <2>1, <2>2, <2>3, <2>4 DEF Knows
<1>2. CASE CheckClusterRunning(l)
  <2>1. FlagKnown(l)'
    BY <1>2 DEF CheckClusterRunning, CheckNode, NextNode, GoTo, In, Here, NoFault, Knows,
       FlagKnown, TypeOK
  <2>2. Empty(l)'
    <3>1. Fresh(l)' => Fresh(l) /\ box[at[l]] = NoBox
      BY <1>2 DEF CheckClusterRunning, CheckNode, Here, Fresh, TypeOK
    <3>4. Fresh(l)' => \A n \in Nodes : n <= at[l] => box'[n] = NoBox
      <4>1. pc[l] = "check" /\ UNCHANGED box
        BY <1>2 DEF CheckClusterRunning, CheckNode, In
      <4> QED
        BY <3>1, <4>1 DEF Knows, Empty, TypeOK, Nodes
    <3>2. CASE at[l] < NNodes
      <4>1. pc'[l] = "check" /\ at'[l] = at[l] + 1
        BY <1>2, <3>2 DEF CheckClusterRunning, CheckNode, NextNode, In, TypeOK
      <4> QED
        BY <3>4, <4>1 DEF Empty, TypeOK, Nodes
    <3>3. CASE ~(at[l] < NNodes)
      <4>1. pc'[l] \in {"exec", "image"} /\ at[l] = NNodes
        BY <1>2, <3>3 DEF CheckClusterRunning, CheckNode, NextNode, GoTo, TypeOK, Nodes
      <4> QED
        BY <3>4, <4>1 DEF Empty, Nodes
    <3> QED
      BY <3>2, <3>3
  <2>3. Ready(l)'
    BY <1>2 DEF CheckClusterRunning, CheckNode, NextNode, GoTo, In, Here, NoFault, Knows,
       FlagKnown, Empty, Ready, Fresh, OwnOrNone, Modded, TypeOK, Nodes
  <2>4. Cleaning(l)'
    BY <1>2 DEF CheckClusterRunning, CheckNode, NextNode, GoTo, In, Here, NoFault, Knows,
       FlagKnown, Empty, Ready, Cleaning, Fresh, OwnOrNone, TypeOK, Nodes
  <2> QED
    BY <2>1, <2>2, <2>3, <2>4 DEF Knows
<1>3. CASE CheckMisses(l)
  <2>1. FlagKnown(l)'
    BY <1>3 DEF CheckMisses, CheckNode, NextNode, GoTo, In, Fault, Knows, FlagKnown, TypeOK
  <2>2. Empty(l)'
    BY <1>3 DEF CheckMisses, CheckNode, NextNode, GoTo, In, Fault, Knows, FlagKnown,
       Empty, Fresh, OwnOrNone, TypeOK, Nodes
  <2>3. Ready(l)'
    BY <1>3 DEF CheckMisses, CheckNode, NextNode, GoTo, In, Fault, Knows, FlagKnown,
       Empty, Ready, Fresh, OwnOrNone, Modded, TypeOK, Nodes
  <2>4. Cleaning(l)'
    BY <1>3 DEF CheckMisses, CheckNode, NextNode, GoTo, In, Fault, Knows, FlagKnown,
       Empty, Ready, Cleaning, Fresh, OwnOrNone, TypeOK, Nodes
  <2> QED
    BY <2>1, <2>2, <2>3, <2>4 DEF Knows
<1>4. CASE PrsRefused(l)
  <2>1. FlagKnown(l)'
    BY <1>4 DEF PrsRefused, Leave, GoTo, In, NoFault, Knows, FlagKnown, TypeOK
  <2>2. Empty(l)'
    BY <1>4 DEF PrsRefused, Leave, GoTo, In, NoFault, Knows, FlagKnown, Empty, Fresh,
       OwnOrNone, TypeOK, Nodes
  <2>3. Ready(l)'
    BY <1>4 DEF PrsRefused, Leave, GoTo, In, NoFault, Knows, FlagKnown, Empty, Ready,
       Fresh, OwnOrNone, Modded, TypeOK, Nodes
  <2>4. Cleaning(l)'
    BY <1>4 DEF PrsRefused, Leave, GoTo, In, NoFault, Knows, FlagKnown, Empty, Ready,
       Cleaning, Fresh, OwnOrNone, TypeOK, Nodes
  <2> QED
    BY <2>1, <2>2, <2>3, <2>4 DEF Knows
<1>5. CASE ImagesMatch(l)
  <2>1. FlagKnown(l)'
    BY <1>5 DEF ImagesMatch, GoTo, In, Stay, NoFault, Knows, FlagKnown, TypeOK
  <2>2. Empty(l)'
    BY <1>5 DEF ImagesMatch, GoTo, In, Stay, NoFault, Knows, FlagKnown, Empty, Fresh,
       OwnOrNone, TypeOK, Nodes
  <2>3. Ready(l)'
    BY <1>5 DEF ImagesMatch, GoTo, In, Stay, NoFault, Knows, FlagKnown, Empty, Ready,
       Fresh, OwnOrNone, Modded, TypeOK, Nodes
  <2>4. Cleaning(l)'
    BY <1>5 DEF ImagesMatch, GoTo, In, Stay, NoFault, Knows, FlagKnown, Empty, Ready,
       Cleaning, Fresh, OwnOrNone, TypeOK, Nodes
  <2> QED
    BY <2>1, <2>2, <2>3, <2>4 DEF Knows
<1>6. CASE ImagesDiffer(l)
  <2>1. FlagKnown(l)'
    BY <1>6 DEF ImagesDiffer, Leave, GoTo, In, Fault, Knows, FlagKnown, TypeOK
  <2>2. Empty(l)'
    BY <1>6 DEF ImagesDiffer, Leave, GoTo, In, Fault, Knows, FlagKnown, Empty, Fresh,
       OwnOrNone, TypeOK, Nodes
  <2>3. Ready(l)'
    BY <1>6 DEF ImagesDiffer, Leave, GoTo, In, Fault, Knows, FlagKnown, Empty, Ready,
       Fresh, OwnOrNone, Modded, TypeOK, Nodes
  <2>4. Cleaning(l)'
    BY <1>6 DEF ImagesDiffer, Leave, GoTo, In, Fault, Knows, FlagKnown, Empty, Ready,
       Cleaning, Fresh, OwnOrNone, TypeOK, Nodes
  <2> QED
    BY <2>1, <2>2, <2>3, <2>4 DEF Knows
<1>7. CASE RunBox(l)
  <2>1. FlagKnown(l)'
    BY <1>7 DEF RunBox, DockerRun, NextNode, GoTo, In, Here, NoFault, Knows,
       FlagKnown, TypeOK
  <2>2. Empty(l)'
    BY <1>7 DEF RunBox, DockerRun, NextNode, GoTo, In, Here, NoFault, Knows,
       FlagKnown, Empty, Fresh, OwnOrNone, TypeOK, Nodes
  <2>3. Ready(l)'
    BY <1>7 DEF RunBox, DockerRun, NextNode, GoTo, In, Here, NoFault, Knows,
       FlagKnown, Empty, Ready, Fresh, OwnOrNone, Modded, TypeOK, Nodes
  <2>4. Cleaning(l)'
    BY <1>7 DEF RunBox, DockerRun, NextNode, GoTo, In, Here, NoFault, Knows,
       FlagKnown, Empty, Ready, Cleaning, Fresh, OwnOrNone, TypeOK, Nodes
  <2> QED
    BY <2>1, <2>2, <2>3, <2>4 DEF Knows
<1>8. CASE EarlyoomFails(l)
  <2>1. FlagKnown(l)'
    BY <1>8 DEF EarlyoomFails, DockerRun, CleanUp, GoTo, In, Here, Fault, Knows,
       FlagKnown, TypeOK
  <2>2. Empty(l)'
    BY <1>8 DEF EarlyoomFails, DockerRun, CleanUp, GoTo, In, Here, Fault, Knows,
       FlagKnown, Empty, Fresh, OwnOrNone, TypeOK, Nodes
  <2>3. Ready(l)'
    BY <1>8 DEF EarlyoomFails, DockerRun, CleanUp, GoTo, In, Here, Fault, Knows,
       FlagKnown, Empty, Ready, Fresh, OwnOrNone, Modded, TypeOK, Nodes
  <2>4. Cleaning(l)'
    BY <1>8 DEF EarlyoomFails, DockerRun, CleanUp, GoTo, In, Here, Fault, Knows,
       FlagKnown, Empty, Ready, Cleaning, Fresh, OwnOrNone, TypeOK, Nodes
  <2> QED
    BY <2>1, <2>2, <2>3, <2>4 DEF Knows
<1>9. CASE RunFails(l)
  <2>1. FlagKnown(l)'
    BY <1>9 DEF RunFails, CleanUp, GoTo, In, Here, Fault, Knows, FlagKnown, TypeOK
  <2>2. Empty(l)'
    BY <1>9 DEF RunFails, CleanUp, GoTo, In, Here, Fault, Knows, FlagKnown, Empty, Fresh,
       OwnOrNone, TypeOK, Nodes
  <2>3. Ready(l)'
    BY <1>9 DEF RunFails, CleanUp, GoTo, In, Here, Fault, Knows, FlagKnown, Empty, Ready,
       Fresh, OwnOrNone, Modded, TypeOK, Nodes
  <2>4. Cleaning(l)'
    BY <1>9 DEF RunFails, CleanUp, GoTo, In, Here, Fault, Knows, FlagKnown, Empty, Ready,
       Cleaning, Fresh, OwnOrNone, TypeOK, Nodes
  <2> QED
    BY <2>1, <2>2, <2>3, <2>4 DEF Knows
<1>10. CASE ApplyMods(l)
  <2>1. FlagKnown(l)'
    BY <1>10 DEF ApplyMods, NextNode, GoTo, In, Here, Stay, NoFault, Knows, FlagKnown, TypeOK
  <2>2. Empty(l)'
    BY <1>10 DEF ApplyMods, NextNode, GoTo, In, Here, Stay, NoFault, Knows, FlagKnown,
       Empty, Fresh, OwnOrNone, TypeOK, Nodes
  <2>3. Ready(l)'
    <3>1. /\ pc[l] = "mods" /\ UNCHANGED <<box, wasRunning, misled>>
          /\ \A n \in Nodes : n # at[l] => mods'[n] = mods[n]
          /\ l \in WithMods => l \in mods'[at[l]]
      BY <1>10 DEF ApplyMods, In, Stay, TypeOK
    <3>2. CASE at[l] < NNodes
      <4>1. pc'[l] = "mods" /\ at'[l] = at[l] + 1
        BY <1>10, <3>1, <3>2 DEF ApplyMods, NextNode, TypeOK
      <4> QED
        BY <3>1, <4>1, SMTT(30) DEF Knows, Ready, Fresh, OwnOrNone, Modded, TypeOK, Nodes
    <3>3. CASE ~(at[l] < NNodes)
      <4>1. pc'[l] = "copy" /\ at[l] = NNodes
        BY <1>10, <3>1, <3>3 DEF ApplyMods, NextNode, GoTo, TypeOK, Nodes
      <4> QED
        BY <3>1, <4>1, SMTT(30) DEF Knows, Ready, Fresh, OwnOrNone, Modded, TypeOK, Nodes
    <3> QED
      BY <3>2, <3>3
  <2>4. Cleaning(l)'
    BY <1>10 DEF ApplyMods, NextNode, GoTo, In, Here, Stay, NoFault, Knows, FlagKnown,
       Empty, Ready, Cleaning, Fresh, OwnOrNone, TypeOK, Nodes
  <2> QED
    BY <2>1, <2>2, <2>3, <2>4 DEF Knows
<1>11. CASE ModsFail(l)
  <2>1. FlagKnown(l)'
    BY <1>11 DEF ModsFail, CleanUp, GoTo, In, Here, Fault, Knows, FlagKnown, TypeOK
  <2>2. Empty(l)'
    BY <1>11 DEF ModsFail, CleanUp, GoTo, In, Here, Fault, Knows, FlagKnown, Empty, Fresh,
       OwnOrNone, TypeOK, Nodes
  <2>3. Ready(l)'
    BY <1>11 DEF ModsFail, CleanUp, GoTo, In, Here, Fault, Knows, FlagKnown, Empty, Ready,
       Fresh, OwnOrNone, Modded, TypeOK, Nodes
  <2>4. Cleaning(l)'
    BY <1>11 DEF ModsFail, CleanUp, GoTo, In, Here, Fault, Knows, FlagKnown, Empty, Ready,
       Cleaning, Fresh, OwnOrNone, TypeOK, Nodes
  <2> QED
    BY <2>1, <2>2, <2>3, <2>4 DEF Knows
<1>12. CASE CopyScript(l)
  <2>1. FlagKnown(l)'
    BY <1>12 DEF CopyScript, NextNode, GoTo, In, Stay, NoFault, Knows, FlagKnown, TypeOK
  <2>2. Empty(l)'
    BY <1>12 DEF CopyScript, NextNode, GoTo, In, Stay, NoFault, Knows, FlagKnown, Empty,
       Fresh, OwnOrNone, TypeOK, Nodes
  <2>3. Ready(l)'
    BY <1>12 DEF CopyScript, NextNode, GoTo, In, Stay, NoFault, Knows, FlagKnown, Empty,
       Ready, Fresh, OwnOrNone, Modded, TypeOK, Nodes
  <2>4. Cleaning(l)'
    BY <1>12 DEF CopyScript, NextNode, GoTo, In, Stay, NoFault, Knows, FlagKnown, Empty,
       Ready, Cleaning, Fresh, OwnOrNone, TypeOK, Nodes
  <2> QED
    BY <2>1, <2>2, <2>3, <2>4 DEF Knows
<1>13. CASE CopyFails(l)
  <2>1. FlagKnown(l)'
    BY <1>13 DEF CopyFails, Leave, GoTo, In, Here, Fault, Knows, FlagKnown, TypeOK
  <2>2. Empty(l)'
    BY <1>13 DEF CopyFails, Leave, GoTo, In, Here, Fault, Knows, FlagKnown, Empty, Fresh,
       OwnOrNone, TypeOK, Nodes
  <2>3. Ready(l)'
    BY <1>13 DEF CopyFails, Leave, GoTo, In, Here, Fault, Knows, FlagKnown, Empty, Ready,
       Fresh, OwnOrNone, Modded, TypeOK, Nodes
  <2>4. Cleaning(l)'
    BY <1>13 DEF CopyFails, Leave, GoTo, In, Here, Fault, Knows, FlagKnown, Empty, Ready,
       Cleaning, Fresh, OwnOrNone, TypeOK, Nodes
  <2> QED
    BY <2>1, <2>2, <2>3, <2>4 DEF Knows
<1>14. CASE StartRay(l)
  <2>1. FlagKnown(l)'
    BY <1>14 DEF StartRay, NextNode, GoTo, In, Here, Stay, NoFault, Knows, FlagKnown, TypeOK
  <2>2. Empty(l)'
    BY <1>14 DEF StartRay, NextNode, GoTo, In, Here, Stay, NoFault, Knows, FlagKnown,
       Empty, Fresh, OwnOrNone, TypeOK, Nodes
  <2>3. Ready(l)'
    BY <1>14 DEF StartRay, NextNode, GoTo, In, Here, Stay, NoFault, Knows, FlagKnown,
       Empty, Ready, Fresh, OwnOrNone, Modded, TypeOK, Nodes
  <2>4. Cleaning(l)'
    BY <1>14 DEF StartRay, NextNode, GoTo, In, Here, Stay, NoFault, Knows, FlagKnown,
       Empty, Ready, Cleaning, Fresh, OwnOrNone, TypeOK, Nodes
  <2> QED
    BY <2>1, <2>2, <2>3, <2>4 DEF Knows
<1>15. CASE WaitForCluster(l)
  <2>1. FlagKnown(l)'
    BY <1>15 DEF WaitForCluster, GoTo, In, Stay, NoFault, Knows, FlagKnown, TypeOK
  <2>2. Empty(l)'
    BY <1>15 DEF WaitForCluster, GoTo, In, Stay, NoFault, Knows, FlagKnown, Empty, Fresh,
       OwnOrNone, TypeOK, Nodes
  <2>3. Ready(l)'
    BY <1>15 DEF WaitForCluster, GoTo, In, Stay, NoFault, Knows, FlagKnown, Empty, Ready,
       Fresh, OwnOrNone, Modded, TypeOK, Nodes
  <2>4. Cleaning(l)'
    BY <1>15 DEF WaitForCluster, GoTo, In, Stay, NoFault, Knows, FlagKnown, Empty, Ready,
       Cleaning, Fresh, OwnOrNone, TypeOK, Nodes
  <2> QED
    BY <2>1, <2>2, <2>3, <2>4 DEF Knows
<1>16. CASE WaitTimesOut(l)
  <2>1. FlagKnown(l)'
    BY <1>16 DEF WaitTimesOut, Leave, GoTo, In, Fault, Knows, FlagKnown, TypeOK
  <2>2. Empty(l)'
    BY <1>16 DEF WaitTimesOut, Leave, GoTo, In, Fault, Knows, FlagKnown, Empty, Fresh,
       OwnOrNone, TypeOK, Nodes
  <2>3. Ready(l)'
    BY <1>16 DEF WaitTimesOut, Leave, GoTo, In, Fault, Knows, FlagKnown, Empty, Ready,
       Fresh, OwnOrNone, Modded, TypeOK, Nodes
  <2>4. Cleaning(l)'
    BY <1>16 DEF WaitTimesOut, Leave, GoTo, In, Fault, Knows, FlagKnown, Empty, Ready,
       Cleaning, Fresh, OwnOrNone, TypeOK, Nodes
  <2> QED
    BY <2>1, <2>2, <2>3, <2>4 DEF Knows
<1>17. CASE ExecOnWorker(l)
  <2>1. FlagKnown(l)'
    BY <1>17 DEF ExecOnWorker, In, Stay, NoFault, Knows, FlagKnown, TypeOK
  <2>2. Empty(l)'
    BY <1>17 DEF ExecOnWorker, In, Stay, NoFault, Knows, FlagKnown, Empty, Fresh,
       OwnOrNone, TypeOK, Nodes
  <2>3. Ready(l)'
    BY <1>17 DEF ExecOnWorker, In, Stay, NoFault, Knows, FlagKnown, Empty, Ready, Fresh,
       OwnOrNone, Modded, TypeOK, Nodes
  <2>4. Cleaning(l)'
    BY <1>17 DEF ExecOnWorker, In, Stay, NoFault, Knows, FlagKnown, Empty, Ready,
       Cleaning, Fresh, OwnOrNone, TypeOK, Nodes
  <2> QED
    BY <2>1, <2>2, <2>3, <2>4 DEF Knows
<1>18. CASE ExecOnHead(l)
  <2>1. FlagKnown(l)'
    BY <1>18 DEF ExecOnHead, GoTo, In, Stay, NoFault, Knows, FlagKnown, TypeOK
  <2>2. Empty(l)'
    BY <1>18 DEF ExecOnHead, GoTo, In, Stay, NoFault, Knows, FlagKnown, Empty, Fresh,
       OwnOrNone, TypeOK, Nodes
  <2>3. Ready(l)'
    BY <1>18 DEF ExecOnHead, GoTo, In, Stay, NoFault, Knows, FlagKnown, Empty, Ready,
       Fresh, OwnOrNone, Modded, TypeOK, Nodes
  <2>4. Cleaning(l)'
    BY <1>18 DEF ExecOnHead, GoTo, In, Stay, NoFault, Knows, FlagKnown, Empty, Ready,
       Cleaning, Fresh, OwnOrNone, TypeOK, Nodes
  <2> QED
    BY <2>1, <2>2, <2>3, <2>4 DEF Knows
<1>19. CASE Exit(l)
  <2>1. FlagKnown(l)'
    BY <1>19 DEF Exit, GoTo, In, Knows, FlagKnown, TypeOK
  <2>2. Empty(l)'
    BY <1>19 DEF Exit, GoTo, In, Knows, FlagKnown, Empty, Fresh, OwnOrNone, TypeOK, Nodes
  <2>3. Ready(l)'
    BY <1>19 DEF Exit, GoTo, In, Knows, FlagKnown, Empty, Ready, Fresh, OwnOrNone, Modded,
       TypeOK, Nodes
  <2>4. Cleaning(l)'
    BY <1>19 DEF Exit, GoTo, In, Knows, FlagKnown, Empty, Ready, Cleaning, Fresh,
       OwnOrNone, TypeOK, Nodes
  <2> QED
    BY <2>1, <2>2, <2>3, <2>4 DEF Knows
<1>20. CASE StopBox(l)
  <2>1. FlagKnown(l)'
    BY <1>20 DEF StopBox, AfterStop, BoxGone, NoFault, Knows, FlagKnown, TypeOK
  <2>2. Empty(l)'
    BY <1>20 DEF StopBox, AfterStop, BoxGone, NoFault, Knows, FlagKnown, Empty, Fresh,
       OwnOrNone, TypeOK, Nodes
  <2>3. Ready(l)'
    BY <1>20 DEF StopBox, AfterStop, BoxGone, NoFault, Knows, FlagKnown, Empty, Ready,
       Fresh, OwnOrNone, Modded, TypeOK, Nodes
  <2>4. Cleaning(l)'
    BY <1>20 DEF StopBox, AfterStop, BoxGone, NoFault, Knows, FlagKnown, Empty, Ready,
       Cleaning, Fresh, OwnOrNone, TypeOK, Nodes
  <2> QED
    BY <2>1, <2>2, <2>3, <2>4 DEF Knows
<1>21. CASE StopMisses(l)
  <2>1. FlagKnown(l)'
    BY <1>21 DEF StopMisses, AfterStop, Fault, Knows, FlagKnown, TypeOK
  <2>2. Empty(l)'
    BY <1>21 DEF StopMisses, AfterStop, Fault, Knows, FlagKnown, Empty, Fresh, OwnOrNone,
       TypeOK, Nodes
  <2>3. Ready(l)'
    BY <1>21 DEF StopMisses, AfterStop, Fault, Knows, FlagKnown, Empty, Ready, Fresh,
       OwnOrNone, Modded, TypeOK, Nodes
  <2>4. Cleaning(l)'
    BY <1>21 DEF StopMisses, AfterStop, Fault, Knows, FlagKnown, Empty, Ready, Cleaning,
       Fresh, OwnOrNone, TypeOK, Nodes
  <2> QED
    BY <2>1, <2>2, <2>3, <2>4 DEF Knows
<1>22. CASE CommandEnds(l)
  <2>1. FlagKnown(l)'
    BY <1>22 DEF CommandEnds, GoTo, In, Stay, NoFault, Knows, FlagKnown, TypeOK
  <2>2. Empty(l)'
    BY <1>22 DEF CommandEnds, GoTo, In, Stay, NoFault, Knows, FlagKnown, Empty, Fresh,
       OwnOrNone, TypeOK, Nodes
  <2>3. Ready(l)'
    BY <1>22 DEF CommandEnds, GoTo, In, Stay, NoFault, Knows, FlagKnown, Empty, Ready,
       Fresh, OwnOrNone, Modded, TypeOK, Nodes
  <2>4. Cleaning(l)'
    BY <1>22 DEF CommandEnds, GoTo, In, Stay, NoFault, Knows, FlagKnown, Empty, Ready,
       Cleaning, Fresh, OwnOrNone, TypeOK, Nodes
  <2> QED
    BY <2>1, <2>2, <2>3, <2>4 DEF Knows
<1>23. CASE Signal(l)
  <2>0. UNCHANGED <<box, mods, wasRunning>> /\ (misled[l] => misled'[l])
    BY <1>23 DEF Signal, TypeOK
  <2>1. FlagKnown(l)'
    BY <1>23 DEF Signal, Active, GoTo, Knows, FlagKnown, TypeOK
  <2>2. Empty(l)'
    BY <1>23, <2>0 DEF Signal, GoTo, Knows, FlagKnown, Empty, Fresh, OwnOrNone, TypeOK, Nodes
  <2>3. Ready(l)'
    <3>1. pc'[l] = "done" \/ UNCHANGED <<pc, at>>
      BY <1>23 DEF Signal, GoTo, TypeOK
    <3> QED
      BY <2>0, <3>1 DEF Knows, Ready, Fresh, OwnOrNone, Modded
  <2>4. Cleaning(l)'
    <3>1. CASE trapped[l]
      <4>1. stopping'[l] # 0 => ~wasRunning[l] \/ pc[l] = "check"
        BY <1>23, <3>1 DEF Signal, TypeOK
      <4>2. ~misled'[l] => ~misled[l] /\ pc[l] # "check"
        BY <1>23 DEF Signal, TypeOK
      <4>3. stopping[l] # 0 \/ pc[l] \in Phases \ {"idle", "done"}
        BY <1>23 DEF Signal, Active, TypeOK
      <4> QED
        BY <2>0, <4>1, <4>2, <4>3 DEF Phases, Knows, Empty, Ready, Cleaning, Fresh, OwnOrNone
    <3>2. CASE ~trapped[l]
      BY <1>23, <3>2 DEF Signal, Cleaning, TypeOK
    <3> QED
      BY <3>1, <3>2
  <2> QED
    BY <2>1, <2>2, <2>3, <2>4 DEF Knows
<1> QED
  BY <1>1, <1>2, <1>3, <1>4, <1>5, <1>6, <1>7, <1>8, <1>9, <1>10, <1>11, <1>12, <1>13,
     <1>14, <1>15, <1>16, <1>17, <1>18, <1>19, <1>20, <1>21, <1>22, <1>23 DEF Moves, Step

\* And while containers only go.
LEMMA KnowsOnLoss ==
  ASSUME NEW k \in Launchers, Knows(k), \A n \in Nodes : OnlyLoses(k, n),
         pc'[k] = pc[k], at'[k] = at[k], stopping'[k] = stopping[k],
         wasRunning'[k] = wasRunning[k], misled[k] => misled'[k]
  PROVE  Knows(k)'
<1>1. \A n \in Nodes : /\ box[n] \in {k, NoBox} => box'[n] \in {k, NoBox}
                       /\ box[n] = NoBox => box'[n] = NoBox
                       /\ box'[n] = k => box[n] = k /\ (k \in mods[n] => k \in mods'[n])
  BY LauncherAssumption DEF OnlyLoses
<1>2. FlagKnown(k)'
  BY DEF Knows, FlagKnown
<1>3. Empty(k)'
  BY <1>1 DEF Knows, Empty, Fresh, OwnOrNone, Nodes
<1>4. Ready(k)'
  <2> SUFFICES ASSUME Fresh(k)' PROVE Ready(k)'
    BY DEF Ready
  <2>1. Fresh(k)
    BY DEF Fresh
  <2>2. ASSUME pc[k] \in {"mods", "copy", "ray", "wait", "exec", "serving", "exit"}, NEW n \in Nodes
        PROVE  OwnOrNone(k, n)'
    BY <1>1, <2>1, <2>2 DEF Knows, Ready, OwnOrNone
  <2>3. ASSUME NEW n \in Nodes, Modded(k, n) PROVE Modded(k, n)'
    BY <1>1, <2>3 DEF Modded
  <2> QED
    BY <2>1, <2>2, <2>3 DEF Knows, Ready, Nodes
<1>5. Cleaning(k)'
  BY <1>1 DEF Knows, Cleaning, OwnOrNone, Nodes
<1> QED
  BY <1>2, <1>3, <1>4, <1>5 DEF Knows

LEMMA KnownStep == TypeOK /\ Known /\ [Next]_vars => Known'
<1> SUFFICES ASSUME TypeOK, Known, [Next]_vars PROVE Known'
  OBVIOUS
<1>1. ASSUME NEW l \in Launchers, Moves(l), NEW k \in Launchers PROVE Knows(k)'
  <2>1. CASE k = l
    BY <1>1, <2>1, MoverKnows DEF Known
  <2>2. CASE k # l /\ \A n \in Nodes : OnlyLoses(k, n)
    BY <1>1, <2>2, MovesAlone, KnowsOnLoss DEF Known
  <2>3. CASE k # l /\ (Active(k) => misled'[k])
    <3>1. /\ pc'[k] = pc[k] /\ at'[k] = at[k] /\ stopping'[k] = stopping[k]
          /\ wasRunning'[k] = wasRunning[k]
      BY <1>1, <2>3, MovesAlone
    <3>2. FlagKnown(k)'
      BY <3>1 DEF Known, Knows, FlagKnown
    <3>3. CASE Active(k)
      BY <2>3, <3>2, <3>3 DEF Knows, Empty, Ready, Cleaning, Fresh
    <3>4. CASE ~Active(k)
      BY <3>1, <3>2, <3>4 DEF Active, Knows, Empty, Ready, Cleaning
    <3> QED
      BY <3>3, <3>4
  <2> QED
    BY <1>1, <2>1, <2>2, <2>3, MovesBoxes
<1>2. ASSUME NEW m \in Nodes, BoxDies(m), NEW k \in Launchers PROVE Knows(k)'
  <2>1. UNCHANGED scriptVars /\ \A n \in Nodes : OnlyLoses(k, n)
    BY <1>2 DEF BoxDies, BoxGone, OnlyLoses, TypeOK
  <2> QED
    BY <2>1, KnowsOnLoss DEF Known, scriptVars
<1>3. ASSUME UNCHANGED vars, NEW k \in Launchers PROVE Knows(k)'
  <2>1. UNCHANGED scriptVars /\ \A n \in Nodes : OnlyLoses(k, n)
    BY <1>3 DEF vars, boxVars, OnlyLoses
  <2> QED
    BY <2>1, KnowsOnLoss DEF Known, scriptVars
<1> QED
  BY <1>1, <1>2, <1>3 DEF Next, Moves, Known

\* No launcher stops another one's container, unless it was misled: it met none when
\* it looked, and started every one there is.
THEOREM SparesRunning == Spec => RunningSpared
<1>1. Known => \A l \in Launchers, n \in Nodes :
                     ~(stopping[l] = n /\ ~misled[l] /\ box[n] \notin {l, NoBox})
  BY DEF Known, Knows, Cleaning, OwnOrNone, Nodes
<1>2. Known /\ [Next]_vars =>
        [\A l \in Launchers, n \in Nodes :
           stopping[l] = n /\ ~misled[l] /\ box[n] \notin {l, NoBox} => box'[n] = box[n]]_vars
  BY <1>1
<1> QED
  BY <1>2, InitKnown, KnownStep, TypeCorrect, PTL DEF Spec, RunningSpared

\* And none that found the cluster empty and was not misled dispatches its command to
\* the head while a node runs a container of another one, or one of its own without its
\* mods; a node whose container has died may have none.
THEOREM ReadyFirst == Spec => ReadyBeforeCommand
<1> DEFINE Dispatches(l) == l \in jobs'[1] \ jobs[1]
<1>1. ASSUME TypeOK, Known, [Next]_vars, NEW l \in Launchers,
             Dispatches(l), ~wasRunning[l], ~misled[l]
      PROVE  \A n \in Nodes : OwnOrNone(l, n) /\ Modded(l, n)
  <2>1. pc[l] = "exec"
    <3>1. ASSUME NEW k \in Launchers, Moves(k) PROVE pc[k] = "exec" /\ k = l
      <4>1. CASE ExecOnWorker(k)
        BY <1>1, <3>1, <4>1, LauncherAssumption DEF ExecOnWorker, In, Stay, NoFault,
           TypeOK, Nodes
      <4>2. CASE ExecOnHead(k)
        BY <1>1, <3>1, <4>2, LauncherAssumption DEF ExecOnHead, GoTo, In, Stay,
           NoFault, TypeOK, Nodes
      <4>3. CASE StopBox(k)
        BY <1>1, <3>1, <4>3, LauncherAssumption DEF StopBox, AfterStop, BoxGone,
           NoFault, TypeOK, Nodes
      <4>4. CASE CommandEnds(k)
        BY <1>1, <3>1, <4>4, LauncherAssumption DEF CommandEnds, GoTo, In, Stay,
           NoFault, TypeOK, Nodes
      <4>5. CASE UNCHANGED jobs
        BY <1>1, <4>5
      <4> QED
        BY <3>1, <4>1, <4>2, <4>3, <4>4, <4>5 DEF Moves, Step, boxVars, Start,
           CheckClusterRunning, CheckMisses, PrsRefused, ImagesMatch, ImagesDiffer,
           RunBox, EarlyoomFails, RunFails, ApplyMods, ModsFail, CopyScript,
           CopyFails, StartRay, WaitForCluster, WaitTimesOut, Exit, StopMisses,
           Signal, CheckNode, DockerRun, Stay
    <3>2. ASSUME NEW m \in Nodes, BoxDies(m) PROVE FALSE
      BY <1>1, <3>2, LauncherAssumption DEF BoxDies, BoxGone, TypeOK, Nodes
    <3> QED
      BY <1>1, <3>1, <3>2 DEF Next, Moves, vars, boxVars
  <2> QED
    BY <1>1, <2>1 DEF Known, Knows, Ready, Fresh
<1>2. TypeOK /\ Known /\ [Next]_vars =>
        [\A l \in Launchers : l \in jobs'[1] \ jobs[1] /\ ~wasRunning[l] /\ ~misled[l]
           => \A n \in Nodes : box[n] \in {l, NoBox} /\ (box[n] = l /\ l \in WithMods => l \in mods[n])]_vars
  BY <1>1 DEF OwnOrNone, Modded
<1> QED
  BY <1>2, InitKnown, KnownStep, TypeCorrect, PTL DEF Spec, ReadyBeforeCommand
=============================================================================
