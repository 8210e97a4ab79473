---------------------------- MODULE HfCacheProofs ----------------------------
(***************************************************************************)
(* What HfCache keeps for every number of nodes, operators, files and      *)
(* revisions.  The inductive invariant says of each run what it knows at   *)
(* each phase and node: what it saw of the files it may remove, what of    *)
(* them is gone, and what of the backup has been put in place.  The rest   *)
(* is that no step of another run, and nothing from elsewhere, disturbs    *)
(* that without leaving its mark in the run's history.                     *)
(***************************************************************************)
EXTENDS HfCache, TLAPS

Removes == {"delete", "backupdelete"}
Fills == {"download", "restore"}

\* Which runs come to which phases.
Role(o) ==
  /\ pc[o] \in {"fetch", "open", "send", "fill"} => act[o] \in Fills
  /\ pc[o] \in {"look", "check", "confirm", "relook", "recheck", "rmlook", "rm"}
       => act[o] \in Removes \cup {"cleanup"}
  /\ pc[o] \in {"stage", "publish"} => act[o] \in {"backup", "backupdelete"}
  /\ pc[o] = "fetch" => act[o] = "download"

\* What it may remove has been seen, and is in the backup.
Covered(o) ==
  /\ act[o] = "backupdelete" /\ pc[o] \in {"relook", "recheck"}
       => \A n \in Nodes : pc[o] = "recheck" \/ n < at[o]
            => cache[n] \cap Target(o) \subseteq seen[o] \cup missed[o][n]
  /\ act[o] = "backupdelete" /\ pc[o] \in {"rmlook", "rm"}
       => \A n \in Nodes : cache[n] \cap Target(o) \subseteq backup \cup missed[o][n]

\* What hf is about to remove is what the run is for, and no other repository's.
Aimed(o) ==
  pc[o] = "rm" =>
    /\ act[o] \in Removes =>
         /\ FilesOf(doomed[o]) \subseteq Target(o)
         /\ cache[at[o]] \cap Target(o) \subseteq FilesOf(doomed[o]) \cup missed[o][at[o]]
    /\ act[o] = "cleanup" \/ rev[o] # All => doomed[o] \cap others[at[o]] \subseteq newer[o]

\* What it was to remove is gone from the nodes it is done with.
Cleared(o) ==
  /\ act[o] \in Removes /\ pc[o] \in {"rmlook", "rm"} /\ ~failed[o]
       => \A n \in Nodes : n < at[o] => cache[n] \cap Target(o) \subseteq missed[o][n]
  /\ act[o] \in Removes /\ pc[o] = "ok"
       => \A n \in Nodes : cache[n] \cap Target(o) \subseteq missed[o][n]

\* The backup is on the nodes a restore is done with.
Filled(o) ==
  act[o] = "restore" =>
    /\ pc[o] \in {"send", "fill", "ok"} => backup # {}
    /\ pc[o] = "send" => at[o] > 1
    /\ pc[o] = "fill" /\ ~failed[o] /\ ~crossed[o] => backup \subseteq staged[o] \cup cache[at[o]]
    /\ pc[o] \in {"send", "fill"} /\ ~failed[o] /\ ~crossed[o]
         => \A n \in Nodes : n < at[o] => backup \subseteq cache[n]
    /\ pc[o] = "ok" /\ ~crossed[o] => \A n \in Nodes : backup \subseteq cache[n]

Known(o) == Role(o) /\ Covered(o) /\ Aimed(o) /\ Cleared(o) /\ Filled(o)

IInv == TypeOK /\ \A o \in Operators : Known(o)

-----------------------------------------------------------------------------
(***************************************************************************)
(* Types, and what the shared parts of the actions do to them.             *)
(***************************************************************************)
CachesOK ==
  /\ cache \in [Nodes -> SUBSET Items] /\ dangling \in [Nodes -> SUBSET Items]
  /\ others \in [Nodes -> SUBSET Revs] /\ backup \in SUBSET Items

RequestOK == act \in [Operators -> Actions \cup {"none"}] /\ rev \in [Operators -> Revs \cup {All}]

PlaceOK == pc \in [Operators -> Phases] /\ at \in [Operators -> Nodes]

WorkOK ==
  /\ staged \in [Operators -> SUBSET Items] /\ seen \in [Operators -> SUBSET Items]
  /\ shared \in [Operators -> BOOLEAN] /\ failed \in [Operators -> BOOLEAN]
  /\ doomed \in [Operators -> SUBSET Revs]

HistoryOK ==
  /\ missed \in [Operators -> [Nodes -> SUBSET Items]]
  /\ newer \in [Operators -> SUBSET Revs] /\ crossed \in [Operators -> BOOLEAN]

LEMMA GoToType ==
  ASSUME PlaceOK, NEW o \in Operators, NEW phase \in Phases, NEW n \in Nodes, GoTo(o, phase, n)
  PROVE PlaceOK'
  BY DEF GoTo, PlaceOK

LEMMA ForgetType == ASSUME WorkOK, NEW o \in Operators, Forget(o) PROVE WorkOK'
  BY DEF Forget, WorkOK

LEMMA EndType == ASSUME WorkOK, PlaceOK, NEW o \in Operators, End(o) PROVE WorkOK' /\ PlaceOK'
  BY ForgetType, GoToType, CacheAssumption DEF End, Phases, Nodes

LEMMA NextNodeType ==
  ASSUME PlaceOK, WorkOK, NEW o \in Operators, NEW phase \in Phases, NEW f \in BOOLEAN,
         NextNode(o, phase, f)
  PROVE PlaceOK' /\ WorkOK'
<1>1. WorkOK'
  BY DEF NextNode, WorkOK
<1>2. PlaceOK'
  BY CacheAssumption DEF NextNode, GoTo, PlaceOK, Phases, Nodes
<1> QED
  BY <1>1, <1>2

LEMMA GainType ==
  ASSUME CachesOK, HistoryOK, NEW n \in Nodes, NEW S \in SUBSET Items, Gain(n, S)
  PROVE cache' \in [Nodes -> SUBSET Items] /\ missed' \in [Operators -> [Nodes -> SUBSET Items]]
  BY DEF Gain, CachesOK, HistoryOK

LEMMA LoseType ==
  ASSUME CachesOK, HistoryOK, NEW o \in Operators, NEW n \in Nodes, NEW S \in SUBSET Items,
         Lose(o, n, S)
  PROVE cache' \in [Nodes -> SUBSET Items] /\ HistoryOK'
  BY DEF Lose, CachesOK, HistoryOK

LEMMA FilesType == \A R : FilesOf(R) \in SUBSET Items
  BY DEF FilesOf

LEMMA TickType ==
  ASSUME NEW k \in {"run", "fault", "arrival"}, NEW b, Tick(k, b),
         count \in [{"run", "fault", "arrival"} -> Nat]
  PROVE count' \in [{"run", "fault", "arrival"} -> Nat]
  BY DEF Tick

LEMMA FoundTypes ==
  ASSUME CachesOK, RequestOK, PlaceOK, WorkOK, NEW o \in Operators
  PROVE /\ 1 \in Nodes /\ at[o] \in Nodes
        /\ cache[1] \subseteq Items /\ cache[at[o]] \subseteq Items
        /\ dangling[1] \subseteq Items /\ dangling[at[o]] \subseteq Items
        /\ staged[o] \in SUBSET Items
        /\ \A R \in Doomed(o) : R \subseteq Revs
<1>1. 1 \in Nodes /\ at[o] \in Nodes
  BY CacheAssumption DEF Nodes, PlaceOK
<1>2. cache[1] \subseteq Items /\ cache[at[o]] \subseteq Items
  BY <1>1 DEF CachesOK
<1>3. RevsOf(cache[at[o]]) \subseteq Revs
  BY <1>2, CacheAssumption DEF RevsOf
<1>4. \A R \in Doomed(o) : R \subseteq Revs
  BY <1>3 DEF Doomed
<1> QED
  BY <1>1, <1>2, <1>4 DEF CachesOK, WorkOK

\* One step of a run keeps the types.
LEMMA StepType ==
  ASSUME TypeOK, NEW o \in Operators, Step(o)
  PROVE TypeOK'
<1> USE DEF caches, request, place, work, history
<1>0. CachesOK /\ RequestOK /\ PlaceOK /\ WorkOK /\ HistoryOK
  BY DEF TypeOK, CachesOK, RequestOK, PlaceOK, WorkOK, HistoryOK
<1>00. /\ 1 \in Nodes /\ at[o] \in Nodes
       /\ cache[1] \subseteq Items /\ cache[at[o]] \subseteq Items
       /\ dangling[1] \subseteq Items /\ dangling[at[o]] \subseteq Items
       /\ staged[o] \in SUBSET Items
       /\ \A R \in Doomed(o) : R \subseteq Revs
  BY <1>0, FoundTypes
<1>1. CASE StageBackup(o)
  <2>1. CachesOK'
    BY <1>0, <1>1 DEF StageBackup, CachesOK
  <2>2. RequestOK'
    BY <1>0, <1>1 DEF StageBackup, RequestOK
  <2>3. PlaceOK'
    BY <1>0, <1>1, GoToType, CacheAssumption DEF StageBackup, Phases, Nodes, PlaceOK
  <2>4. WorkOK'
    BY <1>0, <1>1, <1>00 DEF StageBackup, WorkOK
  <2>5. HistoryOK'
    BY <1>0, <1>1 DEF StageBackup, HistoryOK, PlaceOK, CachesOK, WorkOK
  <2>6. count' \in [{"run", "fault", "arrival"} -> Nat]
    BY <1>0, <1>1 DEF StageBackup, TypeOK
  <2> QED
    BY <2>1, <2>2, <2>3, <2>4, <2>5, <2>6 DEF TypeOK, CachesOK, RequestOK, PlaceOK, WorkOK, HistoryOK
<1>2. CASE BackupRefused(o)
  <2>1. CachesOK'
    BY <1>0, <1>2 DEF BackupRefused, CachesOK
  <2>2. RequestOK'
    BY <1>0, <1>2 DEF BackupRefused, RequestOK
  <2>3. PlaceOK' /\ WorkOK'
    BY <1>0, <1>2, EndType DEF BackupRefused
  <2>4. HistoryOK'
    BY <1>0, <1>2 DEF BackupRefused, HistoryOK, PlaceOK, CachesOK, WorkOK
  <2>5. count' \in [{"run", "fault", "arrival"} -> Nat]
    BY <1>0, <1>2 DEF BackupRefused, TypeOK
  <2> QED
    BY <2>1, <2>2, <2>3, <2>4, <2>5 DEF TypeOK, CachesOK, RequestOK, PlaceOK, WorkOK, HistoryOK
<1>3. CASE Publish(o)
  <2>1. CachesOK'
    BY <1>0, <1>3 DEF Publish, CachesOK, WorkOK
  <2>2. RequestOK'
    BY <1>0, <1>3 DEF Publish, RequestOK
  <2>3. PlaceOK'
    BY <1>0, <1>3, GoToType, CacheAssumption DEF Publish, Phases, Nodes, PlaceOK
  <2>4. WorkOK'
    BY <1>0, <1>3 DEF Publish, WorkOK, CachesOK
  <2>5. HistoryOK'
    BY <1>0, <1>3 DEF Publish, HistoryOK, PlaceOK, CachesOK, WorkOK
  <2>6. count' \in [{"run", "fault", "arrival"} -> Nat]
    BY <1>0, <1>3 DEF Publish, TypeOK
  <2> QED
    BY <2>1, <2>2, <2>3, <2>4, <2>5, <2>6 DEF TypeOK, CachesOK, RequestOK, PlaceOK, WorkOK, HistoryOK
<1>4. CASE PublishRefused(o)
  <2>1. CachesOK'
    BY <1>0, <1>4 DEF PublishRefused, CachesOK
  <2>2. RequestOK'
    BY <1>0, <1>4 DEF PublishRefused, RequestOK
  <2>3. PlaceOK' /\ WorkOK'
    BY <1>0, <1>4, EndType DEF PublishRefused
  <2>4. HistoryOK'
    BY <1>0, <1>4 DEF PublishRefused, HistoryOK, PlaceOK, CachesOK, WorkOK
  <2>5. count' \in [{"run", "fault", "arrival"} -> Nat]
    BY <1>0, <1>4 DEF PublishRefused, TypeOK
  <2> QED
    BY <2>1, <2>2, <2>3, <2>4, <2>5 DEF TypeOK, CachesOK, RequestOK, PlaceOK, WorkOK, HistoryOK
<1>5. CASE Look(o)
  <2>1. CachesOK'
    BY <1>0, <1>5 DEF Look, CachesOK
  <2>2. RequestOK'
    BY <1>0, <1>5 DEF Look, RequestOK
  <2>3. PlaceOK'
    BY <1>0, <1>5, GoToType, CacheAssumption DEF Look, Phases, Nodes, PlaceOK
  <2>4. WorkOK'
    BY <1>0, <1>5, <1>00 DEF Look, WorkOK
  <2>5. HistoryOK'
    BY <1>0, <1>5 DEF Look, HistoryOK, PlaceOK, CachesOK, WorkOK
  <2>6. count' \in [{"run", "fault", "arrival"} -> Nat]
    BY <1>0, <1>5 DEF Look, TypeOK
  <2> QED
    BY <2>1, <2>2, <2>3, <2>4, <2>5, <2>6 DEF TypeOK, CachesOK, RequestOK, PlaceOK, WorkOK, HistoryOK
<1>6. CASE LookRefused(o)
  <2>1. CachesOK'
    BY <1>0, <1>6 DEF LookRefused, CachesOK
  <2>2. RequestOK'
    BY <1>0, <1>6 DEF LookRefused, RequestOK
  <2>3. PlaceOK' /\ WorkOK'
    BY <1>0, <1>6, EndType DEF LookRefused
  <2>4. HistoryOK'
    BY <1>0, <1>6 DEF LookRefused, HistoryOK, PlaceOK, CachesOK, WorkOK
  <2>5. count' \in [{"run", "fault", "arrival"} -> Nat]
    BY <1>0, <1>6 DEF LookRefused, TypeOK
  <2> QED
    BY <2>1, <2>2, <2>3, <2>4, <2>5 DEF TypeOK, CachesOK, RequestOK, PlaceOK, WorkOK, HistoryOK
<1>7. CASE CheckPasses(o)
  <2>1. CachesOK'
    BY <1>0, <1>7 DEF CheckPasses, CachesOK
  <2>2. RequestOK'
    BY <1>0, <1>7 DEF CheckPasses, RequestOK
  <2>3. PlaceOK'
    BY <1>0, <1>7, GoToType, CacheAssumption DEF CheckPasses, Phases, Nodes, PlaceOK
  <2>4. WorkOK'
    BY <1>0, <1>7 DEF CheckPasses, WorkOK, CachesOK
  <2>5. HistoryOK'
    BY <1>0, <1>7 DEF CheckPasses, HistoryOK, PlaceOK, CachesOK, WorkOK
  <2>6. count' \in [{"run", "fault", "arrival"} -> Nat]
    BY <1>0, <1>7 DEF CheckPasses, TypeOK
  <2> QED
    BY <2>1, <2>2, <2>3, <2>4, <2>5, <2>6 DEF TypeOK, CachesOK, RequestOK, PlaceOK, WorkOK, HistoryOK
<1>8. CASE CheckFails(o)
  <2>1. CachesOK'
    BY <1>0, <1>8 DEF CheckFails, CachesOK
  <2>2. RequestOK'
    BY <1>0, <1>8 DEF CheckFails, RequestOK
  <2>3. PlaceOK' /\ WorkOK'
    BY <1>0, <1>8, EndType DEF CheckFails
  <2>4. HistoryOK'
    BY <1>0, <1>8 DEF CheckFails, HistoryOK, PlaceOK, CachesOK, WorkOK
  <2>5. count' \in [{"run", "fault", "arrival"} -> Nat]
    BY <1>0, <1>8 DEF CheckFails, TypeOK
  <2> QED
    BY <2>1, <2>2, <2>3, <2>4, <2>5 DEF TypeOK, CachesOK, RequestOK, PlaceOK, WorkOK, HistoryOK
<1>9. CASE Confirm(o)
  <2>1. CachesOK'
    BY <1>0, <1>9 DEF Confirm, CachesOK
  <2>2. RequestOK'
    BY <1>0, <1>9 DEF Confirm, RequestOK
  <2>3. PlaceOK'
    BY <1>0, <1>9, GoToType, CacheAssumption DEF Confirm, Phases, Nodes, PlaceOK
  <2>4. WorkOK'
    BY <1>0, <1>9 DEF Confirm, WorkOK, CachesOK
  <2>5. HistoryOK'
    BY <1>0, <1>9 DEF Confirm, HistoryOK, PlaceOK, CachesOK, WorkOK
  <2>6. count' \in [{"run", "fault", "arrival"} -> Nat]
    BY <1>0, <1>9 DEF Confirm, TypeOK
  <2> QED
    BY <2>1, <2>2, <2>3, <2>4, <2>5, <2>6 DEF TypeOK, CachesOK, RequestOK, PlaceOK, WorkOK, HistoryOK
<1>10. CASE Decline(o)
  <2>1. CachesOK'
    BY <1>0, <1>10 DEF Decline, CachesOK
  <2>2. RequestOK'
    BY <1>0, <1>10 DEF Decline, RequestOK
  <2>3. PlaceOK' /\ WorkOK'
    BY <1>0, <1>10, EndType DEF Decline
  <2>4. HistoryOK'
    BY <1>0, <1>10 DEF Decline, HistoryOK, PlaceOK, CachesOK, WorkOK
  <2>5. count' \in [{"run", "fault", "arrival"} -> Nat]
    BY <1>0, <1>10 DEF Decline, TypeOK
  <2> QED
    BY <2>1, <2>2, <2>3, <2>4, <2>5 DEF TypeOK, CachesOK, RequestOK, PlaceOK, WorkOK, HistoryOK
<1>11. CASE RecheckPasses(o)
  <2>1. CachesOK'
    BY <1>0, <1>11 DEF RecheckPasses, CachesOK
  <2>2. RequestOK'
    BY <1>0, <1>11 DEF RecheckPasses, RequestOK
  <2>3. PlaceOK'
    BY <1>0, <1>11, GoToType, CacheAssumption DEF RecheckPasses, Phases, Nodes, PlaceOK
  <2>4. WorkOK'
    BY <1>0, <1>11 DEF RecheckPasses, WorkOK, CachesOK
  <2>5. HistoryOK'
    BY <1>0, <1>11 DEF RecheckPasses, HistoryOK, PlaceOK, CachesOK, WorkOK
  <2>6. count' \in [{"run", "fault", "arrival"} -> Nat]
    BY <1>0, <1>11 DEF RecheckPasses, TypeOK
  <2> QED
    BY <2>1, <2>2, <2>3, <2>4, <2>5, <2>6 DEF TypeOK, CachesOK, RequestOK, PlaceOK, WorkOK, HistoryOK
<1>12. CASE PickRemoval(o)
  <2>1. CachesOK'
    BY <1>0, <1>12 DEF PickRemoval, CachesOK
  <2>2. RequestOK'
    BY <1>0, <1>12 DEF PickRemoval, RequestOK
  <2>3. PlaceOK'
    BY <1>0, <1>12 DEF PickRemoval, Phases, Nodes, PlaceOK
  <2>4. WorkOK'
    BY <1>0, <1>12, <1>00 DEF PickRemoval, WorkOK
  <2>5. HistoryOK'
    BY <1>0, <1>12 DEF PickRemoval, HistoryOK, PlaceOK, CachesOK, WorkOK
  <2>6. count' \in [{"run", "fault", "arrival"} -> Nat]
    BY <1>0, <1>12 DEF PickRemoval, TypeOK
  <2> QED
    BY <2>1, <2>2, <2>3, <2>4, <2>5, <2>6 DEF TypeOK, CachesOK, RequestOK, PlaceOK, WorkOK, HistoryOK
<1>13. CASE NothingToRemove(o)
  <2>1. CachesOK'
    BY <1>0, <1>13 DEF NothingToRemove, CachesOK
  <2>2. RequestOK'
    BY <1>0, <1>13 DEF NothingToRemove, RequestOK
  <2>3. PlaceOK' /\ WorkOK'
    BY <1>0, <1>13, NextNodeType DEF NothingToRemove, Phases
  <2>4. HistoryOK'
    BY <1>0, <1>13 DEF NothingToRemove, HistoryOK, PlaceOK, CachesOK, WorkOK
  <2>5. count' \in [{"run", "fault", "arrival"} -> Nat]
    BY <1>0, <1>13 DEF NothingToRemove, TypeOK
  <2> QED
    BY <2>1, <2>2, <2>3, <2>4, <2>5 DEF TypeOK, CachesOK, RequestOK, PlaceOK, WorkOK, HistoryOK
<1>14. CASE RefuseRemoval(o)
  <2>1. CachesOK'
    BY <1>0, <1>14 DEF RefuseRemoval, CachesOK
  <2>2. RequestOK'
    BY <1>0, <1>14 DEF RefuseRemoval, RequestOK
  <2>3. PlaceOK' /\ WorkOK'
    BY <1>0, <1>14, NextNodeType DEF RefuseRemoval, Phases
  <2>4. HistoryOK'
    BY <1>0, <1>14 DEF RefuseRemoval, HistoryOK, PlaceOK, CachesOK, WorkOK
  <2>5. count' \in [{"run", "fault", "arrival"} -> Nat]
    BY <1>0, <1>14 DEF RefuseRemoval, TypeOK
  <2> QED
    BY <2>1, <2>2, <2>3, <2>4, <2>5 DEF TypeOK, CachesOK, RequestOK, PlaceOK, WorkOK, HistoryOK
<1>15. CASE Remove(o)
  <2>1. CachesOK'
    BY <1>0, <1>15, LoseType, FilesType DEF Remove, CachesOK, Nodes, PlaceOK, WorkOK
  <2>2. RequestOK'
    BY <1>0, <1>15 DEF Remove, RequestOK
  <2>3. PlaceOK' /\ WorkOK'
    BY <1>0, <1>15, NextNodeType DEF Remove, Phases
  <2>4. HistoryOK'
    BY <1>0, <1>15, LoseType, FilesType DEF Remove, HistoryOK, PlaceOK, CachesOK, WorkOK
  <2>5. count' \in [{"run", "fault", "arrival"} -> Nat]
    BY <1>0, <1>15 DEF Remove, TypeOK
  <2> QED
    BY <2>1, <2>2, <2>3, <2>4, <2>5 DEF TypeOK, CachesOK, RequestOK, PlaceOK, WorkOK, HistoryOK
<1>16. CASE RemoveFails(o)
  <2>1. CachesOK'
    BY <1>0, <1>16, LoseType, FilesType DEF RemoveFails, CachesOK, Nodes, PlaceOK, WorkOK
  <2>2. RequestOK'
    BY <1>0, <1>16 DEF RemoveFails, RequestOK
  <2>3. PlaceOK' /\ WorkOK'
    BY <1>0, <1>16, NextNodeType DEF RemoveFails, Phases
  <2>4. HistoryOK'
    BY <1>0, <1>16, LoseType, FilesType DEF RemoveFails, HistoryOK, PlaceOK, CachesOK, WorkOK
  <2>5. count' \in [{"run", "fault", "arrival"} -> Nat]
    BY <1>0, <1>16, TickType DEF RemoveFails, TypeOK
  <2> QED
    BY <2>1, <2>2, <2>3, <2>4, <2>5 DEF TypeOK, CachesOK, RequestOK, PlaceOK, WorkOK, HistoryOK
<1>17. CASE Fetch(o)
  <2>1. CachesOK'
    BY <1>0, <1>17 DEF Fetch, CachesOK
  <2>2. RequestOK'
    BY <1>0, <1>17 DEF Fetch, RequestOK
  <2>3. PlaceOK'
    BY <1>0, <1>17, GoToType, CacheAssumption DEF Fetch, Phases, Nodes, PlaceOK
  <2>4. WorkOK'
    BY <1>0, <1>17, <1>00, FilesType DEF Fetch, WorkOK
  <2>5. HistoryOK'
    BY <1>0, <1>17 DEF Fetch, HistoryOK, PlaceOK, CachesOK, WorkOK
  <2>6. count' \in [{"run", "fault", "arrival"} -> Nat]
    BY <1>0, <1>17 DEF Fetch, TypeOK
  <2> QED
    BY <2>1, <2>2, <2>3, <2>4, <2>5, <2>6 DEF TypeOK, CachesOK, RequestOK, PlaceOK, WorkOK, HistoryOK
<1>18. CASE OpenBackup(o)
  <2>1. CachesOK'
    BY <1>0, <1>18 DEF OpenBackup, CachesOK
  <2>2. RequestOK'
    BY <1>0, <1>18 DEF OpenBackup, RequestOK
  <2>3. PlaceOK'
    BY <1>0, <1>18, GoToType, CacheAssumption DEF OpenBackup, Phases, Nodes, PlaceOK
  <2>4. WorkOK'
    BY <1>0, <1>18 DEF OpenBackup, WorkOK, CachesOK
  <2>5. HistoryOK'
    BY <1>0, <1>18 DEF OpenBackup, HistoryOK, PlaceOK, CachesOK, WorkOK
  <2>6. count' \in [{"run", "fault", "arrival"} -> Nat]
    BY <1>0, <1>18 DEF OpenBackup, TypeOK
  <2> QED
    BY <2>1, <2>2, <2>3, <2>4, <2>5, <2>6 DEF TypeOK, CachesOK, RequestOK, PlaceOK, WorkOK, HistoryOK
<1>19. CASE RestoreRefused(o)
  <2>1. CachesOK'
    BY <1>0, <1>19 DEF RestoreRefused, CachesOK
  <2>2. RequestOK'
    BY <1>0, <1>19 DEF RestoreRefused, RequestOK
  <2>3. PlaceOK' /\ WorkOK'
    BY <1>0, <1>19, EndType DEF RestoreRefused
  <2>4. HistoryOK'
    BY <1>0, <1>19 DEF RestoreRefused, HistoryOK, PlaceOK, CachesOK, WorkOK
  <2>5. count' \in [{"run", "fault", "arrival"} -> Nat]
    BY <1>0, <1>19 DEF RestoreRefused, TypeOK
  <2> QED
    BY <2>1, <2>2, <2>3, <2>4, <2>5 DEF TypeOK, CachesOK, RequestOK, PlaceOK, WorkOK, HistoryOK
<1>20. CASE Send(o)
  <2>1. CachesOK'
    BY <1>0, <1>20 DEF Send, CachesOK
  <2>2. RequestOK'
    BY <1>0, <1>20 DEF Send, RequestOK
  <2>3. PlaceOK'
    BY <1>0, <1>20, GoToType, CacheAssumption DEF Send, Phases, Nodes, PlaceOK
  <2>4. WorkOK'
    BY <1>0, <1>20, <1>00 DEF Send, WorkOK
  <2>5. HistoryOK'
    BY <1>0, <1>20 DEF Send, HistoryOK, PlaceOK, CachesOK, WorkOK
  <2>6. count' \in [{"run", "fault", "arrival"} -> Nat]
    BY <1>0, <1>20 DEF Send, TypeOK
  <2> QED
    BY <2>1, <2>2, <2>3, <2>4, <2>5, <2>6 DEF TypeOK, CachesOK, RequestOK, PlaceOK, WorkOK, HistoryOK
<1>21. CASE NothingToSend(o)
  <2>1. CachesOK'
    BY <1>0, <1>21 DEF NothingToSend, CachesOK
  <2>2. RequestOK'
    BY <1>0, <1>21 DEF NothingToSend, RequestOK
  <2>3. PlaceOK' /\ WorkOK'
    BY <1>0, <1>21, EndType DEF NothingToSend
  <2>4. HistoryOK'
    BY <1>0, <1>21 DEF NothingToSend, HistoryOK, PlaceOK, CachesOK, WorkOK
  <2>5. count' \in [{"run", "fault", "arrival"} -> Nat]
    BY <1>0, <1>21 DEF NothingToSend, TypeOK
  <2> QED
    BY <2>1, <2>2, <2>3, <2>4, <2>5 DEF TypeOK, CachesOK, RequestOK, PlaceOK, WorkOK, HistoryOK
<1>22. CASE FillSome(o)
  <2>1. CachesOK'
    BY <1>0, <1>22, GainType DEF FillSome, CachesOK, Nodes, PlaceOK, WorkOK
  <2>2. RequestOK'
    BY <1>0, <1>22 DEF FillSome, RequestOK
  <2>3. PlaceOK'
    BY <1>0, <1>22 DEF FillSome, Phases, Nodes, PlaceOK
  <2>4. WorkOK'
    BY <1>0, <1>22 DEF FillSome, WorkOK, CachesOK
  <2>5. HistoryOK'
    BY <1>0, <1>22, GainType DEF FillSome, HistoryOK, PlaceOK, CachesOK, WorkOK
  <2>6. count' \in [{"run", "fault", "arrival"} -> Nat]
    BY <1>0, <1>22 DEF FillSome, TypeOK
  <2> QED
    BY <2>1, <2>2, <2>3, <2>4, <2>5, <2>6 DEF TypeOK, CachesOK, RequestOK, PlaceOK, WorkOK, HistoryOK
<1>23. CASE FillRest(o)
  <2>1. CachesOK'
    BY <1>0, <1>23, GainType, <1>00 DEF FillRest, CachesOK, Nodes, PlaceOK, WorkOK
  <2>2. RequestOK'
    BY <1>0, <1>23 DEF FillRest, RequestOK
  <2>3. PlaceOK' /\ WorkOK'
    BY <1>0, <1>23, EndType, NextNodeType DEF FillRest, Phases
  <2>4. HistoryOK'
    BY <1>0, <1>23, GainType DEF FillRest, HistoryOK, PlaceOK, CachesOK, WorkOK
  <2>5. count' \in [{"run", "fault", "arrival"} -> Nat]
    BY <1>0, <1>23 DEF FillRest, TypeOK
  <2> QED
    BY <2>1, <2>2, <2>3, <2>4, <2>5 DEF TypeOK, CachesOK, RequestOK, PlaceOK, WorkOK, HistoryOK
<1>24. CASE CopyFails(o)
  <2>1. CachesOK'
    BY <1>0, <1>24 DEF CopyFails, CachesOK
  <2>2. RequestOK'
    BY <1>0, <1>24 DEF CopyFails, RequestOK
  <2>3. PlaceOK' /\ WorkOK'
    BY <1>0, <1>24, NextNodeType DEF CopyFails, Phases
  <2>4. HistoryOK'
    BY <1>0, <1>24 DEF CopyFails, HistoryOK, PlaceOK, CachesOK, WorkOK
  <2>5. count' \in [{"run", "fault", "arrival"} -> Nat]
    BY <1>0, <1>24, TickType DEF CopyFails, TypeOK
  <2> QED
    BY <2>1, <2>2, <2>3, <2>4, <2>5 DEF TypeOK, CachesOK, RequestOK, PlaceOK, WorkOK, HistoryOK
<1>25. CASE Stops(o)
  <2>1. CachesOK'
    BY <1>0, <1>25 DEF Stops, CachesOK
  <2>2. RequestOK'
    BY <1>0, <1>25 DEF Stops, RequestOK
  <2>3. PlaceOK' /\ WorkOK'
    BY <1>0, <1>25, EndType DEF Stops
  <2>4. HistoryOK'
    BY <1>0, <1>25 DEF Stops, HistoryOK, PlaceOK, CachesOK, WorkOK
  <2>5. count' \in [{"run", "fault", "arrival"} -> Nat]
    BY <1>0, <1>25, TickType DEF Stops, TypeOK
  <2> QED
    BY <2>1, <2>2, <2>3, <2>4, <2>5 DEF TypeOK, CachesOK, RequestOK, PlaceOK, WorkOK, HistoryOK
<1>26. CASE Exit(o)
  <2>1. CachesOK'
    BY <1>0, <1>26 DEF Exit, CachesOK
  <2>2. RequestOK'
    BY <1>0, <1>26 DEF Exit, RequestOK, Actions
  <2>3. PlaceOK'
    BY <1>0, <1>26, GoToType, CacheAssumption DEF Exit, Phases, Nodes, PlaceOK
  <2>4. WorkOK'
    BY <1>0, <1>26, ForgetType DEF Exit, WorkOK, CachesOK
  <2>5. HistoryOK'
    BY <1>0, <1>26 DEF Exit, HistoryOK, PlaceOK, CachesOK, WorkOK
  <2>6. count' \in [{"run", "fault", "arrival"} -> Nat]
    BY <1>0, <1>26 DEF Exit, TypeOK
  <2> QED
    BY <2>1, <2>2, <2>3, <2>4, <2>5, <2>6 DEF TypeOK, CachesOK, RequestOK, PlaceOK, WorkOK, HistoryOK
<1> QED
  BY <1>1, <1>2, <1>3, <1>4, <1>5, <1>6, <1>7, <1>8, <1>9, <1>10, <1>11, <1>12, <1>13, <1>14, <1>15, <1>16, <1>17, <1>18, <1>19, <1>20, <1>21, <1>22, <1>23, <1>24, <1>25, <1>26 DEF Step

\* So do runs that start and what comes from elsewhere.
LEMMA NextType == TypeOK /\ [Next]_vars => TypeOK'
<1> SUFFICES ASSUME TypeOK, [Next]_vars PROVE TypeOK'
  OBVIOUS
<1> USE DEF caches, request, place, work, history
<1>0. CachesOK /\ RequestOK /\ PlaceOK /\ WorkOK /\ HistoryOK
  BY DEF TypeOK, CachesOK, RequestOK, PlaceOK, WorkOK, HistoryOK
<1>1. ASSUME NEW o \in Operators, NEW a \in Commands[o], NEW r \in Revs \cup {All}, Start(o, a, r)
      PROVE TypeOK'
  <2>1. a \in Actions
    BY <1>1, CacheAssumption
  <2>2. RequestOK'
    BY <1>0, <1>1, <2>1 DEF Start, RequestOK, Actions
  <2>3. PlaceOK'
    BY <1>0, <1>1, GoToType, CacheAssumption DEF Start, Phases, Nodes
  <2>4. CachesOK' /\ WorkOK' /\ HistoryOK'
    BY <1>0, <1>1 DEF Start, CachesOK, WorkOK, HistoryOK
  <2>5. count' \in [{"run", "fault", "arrival"} -> Nat]
    BY <1>1, TickType DEF Start, TypeOK
  <2> QED
    BY <2>2, <2>3, <2>4, <2>5 DEF TypeOK, CachesOK, RequestOK, PlaceOK, WorkOK, HistoryOK
<1>2. ASSUME NEW n \in Nodes, NEW i \in Items, Arrive(n, i)
      PROVE TypeOK'
  <2>1. CachesOK' /\ HistoryOK'
    BY <1>0, <1>2, GainType DEF Arrive, CachesOK, HistoryOK
  <2>2. RequestOK' /\ PlaceOK' /\ WorkOK'
    BY <1>0, <1>2 DEF Arrive, RequestOK, PlaceOK, WorkOK
  <2>3. count' \in [{"run", "fault", "arrival"} -> Nat]
    BY <1>2, TickType DEF Arrive, TypeOK
  <2> QED
    BY <2>1, <2>2, <2>3 DEF TypeOK, CachesOK, RequestOK, PlaceOK, WorkOK, HistoryOK
<1>3. ASSUME NEW n \in Nodes, NEW r \in Revs, OtherArrives(n, r)
      PROVE TypeOK'
  <2>1. CachesOK' /\ HistoryOK'
    BY <1>0, <1>3 DEF OtherArrives, CachesOK, HistoryOK
  <2>2. RequestOK' /\ PlaceOK' /\ WorkOK'
    BY <1>0, <1>3 DEF OtherArrives, RequestOK, PlaceOK, WorkOK
  <2>3. count' \in [{"run", "fault", "arrival"} -> Nat]
    BY <1>3, TickType DEF OtherArrives, TypeOK
  <2> QED
    BY <2>1, <2>2, <2>3 DEF TypeOK, CachesOK, RequestOK, PlaceOK, WorkOK, HistoryOK
<1>4. CASE UNCHANGED vars
  BY <1>4 DEF vars, TypeOK
<1> QED
  BY <1>1, <1>2, <1>3, <1>4, StepType DEF Next

LEMMA InitType == Init => TypeOK
  BY CacheAssumption DEF Init, TypeOK, Nodes, Actions, Phases

-----------------------------------------------------------------------------
(***************************************************************************)
(* Steps that are not the run's own.                                       *)
(***************************************************************************)
\* What such a step leaves of what the run relies on.
Undisturbed(p) ==
  /\ pc'[p] = pc[p] /\ at'[p] = at[p] /\ act'[p] = act[p] /\ rev'[p] = rev[p]
  /\ staged'[p] = staged[p] /\ seen'[p] = seen[p]
  /\ doomed'[p] = doomed[p] /\ failed'[p] = failed[p]
  /\ backup # {} => backup' = backup
  /\ ~crossed'[p] => ~crossed[p] /\ \A n \in Nodes : cache[n] \subseteq cache'[n]
  /\ \A n \in Nodes : missed[p][n] \subseteq missed'[p][n]
  /\ \A n \in Nodes : Settled(p, n) => cache'[n] \subseteq cache[n] \cup missed'[p][n]
  /\ newer[p] \subseteq newer'[p]
  /\ pc[p] = "rm" => others'[at[p]] \subseteq others[at[p]] \cup newer'[p]

\* Then it knows as much after the step.
LEMMA StillKnown ==
  ASSUME TypeOK, TypeOK', NEW p \in Operators, Known(p), Undisturbed(p)
  PROVE Known(p)'
<1>0. Target(p)' = Target(p)
  BY DEF Undisturbed, Target
<1>00. at[p] \in Nodes /\ Nodes \subseteq Nat
  BY DEF TypeOK, Nodes
<1>1. Role(p)'
  BY DEF Known, Role, Undisturbed
<1>2. Covered(p)'
  <2>1. ASSUME act'[p] = "backupdelete", pc'[p] \in {"relook", "recheck"}, NEW n \in Nodes,
               pc'[p] = "recheck" \/ n < at'[p]
        PROVE cache'[n] \cap Target(p) \subseteq seen'[p] \cup missed'[p][n]
    <3>1. Settled(p, n)
      BY <2>1, <1>00 DEF Undisturbed, Settled
    <3>2. cache[n] \cap Target(p) \subseteq seen[p] \cup missed[p][n]
      BY <2>1 DEF Known, Covered, Undisturbed
    <3> QED
      BY <3>1, <3>2 DEF Undisturbed
  <2>2. ASSUME act'[p] = "backupdelete", pc'[p] \in {"rmlook", "rm"}, NEW n \in Nodes
        PROVE cache'[n] \cap Target(p) \subseteq backup' \cup missed'[p][n]
    <3>1. Settled(p, n)
      BY <2>2 DEF Undisturbed, Settled
    <3>2. cache[n] \cap Target(p) \subseteq backup \cup missed[p][n]
      BY <2>2 DEF Known, Covered, Undisturbed
    <3> QED
      BY <3>1, <3>2 DEF Undisturbed
  <2> QED
    BY <2>1, <2>2, <1>0 DEF Covered
<1>3. Aimed(p)'
  <2> SUFFICES ASSUME pc'[p] = "rm" PROVE Aimed(p)'
    BY DEF Aimed
  <2>1. pc[p] = "rm" /\ Settled(p, at[p])
    BY DEF Undisturbed, Settled
  <2>2. FilesOf(doomed[p])' = FilesOf(doomed[p])
    BY DEF FilesOf, Undisturbed
  <2> QED
    BY <2>1, <2>2, <1>0, <1>00 DEF Known, Aimed, Undisturbed
<1>4. Cleared(p)'
  <2>1. ASSUME act'[p] \in Removes, pc'[p] \in {"rmlook", "rm", "ok"}, NEW n \in Nodes,
               pc'[p] = "ok" \/ (n < at'[p] /\ ~failed'[p])
        PROVE cache'[n] \cap Target(p) \subseteq missed'[p][n]
    <3>1. Settled(p, n)
      BY <2>1 DEF Undisturbed, Settled
    <3>2. cache[n] \cap Target(p) \subseteq missed[p][n]
      BY <2>1 DEF Known, Cleared, Undisturbed
    <3> QED
      BY <3>1, <3>2 DEF Undisturbed
  <2> QED
    BY <2>1, <1>0 DEF Cleared
<1>5. Filled(p)'
  <2> SUFFICES ASSUME act'[p] = "restore" PROVE Filled(p)'
    BY DEF Filled
  <2>1. pc[p] \in {"send", "fill", "ok"} => backup # {} /\ backup' = backup
    BY DEF Known, Filled, Undisturbed
  <2> QED
    BY <2>1, <1>00 DEF Known, Filled, Undisturbed
<1> QED
  BY <1>1, <1>2, <1>3, <1>4, <1>5 DEF Known

\* A published backup stays as it is.
LEMMA StepBackup == ASSUME NEW o \in Operators, Step(o), backup # {} PROVE backup' = backup
  BY DEF Step, caches, StageBackup, BackupRefused, Publish, PublishRefused, Look, LookRefused, CheckPasses, CheckFails, Confirm, Decline, RecheckPasses, PickRemoval, NothingToRemove, RefuseRemoval, Remove, RemoveFails, Fetch, OpenBackup, RestoreRefused, Send, NothingToSend, FillSome, FillRest, CopyFails, Stops, Exit

\* What another run puts in place or removes.
LEMMA GainSeen ==
  ASSUME TypeOK, TypeOK', NEW p \in Operators, NEW n \in Nodes, NEW S \in SUBSET Items, Gain(n, S)
  PROVE /\ \A m \in Nodes : cache[m] \subseteq cache'[m]
        /\ \A m \in Nodes : missed[p][m] \subseteq missed'[p][m]
        /\ \A m \in Nodes : Settled(p, m) => cache'[m] \subseteq cache[m] \cup missed'[p][m]
<1>1. \A m \in Nodes : m # n => cache'[m] = cache[m]
  BY DEF Gain, TypeOK
<1>2. cache'[n] = cache[n] \cup S
  BY DEF Gain, TypeOK
<1>3. missed'[p] = IF Settled(p, n) THEN [missed[p] EXCEPT ![n] = @ \cup (S \ cache[n])] ELSE missed[p]
  BY DEF Gain
<1>4. missed[p] \in [Nodes -> SUBSET Items]
  BY DEF TypeOK
<1> QED
  BY <1>1, <1>2, <1>3, <1>4

LEMMA LoseSeen ==
  ASSUME TypeOK, TypeOK', NEW o \in Operators, NEW p \in Operators, NEW n \in Nodes, NEW S,
         p # o, Lose(o, n, S)
  PROVE /\ crossed'[p]
        /\ \A m \in Nodes : cache'[m] \subseteq cache[m]
        /\ missed'[p] = missed[p] /\ newer'[p] = newer[p]
  BY DEF Lose, TypeOK

LEMMA StepUndisturbed ==
  ASSUME TypeOK, TypeOK', NEW o \in Operators, NEW p \in Operators, p # o, Step(o)
  PROVE Undisturbed(p)
<1> USE DEF caches, request, place, work, history
<1>0. (backup # {} => backup' = backup) /\ at[o] \in Nodes /\ 1 \in Nodes /\ staged[o] \in SUBSET Items
  BY StepBackup, CacheAssumption DEF TypeOK, Nodes
<1>1. CASE StageBackup(o)
  <2>1. /\ pc'[p] = pc[p] /\ at'[p] = at[p] /\ act'[p] = act[p] /\ rev'[p] = rev[p]
        /\ staged'[p] = staged[p] /\ seen'[p] = seen[p]
        /\ doomed'[p] = doomed[p] /\ failed'[p] = failed[p]
    BY <1>1 DEF StageBackup, GoTo, TypeOK
  <2>2. newer[p] \subseteq newer'[p] /\ \A n \in Nodes : others'[n] \subseteq others[n]
    BY <1>1 DEF StageBackup, TypeOK
  <2>3. /\ ~crossed'[p] => ~crossed[p] /\ \A n \in Nodes : cache[n] \subseteq cache'[n]
        /\ \A n \in Nodes : missed[p][n] \subseteq missed'[p][n]
        /\ \A n \in Nodes : Settled(p, n) => cache'[n] \subseteq cache[n] \cup missed'[p][n]
    BY <1>1 DEF StageBackup, TypeOK
  <2> QED
    BY <1>0, <2>1, <2>2, <2>3 DEF Undisturbed, TypeOK
<1>2. CASE BackupRefused(o)
  <2>1. /\ pc'[p] = pc[p] /\ at'[p] = at[p] /\ act'[p] = act[p] /\ rev'[p] = rev[p]
        /\ staged'[p] = staged[p] /\ seen'[p] = seen[p]
        /\ doomed'[p] = doomed[p] /\ failed'[p] = failed[p]
    BY <1>2 DEF BackupRefused, End, GoTo, Forget, TypeOK
  <2>2. newer[p] \subseteq newer'[p] /\ \A n \in Nodes : others'[n] \subseteq others[n]
    BY <1>2 DEF BackupRefused, TypeOK
  <2>3. /\ ~crossed'[p] => ~crossed[p] /\ \A n \in Nodes : cache[n] \subseteq cache'[n]
        /\ \A n \in Nodes : missed[p][n] \subseteq missed'[p][n]
        /\ \A n \in Nodes : Settled(p, n) => cache'[n] \subseteq cache[n] \cup missed'[p][n]
    BY <1>2 DEF BackupRefused, TypeOK
  <2> QED
    BY <1>0, <2>1, <2>2, <2>3 DEF Undisturbed, TypeOK
<1>3. CASE Publish(o)
  <2>1. /\ pc'[p] = pc[p] /\ at'[p] = at[p] /\ act'[p] = act[p] /\ rev'[p] = rev[p]
        /\ staged'[p] = staged[p] /\ seen'[p] = seen[p]
        /\ doomed'[p] = doomed[p] /\ failed'[p] = failed[p]
    BY <1>3 DEF Publish, GoTo, TypeOK
  <2>2. newer[p] \subseteq newer'[p] /\ \A n \in Nodes : others'[n] \subseteq others[n]
    BY <1>3 DEF Publish, TypeOK
  <2>3. /\ ~crossed'[p] => ~crossed[p] /\ \A n \in Nodes : cache[n] \subseteq cache'[n]
        /\ \A n \in Nodes : missed[p][n] \subseteq missed'[p][n]
        /\ \A n \in Nodes : Settled(p, n) => cache'[n] \subseteq cache[n] \cup missed'[p][n]
    BY <1>3 DEF Publish, TypeOK
  <2> QED
    BY <1>0, <2>1, <2>2, <2>3 DEF Undisturbed, TypeOK
<1>4. CASE PublishRefused(o)
  <2>1. /\ pc'[p] = pc[p] /\ at'[p] = at[p] /\ act'[p] = act[p] /\ rev'[p] = rev[p]
        /\ staged'[p] = staged[p] /\ seen'[p] = seen[p]
        /\ doomed'[p] = doomed[p] /\ failed'[p] = failed[p]
    BY <1>4 DEF PublishRefused, End, GoTo, Forget, TypeOK
  <2>2. newer[p] \subseteq newer'[p] /\ \A n \in Nodes : others'[n] \subseteq others[n]
    BY <1>4 DEF PublishRefused, TypeOK
  <2>3. /\ ~crossed'[p] => ~crossed[p] /\ \A n \in Nodes : cache[n] \subseteq cache'[n]
        /\ \A n \in Nodes : missed[p][n] \subseteq missed'[p][n]
        /\ \A n \in Nodes : Settled(p, n) => cache'[n] \subseteq cache[n] \cup missed'[p][n]
    BY <1>4 DEF PublishRefused, TypeOK
  <2> QED
    BY <1>0, <2>1, <2>2, <2>3 DEF Undisturbed, TypeOK
<1>5. CASE Look(o)
  <2>1. /\ pc'[p] = pc[p] /\ at'[p] = at[p] /\ act'[p] = act[p] /\ rev'[p] = rev[p]
        /\ staged'[p] = staged[p] /\ seen'[p] = seen[p]
        /\ doomed'[p] = doomed[p] /\ failed'[p] = failed[p]
    BY <1>5 DEF Look, GoTo, TypeOK
  <2>2. newer[p] \subseteq newer'[p] /\ \A n \in Nodes : others'[n] \subseteq others[n]
    BY <1>5 DEF Look, TypeOK
  <2>3. /\ ~crossed'[p] => ~crossed[p] /\ \A n \in Nodes : cache[n] \subseteq cache'[n]
        /\ \A n \in Nodes : missed[p][n] \subseteq missed'[p][n]
        /\ \A n \in Nodes : Settled(p, n) => cache'[n] \subseteq cache[n] \cup missed'[p][n]
    BY <1>5 DEF Look, TypeOK
  <2> QED
    BY <1>0, <2>1, <2>2, <2>3 DEF Undisturbed, TypeOK
<1>6. CASE LookRefused(o)
  <2>1. /\ pc'[p] = pc[p] /\ at'[p] = at[p] /\ act'[p] = act[p] /\ rev'[p] = rev[p]
        /\ staged'[p] = staged[p] /\ seen'[p] = seen[p]
        /\ doomed'[p] = doomed[p] /\ failed'[p] = failed[p]
    BY <1>6 DEF LookRefused, End, GoTo, Forget, TypeOK
  <2>2. newer[p] \subseteq newer'[p] /\ \A n \in Nodes : others'[n] \subseteq others[n]
    BY <1>6 DEF LookRefused, TypeOK
  <2>3. /\ ~crossed'[p] => ~crossed[p] /\ \A n \in Nodes : cache[n] \subseteq cache'[n]
        /\ \A n \in Nodes : missed[p][n] \subseteq missed'[p][n]
        /\ \A n \in Nodes : Settled(p, n) => cache'[n] \subseteq cache[n] \cup missed'[p][n]
    BY <1>6 DEF LookRefused, TypeOK
  <2> QED
    BY <1>0, <2>1, <2>2, <2>3 DEF Undisturbed, TypeOK
<1>7. CASE CheckPasses(o)
  <2>1. /\ pc'[p] = pc[p] /\ at'[p] = at[p] /\ act'[p] = act[p] /\ rev'[p] = rev[p]
        /\ staged'[p] = staged[p] /\ seen'[p] = seen[p]
        /\ doomed'[p] = doomed[p] /\ failed'[p] = failed[p]
    BY <1>7 DEF CheckPasses, GoTo, TypeOK
  <2>2. newer[p] \subseteq newer'[p] /\ \A n \in Nodes : others'[n] \subseteq others[n]
    BY <1>7 DEF CheckPasses, TypeOK
  <2>3. /\ ~crossed'[p] => ~crossed[p] /\ \A n \in Nodes : cache[n] \subseteq cache'[n]
        /\ \A n \in Nodes : missed[p][n] \subseteq missed'[p][n]
        /\ \A n \in Nodes : Settled(p, n) => cache'[n] \subseteq cache[n] \cup missed'[p][n]
    BY <1>7 DEF CheckPasses, TypeOK
  <2> QED
    BY <1>0, <2>1, <2>2, <2>3 DEF Undisturbed, TypeOK
<1>8. CASE CheckFails(o)
  <2>1. /\ pc'[p] = pc[p] /\ at'[p] = at[p] /\ act'[p] = act[p] /\ rev'[p] = rev[p]
        /\ staged'[p] = staged[p] /\ seen'[p] = seen[p]
        /\ doomed'[p] = doomed[p] /\ failed'[p] = failed[p]
    BY <1>8 DEF CheckFails, End, GoTo, Forget, TypeOK
  <2>2. newer[p] \subseteq newer'[p] /\ \A n \in Nodes : others'[n] \subseteq others[n]
    BY <1>8 DEF CheckFails, TypeOK
  <2>3. /\ ~crossed'[p] => ~crossed[p] /\ \A n \in Nodes : cache[n] \subseteq cache'[n]
        /\ \A n \in Nodes : missed[p][n] \subseteq missed'[p][n]
        /\ \A n \in Nodes : Settled(p, n) => cache'[n] \subseteq cache[n] \cup missed'[p][n]
    BY <1>8 DEF CheckFails, TypeOK
  <2> QED
    BY <1>0, <2>1, <2>2, <2>3 DEF Undisturbed, TypeOK
<1>9. CASE Confirm(o)
  <2>1. /\ pc'[p] = pc[p] /\ at'[p] = at[p] /\ act'[p] = act[p] /\ rev'[p] = rev[p]
        /\ staged'[p] = staged[p] /\ seen'[p] = seen[p]
        /\ doomed'[p] = doomed[p] /\ failed'[p] = failed[p]
    BY <1>9 DEF Confirm, GoTo, TypeOK
  <2>2. newer[p] \subseteq newer'[p] /\ \A n \in Nodes : others'[n] \subseteq others[n]
    BY <1>9 DEF Confirm, TypeOK
  <2>3. /\ ~crossed'[p] => ~crossed[p] /\ \A n \in Nodes : cache[n] \subseteq cache'[n]
        /\ \A n \in Nodes : missed[p][n] \subseteq missed'[p][n]
        /\ \A n \in Nodes : Settled(p, n) => cache'[n] \subseteq cache[n] \cup missed'[p][n]
    BY <1>9 DEF Confirm, TypeOK
  <2> QED
    BY <1>0, <2>1, <2>2, <2>3 DEF Undisturbed, TypeOK
<1>10. CASE Decline(o)
  <2>1. /\ pc'[p] = pc[p] /\ at'[p] = at[p] /\ act'[p] = act[p] /\ rev'[p] = rev[p]
        /\ staged'[p] = staged[p] /\ seen'[p] = seen[p]
        /\ doomed'[p] = doomed[p] /\ failed'[p] = failed[p]
    BY <1>10 DEF Decline, End, GoTo, Forget, TypeOK
  <2>2. newer[p] \subseteq newer'[p] /\ \A n \in Nodes : others'[n] \subseteq others[n]
    BY <1>10 DEF Decline, TypeOK
  <2>3. /\ ~crossed'[p] => ~crossed[p] /\ \A n \in Nodes : cache[n] \subseteq cache'[n]
        /\ \A n \in Nodes : missed[p][n] \subseteq missed'[p][n]
        /\ \A n \in Nodes : Settled(p, n) => cache'[n] \subseteq cache[n] \cup missed'[p][n]
    BY <1>10 DEF Decline, TypeOK
  <2> QED
    BY <1>0, <2>1, <2>2, <2>3 DEF Undisturbed, TypeOK
<1>11. CASE RecheckPasses(o)
  <2>1. /\ pc'[p] = pc[p] /\ at'[p] = at[p] /\ act'[p] = act[p] /\ rev'[p] = rev[p]
        /\ staged'[p] = staged[p] /\ seen'[p] = seen[p]
        /\ doomed'[p] = doomed[p] /\ failed'[p] = failed[p]
    BY <1>11 DEF RecheckPasses, GoTo, TypeOK
  <2>2. newer[p] \subseteq newer'[p] /\ \A n \in Nodes : others'[n] \subseteq others[n]
    BY <1>11 DEF RecheckPasses, TypeOK
  <2>3. /\ ~crossed'[p] => ~crossed[p] /\ \A n \in Nodes : cache[n] \subseteq cache'[n]
        /\ \A n \in Nodes : missed[p][n] \subseteq missed'[p][n]
        /\ \A n \in Nodes : Settled(p, n) => cache'[n] \subseteq cache[n] \cup missed'[p][n]
    BY <1>11 DEF RecheckPasses, TypeOK
  <2> QED
    BY <1>0, <2>1, <2>2, <2>3 DEF Undisturbed, TypeOK
<1>12. CASE PickRemoval(o)
  <2>1. /\ pc'[p] = pc[p] /\ at'[p] = at[p] /\ act'[p] = act[p] /\ rev'[p] = rev[p]
        /\ staged'[p] = staged[p] /\ seen'[p] = seen[p]
        /\ doomed'[p] = doomed[p] /\ failed'[p] = failed[p]
    BY <1>12 DEF PickRemoval, TypeOK
  <2>2. newer[p] \subseteq newer'[p] /\ \A n \in Nodes : others'[n] \subseteq others[n]
    BY <1>12 DEF PickRemoval, TypeOK
  <2>3. /\ ~crossed'[p] => ~crossed[p] /\ \A n \in Nodes : cache[n] \subseteq cache'[n]
        /\ \A n \in Nodes : missed[p][n] \subseteq missed'[p][n]
        /\ \A n \in Nodes : Settled(p, n) => cache'[n] \subseteq cache[n] \cup missed'[p][n]
    BY <1>12 DEF PickRemoval, TypeOK
  <2> QED
    BY <1>0, <2>1, <2>2, <2>3 DEF Undisturbed, TypeOK
<1>13. CASE NothingToRemove(o)
  <2>1. /\ pc'[p] = pc[p] /\ at'[p] = at[p] /\ act'[p] = act[p] /\ rev'[p] = rev[p]
        /\ staged'[p] = staged[p] /\ seen'[p] = seen[p]
        /\ doomed'[p] = doomed[p] /\ failed'[p] = failed[p]
    BY <1>13 DEF NothingToRemove, NextNode, GoTo, TypeOK
  <2>2. newer[p] \subseteq newer'[p] /\ \A n \in Nodes : others'[n] \subseteq others[n]
    BY <1>13 DEF NothingToRemove, TypeOK
  <2>3. /\ ~crossed'[p] => ~crossed[p] /\ \A n \in Nodes : cache[n] \subseteq cache'[n]
        /\ \A n \in Nodes : missed[p][n] \subseteq missed'[p][n]
        /\ \A n \in Nodes : Settled(p, n) => cache'[n] \subseteq cache[n] \cup missed'[p][n]
    BY <1>13 DEF NothingToRemove, TypeOK
  <2> QED
    BY <1>0, <2>1, <2>2, <2>3 DEF Undisturbed, TypeOK
<1>14. CASE RefuseRemoval(o)
  <2>1. /\ pc'[p] = pc[p] /\ at'[p] = at[p] /\ act'[p] = act[p] /\ rev'[p] = rev[p]
        /\ staged'[p] = staged[p] /\ seen'[p] = seen[p]
        /\ doomed'[p] = doomed[p] /\ failed'[p] = failed[p]
    BY <1>14 DEF RefuseRemoval, NextNode, GoTo, TypeOK
  <2>2. newer[p] \subseteq newer'[p] /\ \A n \in Nodes : others'[n] \subseteq others[n]
    BY <1>14 DEF RefuseRemoval, TypeOK
  <2>3. /\ ~crossed'[p] => ~crossed[p] /\ \A n \in Nodes : cache[n] \subseteq cache'[n]
        /\ \A n \in Nodes : missed[p][n] \subseteq missed'[p][n]
        /\ \A n \in Nodes : Settled(p, n) => cache'[n] \subseteq cache[n] \cup missed'[p][n]
    BY <1>14 DEF RefuseRemoval, TypeOK
  <2> QED
    BY <1>0, <2>1, <2>2, <2>3 DEF Undisturbed, TypeOK
<1>15. CASE Remove(o)
  <2>1. /\ pc'[p] = pc[p] /\ at'[p] = at[p] /\ act'[p] = act[p] /\ rev'[p] = rev[p]
        /\ staged'[p] = staged[p] /\ seen'[p] = seen[p]
        /\ doomed'[p] = doomed[p] /\ failed'[p] = failed[p]
    BY <1>15 DEF Remove, NextNode, GoTo, TypeOK
  <2>2. newer[p] \subseteq newer'[p] /\ \A n \in Nodes : others'[n] \subseteq others[n]
    BY <1>15, LoseSeen, <1>0 DEF Remove, TypeOK
  <2>3. /\ ~crossed'[p] => ~crossed[p] /\ \A n \in Nodes : cache[n] \subseteq cache'[n]
        /\ \A n \in Nodes : missed[p][n] \subseteq missed'[p][n]
        /\ \A n \in Nodes : Settled(p, n) => cache'[n] \subseteq cache[n] \cup missed'[p][n]
    BY <1>15, LoseSeen, <1>0 DEF Remove, TypeOK
  <2> QED
    BY <1>0, <2>1, <2>2, <2>3 DEF Undisturbed, TypeOK
<1>16. CASE RemoveFails(o)
  <2>1. /\ pc'[p] = pc[p] /\ at'[p] = at[p] /\ act'[p] = act[p] /\ rev'[p] = rev[p]
        /\ staged'[p] = staged[p] /\ seen'[p] = seen[p]
        /\ doomed'[p] = doomed[p] /\ failed'[p] = failed[p]
    BY <1>16 DEF RemoveFails, NextNode, GoTo, TypeOK
  <2>2. newer[p] \subseteq newer'[p] /\ \A n \in Nodes : others'[n] \subseteq others[n]
    BY <1>16, LoseSeen, <1>0 DEF RemoveFails, TypeOK
  <2>3. /\ ~crossed'[p] => ~crossed[p] /\ \A n \in Nodes : cache[n] \subseteq cache'[n]
        /\ \A n \in Nodes : missed[p][n] \subseteq missed'[p][n]
        /\ \A n \in Nodes : Settled(p, n) => cache'[n] \subseteq cache[n] \cup missed'[p][n]
    BY <1>16, LoseSeen, <1>0 DEF RemoveFails, TypeOK
  <2> QED
    BY <1>0, <2>1, <2>2, <2>3 DEF Undisturbed, TypeOK
<1>17. CASE Fetch(o)
  <2>1. /\ pc'[p] = pc[p] /\ at'[p] = at[p] /\ act'[p] = act[p] /\ rev'[p] = rev[p]
        /\ staged'[p] = staged[p] /\ seen'[p] = seen[p]
        /\ doomed'[p] = doomed[p] /\ failed'[p] = failed[p]
    BY <1>17 DEF Fetch, GoTo, TypeOK
  <2>2. newer[p] \subseteq newer'[p] /\ \A n \in Nodes : others'[n] \subseteq others[n]
    BY <1>17 DEF Fetch, TypeOK
  <2>3. /\ ~crossed'[p] => ~crossed[p] /\ \A n \in Nodes : cache[n] \subseteq cache'[n]
        /\ \A n \in Nodes : missed[p][n] \subseteq missed'[p][n]
        /\ \A n \in Nodes : Settled(p, n) => cache'[n] \subseteq cache[n] \cup missed'[p][n]
    BY <1>17 DEF Fetch, TypeOK
  <2> QED
    BY <1>0, <2>1, <2>2, <2>3 DEF Undisturbed, TypeOK
<1>18. CASE OpenBackup(o)
  <2>1. /\ pc'[p] = pc[p] /\ at'[p] = at[p] /\ act'[p] = act[p] /\ rev'[p] = rev[p]
        /\ staged'[p] = staged[p] /\ seen'[p] = seen[p]
        /\ doomed'[p] = doomed[p] /\ failed'[p] = failed[p]
    BY <1>18 DEF OpenBackup, GoTo, TypeOK
  <2>2. newer[p] \subseteq newer'[p] /\ \A n \in Nodes : others'[n] \subseteq others[n]
    BY <1>18 DEF OpenBackup, TypeOK
  <2>3. /\ ~crossed'[p] => ~crossed[p] /\ \A n \in Nodes : cache[n] \subseteq cache'[n]
        /\ \A n \in Nodes : missed[p][n] \subseteq missed'[p][n]
        /\ \A n \in Nodes : Settled(p, n) => cache'[n] \subseteq cache[n] \cup missed'[p][n]
    BY <1>18 DEF OpenBackup, TypeOK
  <2> QED
    BY <1>0, <2>1, <2>2, <2>3 DEF Undisturbed, TypeOK
<1>19. CASE RestoreRefused(o)
  <2>1. /\ pc'[p] = pc[p] /\ at'[p] = at[p] /\ act'[p] = act[p] /\ rev'[p] = rev[p]
        /\ staged'[p] = staged[p] /\ seen'[p] = seen[p]
        /\ doomed'[p] = doomed[p] /\ failed'[p] = failed[p]
    BY <1>19 DEF RestoreRefused, End, GoTo, Forget, TypeOK
  <2>2. newer[p] \subseteq newer'[p] /\ \A n \in Nodes : others'[n] \subseteq others[n]
    BY <1>19 DEF RestoreRefused, TypeOK
  <2>3. /\ ~crossed'[p] => ~crossed[p] /\ \A n \in Nodes : cache[n] \subseteq cache'[n]
        /\ \A n \in Nodes : missed[p][n] \subseteq missed'[p][n]
        /\ \A n \in Nodes : Settled(p, n) => cache'[n] \subseteq cache[n] \cup missed'[p][n]
    BY <1>19 DEF RestoreRefused, TypeOK
  <2> QED
    BY <1>0, <2>1, <2>2, <2>3 DEF Undisturbed, TypeOK
<1>20. CASE Send(o)
  <2>1. /\ pc'[p] = pc[p] /\ at'[p] = at[p] /\ act'[p] = act[p] /\ rev'[p] = rev[p]
        /\ staged'[p] = staged[p] /\ seen'[p] = seen[p]
        /\ doomed'[p] = doomed[p] /\ failed'[p] = failed[p]
    BY <1>20 DEF Send, GoTo, TypeOK
  <2>2. newer[p] \subseteq newer'[p] /\ \A n \in Nodes : others'[n] \subseteq others[n]
    BY <1>20 DEF Send, TypeOK
  <2>3. /\ ~crossed'[p] => ~crossed[p] /\ \A n \in Nodes : cache[n] \subseteq cache'[n]
        /\ \A n \in Nodes : missed[p][n] \subseteq missed'[p][n]
        /\ \A n \in Nodes : Settled(p, n) => cache'[n] \subseteq cache[n] \cup missed'[p][n]
    BY <1>20 DEF Send, TypeOK
  <2> QED
    BY <1>0, <2>1, <2>2, <2>3 DEF Undisturbed, TypeOK
<1>21. CASE NothingToSend(o)
  <2>1. /\ pc'[p] = pc[p] /\ at'[p] = at[p] /\ act'[p] = act[p] /\ rev'[p] = rev[p]
        /\ staged'[p] = staged[p] /\ seen'[p] = seen[p]
        /\ doomed'[p] = doomed[p] /\ failed'[p] = failed[p]
    BY <1>21 DEF NothingToSend, End, GoTo, Forget, TypeOK
  <2>2. newer[p] \subseteq newer'[p] /\ \A n \in Nodes : others'[n] \subseteq others[n]
    BY <1>21 DEF NothingToSend, TypeOK
  <2>3. /\ ~crossed'[p] => ~crossed[p] /\ \A n \in Nodes : cache[n] \subseteq cache'[n]
        /\ \A n \in Nodes : missed[p][n] \subseteq missed'[p][n]
        /\ \A n \in Nodes : Settled(p, n) => cache'[n] \subseteq cache[n] \cup missed'[p][n]
    BY <1>21 DEF NothingToSend, TypeOK
  <2> QED
    BY <1>0, <2>1, <2>2, <2>3 DEF Undisturbed, TypeOK
<1>22. CASE FillSome(o)
  <2>1. /\ pc'[p] = pc[p] /\ at'[p] = at[p] /\ act'[p] = act[p] /\ rev'[p] = rev[p]
        /\ staged'[p] = staged[p] /\ seen'[p] = seen[p]
        /\ doomed'[p] = doomed[p] /\ failed'[p] = failed[p]
    BY <1>22 DEF FillSome, TypeOK
  <2>2. newer[p] \subseteq newer'[p] /\ \A n \in Nodes : others'[n] \subseteq others[n]
    BY <1>22 DEF FillSome, TypeOK
  <2>3. /\ ~crossed'[p] => ~crossed[p] /\ \A n \in Nodes : cache[n] \subseteq cache'[n]
        /\ \A n \in Nodes : missed[p][n] \subseteq missed'[p][n]
        /\ \A n \in Nodes : Settled(p, n) => cache'[n] \subseteq cache[n] \cup missed'[p][n]
    <3>1. PICK i \in staged[o] : Gain(at[o], {i})
      BY <1>22 DEF FillSome
    <3>2. {i} \in SUBSET Items
      BY <1>0
    <3> QED
      BY <1>22, <1>0, <3>1, <3>2, GainSeen DEF FillSome
  <2> QED
    BY <1>0, <2>1, <2>2, <2>3 DEF Undisturbed, TypeOK
<1>23. CASE FillRest(o)
  <2>1. /\ pc'[p] = pc[p] /\ at'[p] = at[p] /\ act'[p] = act[p] /\ rev'[p] = rev[p]
        /\ staged'[p] = staged[p] /\ seen'[p] = seen[p]
        /\ doomed'[p] = doomed[p] /\ failed'[p] = failed[p]
    BY <1>23 DEF FillRest, End, NextNode, GoTo, Forget, TypeOK
  <2>2. newer[p] \subseteq newer'[p] /\ \A n \in Nodes : others'[n] \subseteq others[n]
    BY <1>23 DEF FillRest, TypeOK
  <2>3. /\ ~crossed'[p] => ~crossed[p] /\ \A n \in Nodes : cache[n] \subseteq cache'[n]
        /\ \A n \in Nodes : missed[p][n] \subseteq missed'[p][n]
        /\ \A n \in Nodes : Settled(p, n) => cache'[n] \subseteq cache[n] \cup missed'[p][n]
    BY <1>23, GainSeen, <1>0 DEF FillRest, TypeOK
  <2> QED
    BY <1>0, <2>1, <2>2, <2>3 DEF Undisturbed, TypeOK
<1>24. CASE CopyFails(o)
  <2>1. /\ pc'[p] = pc[p] /\ at'[p] = at[p] /\ act'[p] = act[p] /\ rev'[p] = rev[p]
        /\ staged'[p] = staged[p] /\ seen'[p] = seen[p]
        /\ doomed'[p] = doomed[p] /\ failed'[p] = failed[p]
    BY <1>24 DEF CopyFails, NextNode, GoTo, TypeOK
  <2>2. newer[p] \subseteq newer'[p] /\ \A n \in Nodes : others'[n] \subseteq others[n]
    BY <1>24 DEF CopyFails, TypeOK
  <2>3. /\ ~crossed'[p] => ~crossed[p] /\ \A n \in Nodes : cache[n] \subseteq cache'[n]
        /\ \A n \in Nodes : missed[p][n] \subseteq missed'[p][n]
        /\ \A n \in Nodes : Settled(p, n) => cache'[n] \subseteq cache[n] \cup missed'[p][n]
    BY <1>24 DEF CopyFails, TypeOK
  <2> QED
    BY <1>0, <2>1, <2>2, <2>3 DEF Undisturbed, TypeOK
<1>25. CASE Stops(o)
  <2>1. /\ pc'[p] = pc[p] /\ at'[p] = at[p] /\ act'[p] = act[p] /\ rev'[p] = rev[p]
        /\ staged'[p] = staged[p] /\ seen'[p] = seen[p]
        /\ doomed'[p] = doomed[p] /\ failed'[p] = failed[p]
    BY <1>25 DEF Stops, End, GoTo, Forget, TypeOK
  <2>2. newer[p] \subseteq newer'[p] /\ \A n \in Nodes : others'[n] \subseteq others[n]
    BY <1>25 DEF Stops, TypeOK
  <2>3. /\ ~crossed'[p] => ~crossed[p] /\ \A n \in Nodes : cache[n] \subseteq cache'[n]
        /\ \A n \in Nodes : missed[p][n] \subseteq missed'[p][n]
        /\ \A n \in Nodes : Settled(p, n) => cache'[n] \subseteq cache[n] \cup missed'[p][n]
    BY <1>25 DEF Stops, TypeOK
  <2> QED
    BY <1>0, <2>1, <2>2, <2>3 DEF Undisturbed, TypeOK
<1>26. CASE Exit(o)
  <2>1. /\ pc'[p] = pc[p] /\ at'[p] = at[p] /\ act'[p] = act[p] /\ rev'[p] = rev[p]
        /\ staged'[p] = staged[p] /\ seen'[p] = seen[p]
        /\ doomed'[p] = doomed[p] /\ failed'[p] = failed[p]
    BY <1>26 DEF Exit, GoTo, Forget, TypeOK
  <2>2. newer[p] \subseteq newer'[p] /\ \A n \in Nodes : others'[n] \subseteq others[n]
    BY <1>26 DEF Exit, TypeOK
  <2>3. /\ ~crossed'[p] => ~crossed[p] /\ \A n \in Nodes : cache[n] \subseteq cache'[n]
        /\ \A n \in Nodes : missed[p][n] \subseteq missed'[p][n]
        /\ \A n \in Nodes : Settled(p, n) => cache'[n] \subseteq cache[n] \cup missed'[p][n]
    BY <1>26 DEF Exit, TypeOK
  <2> QED
    BY <1>0, <2>1, <2>2, <2>3 DEF Undisturbed, TypeOK
<1> QED
  BY <1>1, <1>2, <1>3, <1>4, <1>5, <1>6, <1>7, <1>8, <1>9, <1>10, <1>11, <1>12, <1>13, <1>14, <1>15, <1>16, <1>17, <1>18, <1>19, <1>20, <1>21, <1>22, <1>23, <1>24, <1>25, <1>26 DEF Step

-----------------------------------------------------------------------------
(***************************************************************************)
(* The run's own steps.                                                    *)
(***************************************************************************)
\* A run that is over, or not yet past its checks, relies on nothing.
LEMMA KnowsLittle ==
  ASSUME NEW o \in Operators,
         \/ pc'[o] \in {"idle", "over"}
         \/ pc'[o] = "fetch" /\ act'[o] = "download"
         \/ pc'[o] = "open" /\ act'[o] \in Fills
         \/ pc'[o] \in {"look", "check", "confirm"} /\ act'[o] \in Removes \cup {"cleanup"}
         \/ pc'[o] \in {"stage", "publish"} /\ act'[o] \in {"backup", "backupdelete"}
         \/ pc'[o] = "ok" /\ act'[o] = "backup"
  PROVE Known(o)'
  BY DEF Known, Role, Covered, Aimed, Cleared, Filled, Removes, Fills

\* Going over to another node leaves a node that was not the last, or ends the run.
LEMMA NextNodeIs ==
  ASSUME TypeOK, NEW o \in Operators, NEW phase, NEW f \in BOOLEAN, NextNode(o, phase, f)
  PROVE /\ failed'[o] = (failed[o] \/ f)
        /\ staged'[o] = {} /\ doomed'[o] = {}
        /\ \/ at[o] # NNodes /\ pc'[o] = phase /\ at'[o] = at[o] + 1
           \/ at[o] = NNodes /\ pc'[o] = "over"
           \/ at[o] = NNodes /\ pc'[o] = "ok" /\ ~failed[o] /\ ~f
  BY DEF NextNode, GoTo, TypeOK

\* The run is done with a node: nothing it is for is left there that it knows of, or it
\* has noted the failure.
LEMMA RemovalMovesOn ==
  ASSUME TypeOK, TypeOK', NEW o \in Operators, NEW f \in BOOLEAN, Known(o),
         pc[o] \in {"rmlook", "rm"}, NextNode(o, "rmlook", f),
         act'[o] = act[o], rev'[o] = rev[o],
         backup' = backup,
         \A n \in Nodes : cache'[n] \subseteq cache[n] /\ missed[o][n] \subseteq missed'[o][n],
         f \/ act[o] = "cleanup" \/ cache'[at[o]] \cap Target(o) \subseteq missed'[o][at[o]]
  PROVE Known(o)'
<1>1. Target(o)' = Target(o)
  BY DEF Target
<1>2. act[o] \in Removes \cup {"cleanup"}
  BY DEF Known, Role
<1>3. at[o] \in Nodes /\ Nodes = 1..NNodes /\ NNodes \in Nat
  BY CacheAssumption DEF TypeOK, Nodes
<1>4. CASE pc'[o] = "over"
  BY <1>4, KnowsLittle
<1>5. CASE at[o] # NNodes /\ pc'[o] = "rmlook" /\ at'[o] = at[o] + 1
  <2>1. Role(o)' /\ Aimed(o)' /\ Filled(o)'
    BY <1>2, <1>5 DEF Role, Aimed, Filled, Removes
  <2>2. Covered(o)'
    BY <1>1, <1>5 DEF Known, Covered
  <2>3. ASSUME act[o] \in Removes, ~failed'[o], NEW n \in Nodes, n < at'[o]
        PROVE cache'[n] \cap Target(o) \subseteq missed'[o][n]
    <3>1. ~failed[o] /\ ~f
      BY <2>3, NextNodeIs DEF TypeOK
    <3>2. CASE n = at[o]
      BY <2>3, <3>1, <3>2 DEF Removes
    <3>3. CASE n < at[o]
      BY <2>3, <3>1, <3>3 DEF Known, Cleared
    <3> QED
      BY <2>3, <3>2, <3>3, <1>3, <1>5 DEF Nodes
  <2>4. Cleared(o)'
    BY <2>3, <1>1, <1>5 DEF Cleared
  <2> QED
    BY <2>1, <2>2, <2>4 DEF Known
<1>6. CASE at[o] = NNodes /\ pc'[o] = "ok" /\ ~failed[o] /\ ~f
  <2>1. Role(o)' /\ Aimed(o)' /\ Filled(o)' /\ Covered(o)'
    BY <1>2, <1>6 DEF Role, Aimed, Filled, Covered, Removes
  <2>2. ASSUME act[o] \in Removes, NEW n \in Nodes
        PROVE cache'[n] \cap Target(o) \subseteq missed'[o][n]
    <3>1. CASE n = at[o]
      BY <2>2, <3>1, <1>6 DEF Removes
    <3>2. CASE n < at[o]
      BY <2>2, <3>2, <1>6 DEF Known, Cleared
    <3> QED
      BY <2>2, <3>1, <3>2, <1>3, <1>6
  <2>3. Cleared(o)'
    BY <2>2, <1>1, <1>6 DEF Cleared
  <2> QED
    BY <2>1, <2>3 DEF Known
<1> QED
  BY <1>4, <1>5, <1>6, NextNodeIs

\* The run has filled a node, or noted the failure.
LEMMA FillMovesOn ==
  ASSUME TypeOK, TypeOK', NEW o \in Operators, NEW f \in BOOLEAN, Known(o),
         pc[o] = "fill", NextNode(o, "send", f),
         act'[o] = act[o], backup' = backup, crossed' = crossed,
         \A n \in Nodes : cache[n] \subseteq cache'[n],
         f \/ cache[at[o]] \cup staged[o] \subseteq cache'[at[o]]
  PROVE Known(o)'
<1>1. act[o] \in Fills
  BY DEF Known, Role
<1>2. at[o] \in Nodes /\ Nodes = 1..NNodes /\ NNodes \in Nat
  BY CacheAssumption DEF TypeOK, Nodes
<1>3. CASE pc'[o] = "over"
  BY <1>3, KnowsLittle
<1>4. CASE pc'[o] \in {"send", "ok"}
  <2>1. Role(o)' /\ Covered(o)' /\ Aimed(o)' /\ Cleared(o)'
    BY <1>1, <1>4 DEF Role, Covered, Aimed, Cleared, Removes, Fills
  <2>2. ASSUME act[o] = "restore", ~failed'[o], ~crossed[o], NEW n \in Nodes, n < at[o] \/ n = at[o]
        PROVE backup \subseteq cache'[n]
    <3>1. ~failed[o] /\ ~f
      BY <2>2, NextNodeIs DEF TypeOK
    <3>2. CASE n = at[o]
      BY <2>2, <3>1, <3>2 DEF Known, Filled
    <3>3. CASE n < at[o]
      BY <2>2, <3>1, <3>3 DEF Known, Filled
    <3> QED
      BY <2>2, <3>2, <3>3
  <2>3. act[o] = "restore" => backup # {}
    BY DEF Known, Filled
  <2>4. CASE at[o] # NNodes /\ pc'[o] = "send" /\ at'[o] = at[o] + 1
    <3>1. \A n \in Nodes : n < at'[o] => n < at[o] \/ n = at[o]
      BY <2>4, <1>2
    <3>2. Filled(o)'
      BY <2>2, <2>3, <2>4, <3>1, <1>2 DEF Filled
    <3> QED
      BY <2>1, <3>2 DEF Known
  <2>5. CASE at[o] = NNodes /\ pc'[o] = "ok" /\ ~failed[o] /\ ~f
    <3>1. \A n \in Nodes : n < at[o] \/ n = at[o]
      BY <2>5, <1>2
    <3>2. ~failed'[o]
      BY <2>5, NextNodeIs
    <3>3. Filled(o)'
      BY <2>2, <2>3, <2>5, <3>1, <3>2 DEF Filled
    <3> QED
      BY <2>1, <3>3 DEF Known
  <2> QED
    BY <2>4, <2>5, <1>4, NextNodeIs
<1> QED
  BY <1>3, <1>4, NextNodeIs

\* What a run sees of its own fills and removals.
LEMMA OwnGain ==
  ASSUME TypeOK, NEW o \in Operators, NEW S, Gain(at[o], S)
  PROVE /\ cache'[at[o]] = cache[at[o]] \cup S
        /\ \A n \in Nodes : cache[n] \subseteq cache'[n]
  BY DEF Gain, TypeOK

LEMMA OwnLoss ==
  ASSUME TypeOK, NEW o \in Operators, NEW S, Lose(o, at[o], S)
  PROVE /\ cache'[at[o]] = cache[at[o]] \ S
        /\ \A n \in Nodes : cache'[n] \subseteq cache[n]
        /\ missed' = missed /\ newer' = newer
  BY DEF Lose, TypeOK

LEMMA OwnStep ==
  ASSUME TypeOK, TypeOK', NEW o \in Operators, Known(o), Step(o)
  PROVE Known(o)'
<1> USE DEF caches, request, place, work, history
<1>0. at[o] \in Nodes /\ 1 \in Nodes /\ Nodes = 1..NNodes /\ NNodes \in Nat
  BY CacheAssumption DEF TypeOK, Nodes
<1>00. act[o] \in Actions \cup {"none"} /\ rev[o] \in Revs \cup {All} /\ All \notin Revs
  BY CacheAssumption DEF TypeOK
<1>1. CASE StageBackup(o)
  <2>1. pc'[o] = "publish" /\ pc[o] = "stage" /\ act' = act
    BY <1>1 DEF StageBackup, GoTo, TypeOK
  <2>2. act'[o] \in {"backup", "backupdelete"}
    BY <2>1 DEF Known, Role
  <2> QED
    BY <2>1, <2>2, KnowsLittle
<1>2. CASE BackupRefused(o)
  <2>1. pc'[o] = "over"
    BY <1>2 DEF BackupRefused, End, GoTo, TypeOK
  <2> QED
    BY <2>1, KnowsLittle
<1>3. CASE Publish(o)
  <2>1. act[o] \in {"backup", "backupdelete"} /\ act' = act
    BY <1>3 DEF Publish, Known, Role
  <2>2. pc'[o] = IF act[o] = "backup" THEN "ok" ELSE "look"
    BY <1>3 DEF Publish, GoTo, TypeOK
  <2> QED
    BY <2>1, <2>2, KnowsLittle DEF Removes
<1>4. CASE PublishRefused(o)
  <2>1. pc'[o] = "over"
    BY <1>4 DEF PublishRefused, End, GoTo, TypeOK
  <2> QED
    BY <2>1, KnowsLittle
<1>5. CASE Look(o)
  <2> DEFINE mine == cache[at[o]] \cap Target(o)
  <2>1. /\ act' = act /\ rev' = rev /\ missed' = missed /\ cache' = cache
        /\ seen'[o] = seen[o] \cup mine
    BY <1>5 DEF Look, TypeOK
  <2>2. Target(o)' = Target(o)
    BY <2>1 DEF Target
  <2>3. act[o] \in Removes \cup {"cleanup"}
    BY <1>5 DEF Look, Known, Role
  <2>4. CASE pc[o] = "look"
    <3>1. pc'[o] \in {"look", "check"}
      BY <1>5, <2>4 DEF Look, GoTo, TypeOK
    <3> QED
      BY <2>1, <2>3, <3>1, KnowsLittle
  <2>5. CASE pc[o] = "relook"
    <3>1. \/ at[o] < NNodes /\ pc'[o] = "relook" /\ at'[o] = at[o] + 1
          \/ ~(at[o] < NNodes) /\ pc'[o] = "recheck"
      BY <1>5, <2>5 DEF Look, GoTo, TypeOK
    <3>2. Role(o)' /\ Aimed(o)' /\ Cleared(o)' /\ Filled(o)'
      BY <2>1, <2>3, <3>1 DEF Role, Aimed, Cleared, Filled, Removes
    <3>3. ASSUME act[o] = "backupdelete", NEW n \in Nodes, n < at[o] \/ n = at[o]
          PROVE cache[n] \cap Target(o) \subseteq seen'[o] \cup missed[o][n]
      <4>1. CASE n = at[o]
        BY <4>1, <2>1
      <4>2. CASE n < at[o]
        BY <4>2, <2>1, <2>5, <3>3 DEF Known, Covered
      <4> QED
        BY <3>3, <4>1, <4>2
    <3>4. \A n \in Nodes : pc'[o] = "recheck" \/ n < at'[o] => n < at[o] \/ n = at[o]
      BY <3>1, <1>0
    <3>5. Covered(o)'
      BY <2>1, <2>2, <3>1, <3>3, <3>4 DEF Covered
    <3> QED
      BY <3>2, <3>5 DEF Known
  <2> QED
    BY <1>5, <2>4, <2>5 DEF Look
<1>6. CASE LookRefused(o)
  <2>1. pc'[o] = "over"
    BY <1>6 DEF LookRefused, End, GoTo, TypeOK
  <2> QED
    BY <2>1, KnowsLittle
<1>7. CASE CheckPasses(o)
  <2>1. pc'[o] = "confirm"
    BY <1>7 DEF CheckPasses, GoTo, TypeOK
  <2>2. act'[o] \in Removes \cup {"cleanup"}
    BY <1>7 DEF CheckPasses, Known, Role
  <2> QED
    BY <2>1, <2>2, KnowsLittle
<1>8. CASE CheckFails(o)
  <2>1. pc'[o] = "over"
    BY <1>8 DEF CheckFails, End, GoTo, TypeOK
  <2> QED
    BY <2>1, KnowsLittle
<1>9. CASE Confirm(o)
  <2>1. act' = act /\ rev' = rev /\ act[o] \in Removes \cup {"cleanup"}
    BY <1>9 DEF Confirm, Known, Role
  <2>2. \/ pc'[o] = "relook" /\ at'[o] = 1
        \/ pc'[o] = "rmlook" /\ at'[o] = 1 /\ act[o] # "backupdelete"
    BY <1>9 DEF Confirm, GoTo, TypeOK
  <2>3. \A n \in Nodes : ~(n < 1)
    BY <1>0
  <2> QED
    BY <2>1, <2>2, <2>3 DEF Known, Role, Covered, Aimed, Cleared, Filled, Removes
<1>10. CASE Decline(o)
  <2>1. pc'[o] = "over"
    BY <1>10 DEF Decline, End, GoTo, TypeOK
  <2> QED
    BY <2>1, KnowsLittle
<1>11. CASE RecheckPasses(o)
  <2>1. /\ act' = act /\ rev' = rev /\ cache' = cache /\ backup' = backup /\ missed' = missed
        /\ pc'[o] = "rmlook" /\ at'[o] = 1
    BY <1>11 DEF RecheckPasses, GoTo, TypeOK
  <2>2. Target(o)' = Target(o)
    BY <2>1 DEF Target
  <2>3. \A n \in Nodes : ~(n < 1)
    BY <1>0
  <2>4. act[o] \in Removes \cup {"cleanup"}
    BY <1>11 DEF RecheckPasses, Known, Role
  <2>5. Role(o)' /\ Aimed(o)' /\ Cleared(o)' /\ Filled(o)'
    BY <2>1, <2>3, <2>4 DEF Role, Aimed, Cleared, Filled, Removes
  <2>6. act[o] = "backupdelete" => seen[o] \subseteq backup
    BY <1>11 DEF RecheckPasses, MayDelete
  <2>7. ASSUME act[o] = "backupdelete"
        PROVE \A n \in Nodes : cache[n] \cap Target(o) \subseteq seen[o] \cup missed[o][n]
    BY <1>11, <2>7 DEF RecheckPasses, Known, Covered
  <2>8. Covered(o)'
    BY <2>1, <2>2, <2>6, <2>7 DEF Covered
  <2> QED
    BY <2>5, <2>8 DEF Known
<1>12. CASE PickRemoval(o)
  <2>1. /\ act' = act /\ rev' = rev /\ cache' = cache /\ backup' = backup /\ missed' = missed
        /\ others' = others /\ failed' = failed /\ at' = at
        /\ pc[o] = "rmlook" /\ pc'[o] = "rm" /\ ~RemovalRefused(o)
    BY <1>12 DEF PickRemoval, TypeOK
  <2>2. PICK R \in Doomed(o) \ {{}} : doomed'[o] = R
    BY <1>12 DEF PickRemoval, TypeOK
  <2>3. Target(o)' = Target(o) /\ FilesOf(doomed[o])' = FilesOf(R)
    BY <2>1, <2>2 DEF Target, FilesOf
  <2>4. act[o] \in Removes \cup {"cleanup"}
    BY <2>1 DEF Known, Role
  <2>5. dangling[at[o]] = {}
    BY <2>2 DEF Doomed
  <2>6. cache[at[o]] \subseteq Items /\ RevOf \in [Items -> Revs]
    BY <1>0, CacheAssumption DEF TypeOK
  <2>7. Aimed(o)'
    <3>1. CASE act[o] \in Removes
      <4>1. CASE rev[o] = All
        <5>1. R = Revs
          BY <2>2, <2>5, <3>1, <4>1 DEF Doomed, Removes
        <5>2. FilesOf(R) = Items /\ Target(o) = Items
          BY <4>1, <5>1, <2>6 DEF FilesOf, Target
        <5> QED
          BY <2>1, <2>2, <2>3, <2>6, <4>1, <5>2, <3>1 DEF Aimed, Removes
      <4>2. CASE rev[o] # All
        <5>1. R = RevsOf(cache[at[o]]) \cap {rev[o]}
          BY <2>2, <2>5, <3>1, <4>2 DEF Doomed, Removes
        <5>2. FilesOf(R) \subseteq Target(o)
          BY <4>2, <5>1 DEF FilesOf, Target
        <5>3. cache[at[o]] \cap Target(o) \subseteq FilesOf(R)
          BY <4>2, <5>1 DEF FilesOf, Target, RevsOf
        <5>4. R \cap others[at[o]] = {}
          BY <2>1, <4>2, <5>1 DEF RemovalRefused
        <5> QED
          BY <2>1, <2>2, <2>3, <5>2, <5>3, <5>4 DEF Aimed
      <4> QED
        BY <4>1, <4>2
    <3>2. CASE act[o] = "cleanup"
      <4>1. R \cap others[at[o]] = {}
        BY <2>2, <2>5, <3>2 DEF Doomed
      <4> QED
        BY <2>1, <2>2, <4>1, <3>2 DEF Aimed, Removes
    <3> QED
      BY <2>4, <3>1, <3>2
  <2>8. Role(o)' /\ Filled(o)'
    BY <2>1, <2>4 DEF Role, Filled, Removes
  <2>9. Covered(o)' /\ Cleared(o)'
    BY <2>1, <2>3 DEF Known, Covered, Cleared
  <2> QED
    BY <2>7, <2>8, <2>9 DEF Known
<1>13. CASE NothingToRemove(o)
  <2>1. /\ act' = act /\ rev' = rev /\ cache' = cache /\ backup' = backup
        /\ pc[o] = "rmlook" /\ NextNode(o, "rmlook", FALSE) /\ {} \in Doomed(o)
    BY <1>13 DEF NothingToRemove
  <2>2. \A n \in Nodes : missed[o][n] \subseteq missed'[o][n]
    BY <1>13 DEF NothingToRemove, TypeOK
  <2>3. CASE act[o] \in Removes
    <3>1. cache'[at[o]] \cap Target(o) \subseteq missed'[o][at[o]]
      <4>1. CASE dangling[at[o]] # {}
        BY <1>13, <1>0, <2>1, <4>1 DEF NothingToRemove, TypeOK
      <4>2. CASE dangling[at[o]] = {} /\ rev[o] = All
        <5>1. Revs = {}
          BY <2>1, <2>3, <4>2 DEF Doomed, Removes
        <5>2. cache[at[o]] = {}
          BY <1>0, <5>1, CacheAssumption DEF TypeOK
        <5> QED
          BY <2>1, <5>2
      <4>3. CASE dangling[at[o]] = {} /\ rev[o] # All
        <5>1. rev[o] \notin RevsOf(cache[at[o]])
          BY <2>1, <2>3, <4>3 DEF Doomed, Removes
        <5>2. cache[at[o]] \cap Target(o) = {}
          BY <4>3, <5>1 DEF RevsOf, FilesOf, Target
        <5> QED
          BY <2>1, <5>2
      <4> QED
        BY <4>1, <4>2, <4>3
    <3> QED
      BY <2>1, <2>2, <3>1, RemovalMovesOn
  <2>4. CASE act[o] = "cleanup"
    BY <2>1, <2>2, <2>4, RemovalMovesOn
  <2>5. act[o] \in Removes \cup {"cleanup"}
    BY <2>1 DEF Known, Role
  <2> QED
    BY <2>3, <2>4, <2>5
<1>14. CASE RefuseRemoval(o)
  <2>1. /\ act' = act /\ rev' = rev /\ cache' = cache /\ backup' = backup /\ missed' = missed
        /\ pc[o] = "rmlook" /\ NextNode(o, "rmlook", TRUE)
    BY <1>14 DEF RefuseRemoval
  <2> QED
    BY <2>1, RemovalMovesOn
<1>15. CASE Remove(o)
  <2>1. /\ act' = act /\ rev' = rev /\ backup' = backup
        /\ pc[o] = "rm" /\ NextNode(o, "rmlook", FALSE) /\ Lose(o, at[o], FilesOf(doomed[o]))
    BY <1>15 DEF Remove
  <2>2. act[o] \in Removes => cache[at[o]] \cap Target(o) \subseteq FilesOf(doomed[o]) \cup missed[o][at[o]]
    BY <2>1 DEF Known, Aimed
  <2>3. act[o] \in Removes \cup {"cleanup"}
    BY <2>1 DEF Known, Role
  <2>4. act[o] = "cleanup" \/ cache'[at[o]] \cap Target(o) \subseteq missed'[o][at[o]]
    BY <2>1, <2>2, <2>3, OwnLoss
  <2> QED
    BY <2>1, <2>4, OwnLoss, RemovalMovesOn
<1>16. CASE RemoveFails(o)
  <2>1. /\ act' = act /\ rev' = rev /\ backup' = backup
        /\ pc[o] = "rm" /\ NextNode(o, "rmlook", TRUE)
    BY <1>16 DEF RemoveFails
  <2>2. PICK S \in SUBSET FilesOf(doomed[o]) : Lose(o, at[o], S)
    BY <1>16 DEF RemoveFails
  <2> QED
    BY <2>1, <2>2, OwnLoss, RemovalMovesOn
<1>17. CASE Fetch(o)
  <2>1. act[o] \in Fills /\ act' = act /\ pc[o] = "fetch" /\ pc'[o] = "fill"
    BY <1>17 DEF Fetch, Known, Role, GoTo, TypeOK
  <2>2. act[o] = "restore" => FALSE
    BY <2>1 DEF Known, Role
  <2> QED
    BY <2>1, <2>2 DEF Known, Role, Covered, Aimed, Cleared, Filled, Removes, Fills
<1>18. CASE OpenBackup(o)
  <2>1. /\ act[o] \in Fills /\ act' = act /\ pc'[o] = "fill" /\ at'[o] = 1
        /\ backup # {} /\ backup' = backup /\ staged'[o] = backup
    BY <1>18 DEF OpenBackup, Known, Role, GoTo, TypeOK
  <2>2. \A n \in Nodes : ~(n < 1)
    BY <1>0
  <2> QED
    BY <2>1, <2>2 DEF Known, Role, Covered, Aimed, Cleared, Filled, Removes, Fills
<1>19. CASE RestoreRefused(o)
  <2>1. pc'[o] = "over"
    BY <1>19 DEF RestoreRefused, End, GoTo, TypeOK
  <2> QED
    BY <2>1, KnowsLittle
<1>20. CASE Send(o)
  <2>1. /\ act[o] \in Fills /\ act' = act /\ pc[o] = "send" /\ pc'[o] = "fill" /\ at'[o] = at[o]
        /\ backup' = backup /\ cache' = cache /\ staged'[o] = cache[1]
        /\ failed' = failed /\ crossed' = crossed
    BY <1>20 DEF Send, Known, Role, GoTo, TypeOK
  <2>2. Role(o)' /\ Covered(o)' /\ Aimed(o)' /\ Cleared(o)'
    BY <2>1 DEF Role, Covered, Aimed, Cleared, Removes, Fills
  <2>3. Filled(o)'
    BY <1>0, <2>1 DEF Known, Filled
  <2> QED
    BY <2>2, <2>3 DEF Known
<1>21. CASE NothingToSend(o)
  <2>1. pc'[o] = "over"
    BY <1>21 DEF NothingToSend, End, GoTo, TypeOK
  <2> QED
    BY <2>1, KnowsLittle
<1>22. CASE FillSome(o)
  <2>1. /\ act' = act /\ pc[o] = "fill" /\ pc' = pc /\ at' = at /\ backup' = backup
        /\ failed' = failed /\ crossed' = crossed
    BY <1>22 DEF FillSome
  <2>2. PICK i \in staged[o] : Gain(at[o], {i}) /\ staged' = [staged EXCEPT ![o] = @ \ {i}]
    BY <1>22 DEF FillSome
  <2>3. /\ staged'[o] \cup cache'[at[o]] = staged[o] \cup cache[at[o]]
        /\ \A n \in Nodes : cache[n] \subseteq cache'[n]
    BY <2>2, OwnGain DEF TypeOK
  <2>4. Role(o)' /\ Covered(o)' /\ Aimed(o)' /\ Cleared(o)'
    BY <2>1 DEF Known, Role, Covered, Aimed, Cleared
  <2>5. Filled(o)'
    BY <2>1, <2>3 DEF Known, Filled
  <2> QED
    BY <2>4, <2>5 DEF Known
<1>23. CASE FillRest(o)
  <2>1. /\ act' = act /\ pc[o] = "fill" /\ backup' = backup /\ crossed' = crossed
        /\ Gain(at[o], staged[o])
        /\ End(o) \/ NextNode(o, "send", FALSE)
    BY <1>23 DEF FillRest
  <2>2. CASE End(o)
    <3>1. pc'[o] = "over"
      BY <2>2 DEF End, GoTo, TypeOK
    <3> QED
      BY <3>1, KnowsLittle
  <2>3. CASE NextNode(o, "send", FALSE)
    BY <2>1, <2>3, OwnGain, FillMovesOn
  <2> QED
    BY <2>1, <2>2, <2>3
<1>24. CASE CopyFails(o)
  <2>1. /\ act' = act /\ pc[o] = "fill" /\ backup' = backup /\ crossed' = crossed /\ cache' = cache
        /\ NextNode(o, "send", TRUE)
    BY <1>24 DEF CopyFails
  <2> QED
    BY <2>1, FillMovesOn
<1>25. CASE Stops(o)
  <2>1. pc'[o] = "over"
    BY <1>25 DEF Stops, End, GoTo, TypeOK
  <2> QED
    BY <2>1, KnowsLittle
<1>26. CASE Exit(o)
  <2>1. pc'[o] = "idle"
    BY <1>26 DEF Exit, GoTo, TypeOK
  <2> QED
    BY <2>1, KnowsLittle
<1> QED
  BY <1>1, <1>2, <1>3, <1>4, <1>5, <1>6, <1>7, <1>8, <1>9, <1>10, <1>11, <1>12, <1>13, <1>14, <1>15, <1>16, <1>17, <1>18, <1>19, <1>20, <1>21, <1>22, <1>23, <1>24, <1>25, <1>26 DEF Step

-----------------------------------------------------------------------------
(***************************************************************************)
(* The theorems.                                                           *)
(***************************************************************************)
LEMMA InitInv == Init => IInv
<1> SUFFICES ASSUME Init PROVE IInv
  OBVIOUS
<1>1. TypeOK
  BY InitType
<1>2. \A o \in Operators : Known(o)
  BY DEF Init, Known, Role, Covered, Aimed, Cleared, Filled, Removes, Fills
<1> QED
  BY <1>1, <1>2 DEF IInv

LEMMA Inductive == IInv /\ [Next]_vars => IInv'
<1> SUFFICES ASSUME IInv, [Next]_vars PROVE IInv'
  OBVIOUS
<1>1. TypeOK /\ TypeOK'
  BY NextType DEF IInv
<1>2. ASSUME NEW p \in Operators PROVE Known(p)'
  <2>0. Known(p)
    BY <1>2 DEF IInv
  <2>1. ASSUME NEW o \in Operators, NEW a \in Commands[o], NEW r \in Revs \cup {All}, Start(o, a, r)
        PROVE Known(p)'
    <3>1. CASE p = o
      <4>1. a \in Actions /\ act'[o] = a
        BY <1>1, <2>1, CacheAssumption DEF Start, TypeOK
      <4>2. pc'[o] = CASE a = "download" -> "fetch" [] a = "restore" -> "open"
                       [] a \in {"backup", "backupdelete"} -> "stage" [] OTHER -> "look"
        BY <1>1, <2>1 DEF Start, GoTo, TypeOK
      <4> QED
        BY <3>1, <4>1, <4>2, KnowsLittle DEF Actions, Removes, Fills
    <3>2. CASE p # o
      <4>1. Undisturbed(p)
        BY <1>1, <1>2, <2>1, <3>2 DEF Start, GoTo, Undisturbed, TypeOK, caches, work, history
      <4> QED
        BY <1>1, <1>2, <2>0, <4>1, StillKnown
    <3> QED
      BY <3>1, <3>2
  <2>2. ASSUME NEW o \in Operators, Step(o)
        PROVE Known(p)'
    <3>1. CASE p = o
      BY <1>1, <2>0, <2>2, <3>1, OwnStep
    <3>2. CASE p # o
      BY <1>1, <1>2, <2>0, <2>2, <3>2, StepUndisturbed, StillKnown
    <3> QED
      BY <3>1, <3>2
  <2>3. ASSUME NEW n \in Nodes, NEW i \in Items, Arrive(n, i)
        PROVE Known(p)'
    <3>1. {i} \in SUBSET Items /\ Gain(n, {i})
      BY <2>3 DEF Arrive
    <3>2. Undisturbed(p)
      BY <1>1, <1>2, <2>3, <3>1, GainSeen DEF Arrive, Undisturbed, TypeOK, request, place, work
    <3> QED
      BY <1>1, <1>2, <2>0, <3>2, StillKnown
  <2>4. ASSUME NEW n \in Nodes, NEW r \in Revs, OtherArrives(n, r)
        PROVE Known(p)'
    <3>1. pc[p] = "rm" => others'[at[p]] \subseteq others[at[p]] \cup newer'[p]
      BY <1>1, <1>2, <2>4 DEF OtherArrives, TypeOK
    <3>2. newer[p] \subseteq newer'[p]
      BY <1>1, <1>2, <2>4 DEF OtherArrives, TypeOK
    <3>3. Undisturbed(p)
      BY <2>4, <3>1, <3>2 DEF OtherArrives, Undisturbed, request, place, work
    <3> QED
      BY <1>1, <1>2, <2>0, <3>3, StillKnown
  <2>5. CASE UNCHANGED vars
    <3>1. Undisturbed(p)
      BY <2>5 DEF vars, caches, request, place, work, history, Undisturbed
    <3> QED
      BY <1>1, <1>2, <2>0, <3>1, StillKnown
  <2> QED
    BY <2>1, <2>2, <2>3, <2>4, <2>5 DEF Next
<1> QED
  BY <1>1, <1>2 DEF IInv

LEMMA AlwaysInv == Spec => []IInv
  BY InitInv, Inductive, PTL DEF Spec

\* Every variable keeps its type.
THEOREM TypeCorrect == Spec => []TypeOK
<1>1. IInv => TypeOK
  BY DEF IInv
<1> QED
  BY <1>1, AlwaysInv, PTL

\* A restore that reports success has put the backup on the head and on every host,
\* however many there are, and whichever copies failed or were retried before.
THEOREM RestoresEverywhere == Spec => []RestoredEverywhere
<1>1. IInv => RestoredEverywhere
  BY DEF IInv, Known, Filled, RestoredEverywhere
<1> QED
  BY <1>1, AlwaysInv, PTL

\* A deletion that reports success has left nothing of what it was for on any node but
\* what its looks could not have seen.
THEOREM DeletesEverywhere == Spec => []DeletedEverywhere
<1>1. IInv => DeletedEverywhere
  BY DEF IInv, Known, Cleared, DeletedEverywhere, Removes
<1> QED
  BY <1>1, AlwaysInv, PTL

\* No run, and nothing from elsewhere, changes a backup once it is published.
THEOREM KeepsBackup == Spec => BackupKept
<1>1. [Next]_vars => [backup # {} => backup' = backup]_vars
  <2> SUFFICES ASSUME [Next]_vars, backup # {} PROVE backup' = backup
    OBVIOUS
  <2>1. CASE UNCHANGED vars
    BY <2>1 DEF vars, caches
  <2>2. ASSUME NEW o \in Operators, Step(o) PROVE backup' = backup
    BY <2>2, StepBackup
  <2> QED
    BY <2>1, <2>2 DEF Next, Start, Arrive, OtherArrives, caches
<1> QED
  BY <1>1, PTL DEF Spec, BackupKept

\* What --backup --delete removes is in the backup, or came too late to be looked at.
THEOREM CoversBeforeDeleting == Spec => CoveredBeforeDeleted
<1>1. IInv /\ [Next]_vars =>
        [\A o \in Operators :
           act[o] = "backupdelete" /\ pc[o] = "rm" /\ <<pc'[o], at'[o]>> # <<pc[o], at[o]>>
             => \A n \in Nodes : cache[n] \ cache'[n] \subseteq backup \cup missed[o][n]]_vars
  <2> SUFFICES ASSUME IInv, [Next]_vars, NEW o \in Operators, act[o] = "backupdelete",
                      pc[o] = "rm", <<pc'[o], at'[o]>> # <<pc[o], at[o]>>, NEW n \in Nodes
               PROVE cache[n] \ cache'[n] \subseteq backup \cup missed[o][n]
    OBVIOUS
  <2>0. TypeOK /\ TypeOK' /\ Known(o) /\ at[o] \in Nodes
    BY NextType DEF IInv, TypeOK
  <2>1. FilesOf(doomed[o]) \subseteq Target(o)
    BY <2>0 DEF Known, Aimed, Removes
  <2>2. cache[n] \cap Target(o) \subseteq backup \cup missed[o][n]
    BY <2>0 DEF Known, Covered
  <2>3. Step(o)
    <3>1. ASSUME NEW p \in Operators, Step(p), p # o PROVE FALSE
      BY <2>0, <3>1, StepUndisturbed DEF Undisturbed
    <3>2. ASSUME NEW p \in Operators, NEW a, NEW r, Start(p, a, r) PROVE FALSE
      BY <2>0, <3>2 DEF Start, GoTo, TypeOK
    <3>3. ASSUME NEW m, NEW i, Arrive(m, i) \/ OtherArrives(m, i) PROVE FALSE
      BY <3>3 DEF Arrive, OtherArrives, place
    <3>4. CASE UNCHANGED vars
      BY <3>4 DEF vars, place
    <3> QED
      BY <3>1, <3>2, <3>3, <3>4 DEF Next
  <2>4. CASE Remove(o)
    <3>1. cache[n] \ cache'[n] \subseteq FilesOf(doomed[o])
      BY <2>0, <2>4 DEF Remove, Lose, TypeOK
    <3> QED
      BY <2>1, <2>2, <3>1
  <2>5. CASE RemoveFails(o)
    <3>1. PICK S \in SUBSET FilesOf(doomed[o]) : Lose(o, at[o], S)
      BY <2>5 DEF RemoveFails
    <3>2. cache[n] \ cache'[n] \subseteq FilesOf(doomed[o])
      BY <2>0, <3>1 DEF Lose, TypeOK
    <3> QED
      BY <2>1, <2>2, <3>2
  <2>6. CASE Stops(o)
    BY <2>6 DEF Stops, caches
  <2>7. Remove(o) \/ RemoveFails(o) \/ Stops(o)
    BY <2>3 DEF Step, StageBackup, BackupRefused, Publish, PublishRefused, Look, LookRefused,
      CheckPasses, CheckFails, Confirm, Decline, RecheckPasses, PickRemoval, NothingToRemove,
      RefuseRemoval, Fetch, OpenBackup, RestoreRefused, Send, NothingToSend, FillSome, FillRest,
      CopyFails, Exit
  <2> QED
    BY <2>4, <2>5, <2>6, <2>7
<1> QED
  BY <1>1, AlwaysInv, PTL DEF Spec, CoveredBeforeDeleted

\* A removal by hash takes nothing from another repository that had come to use the hash
\* before the node itself looked.
THEOREM SparesOthers == Spec => OthersSpared
<1>1. IInv /\ [Next]_vars =>
        [\A n \in Nodes : \A r \in others[n] \ others'[n] :
           \E o \in Operators : pc[o] = "rm" /\ at[o] = n /\ r \in newer[o]]_vars
  <2> SUFFICES ASSUME IInv, [Next]_vars, NEW n \in Nodes, NEW r \in others[n] \ others'[n]
               PROVE \E o \in Operators : pc[o] = "rm" /\ at[o] = n /\ r \in newer[o]
    OBVIOUS
  <2>0. TypeOK
    BY DEF IInv
  <2>1. PICK o \in Operators : Remove(o)
    <3>1. others' # others
      BY <2>0 DEF TypeOK
    <3>2. CASE \E m \in Nodes, q \in Revs : OtherArrives(m, q)
      BY <2>0, <3>2 DEF OtherArrives, TypeOK
    <3>3. ASSUME NEW o \in Operators, Step(o) PROVE Remove(o)
      BY <3>1, <3>3 DEF caches, Step, StageBackup, BackupRefused, Publish, PublishRefused, Look,
        LookRefused, CheckPasses, CheckFails, Confirm, Decline, RecheckPasses, PickRemoval,
        NothingToRemove, RefuseRemoval, RemoveFails, Fetch, OpenBackup, RestoreRefused, Send,
        NothingToSend, FillSome, FillRest, CopyFails, Stops, Exit
    <3> QED
      BY <3>1, <3>2, <3>3 DEF Next, Start, Arrive, vars, caches
  <2>2. at[o] = n /\ r \in doomed[o] /\ (act[o] = "cleanup" \/ rev[o] # All)
    BY <2>0, <2>1 DEF Remove, TypeOK
  <2>3. pc[o] = "rm" /\ Known(o)
    BY <2>1 DEF Remove, IInv
  <2>4. r \in newer[o]
    BY <2>2, <2>3 DEF Known, Aimed
  <2> QED
    BY <2>2, <2>3, <2>4
<1> QED
  BY <1>1, AlwaysInv, PTL DEF Spec, OthersSpared
=============================================================================
