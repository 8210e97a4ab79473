------------------------- MODULE NodeJournalProofs -------------------------
(***************************************************************************)
(* The node journal's invariants, for any number of files, users' contents *)
(* and bounds, and its refinement of the abstract undo log.                *)
(***************************************************************************)
EXTENDS NodeJournal, TLAPS

\* Which program counters belong to which handler, and when a journal exists.
Phases ==
  /\ op = "none" => pc = "idle" /\ todo = {}
  /\ op = "prepare" => pc \in {"create", "logdir", "mkdir", "log", "write"}
  /\ op \in {"ssh", "env"} => pc \in {"log", "write"}
  /\ op = "network" => pc \in {"log", "write", "apply"}
  /\ op = "restore" => pc \in {"undonet", "applyback", "runtime", "undorest", "rmdir", "unlink"}
  /\ op = "docker" => pc \in {"record", "group", "savegid"} /\ todo = {}
  /\ op = "repair" => pc = "rewrite" \/ (pc \in {"record", "group", "savegid"} /\ todo = {})
  /\ op # "none" => (present <=> pc # "create")
  /\ ~present => logged = {}

\* A handler that is to overwrite a file has backed it up or checked it, and it
\* has not changed since.
Guarded ==
  /\ pc = "write" =>
       \A i \in todo : First(todo, i) => i \in logged /\ disk[i] = before[i] /\ own[i] = before[i]
  /\ op = "restore" => \A i \in Exposed : i \in logged /\ disk[i] \in {before[i], Helper}
  /\ op = "repair" => \A i \in todo : i \in logged /\ disk[i] \in {before[i], None}

\* A restore has still to go through every file that holds the helper's contents,
\* the network files first; the others hold what their owners mean them to hold.
Remaining ==
  op = "restore" =>
    /\ \A i \in logged : disk[i] = Helper => i \in Exposed
    /\ \A i \in logged : disk[i] \in {Helper, own[i]}
    /\ pc = "undonet" => todo \subseteq Net
    /\ pc \in {"applyback", "runtime", "rmdir", "unlink"} => todo = {}
    /\ pc \in {"undorest", "rmdir"} => ~netStarted \/ runtime = "orig"

IInv == TypeOK /\ WriteAhead /\ UserVersionKept /\ Phases /\ Guarded /\ Remaining


USE PlanAssumption DEF Files, Handlers, Net, Authored, Image, Faults, First, Last

LEMMA NetOfType == \A d : NetOf(d) \in {"orig", "helper", "mixed"}
BY DEF NetOf

LEMMA CountType ==
  ASSUME NEW kind \in Faults, NEW bound, faults \in [Faults -> Nat], Count(kind, bound)
  PROVE  faults' \in [Faults -> Nat]
BY DEF Count

LEMMA InitInv == Init => IInv
<1> SUFFICES ASSUME Init PROVE IInv OBVIOUS
<1> USE DEF Init
<1>1. TypeOK BY DEF TypeOK
<1>2. WriteAhead BY DEF WriteAhead
<1>3. UserVersionKept BY DEF UserVersionKept
<1>4. Phases BY DEF Phases
<1>5. Guarded BY DEF Guarded, Exposed
<1>6. Remaining BY DEF Remaining
<1> QED BY <1>1, <1>2, <1>3, <1>4, <1>5, <1>6 DEF IInv

LEMMA PrepareStartInv == ASSUME IInv, PrepareStart PROVE IInv'
<1> USE DEF IInv, PrepareStart, Enter, worldVars, journalVars, handlerVars
<1>1. TypeOK' BY DEF TypeOK
<1>2. WriteAhead' BY DEF WriteAhead, TypeOK, Phases, Guarded, Remaining, Exposed
<1>3. UserVersionKept' BY DEF UserVersionKept, WriteAhead, TypeOK, Phases, Guarded, Remaining, Exposed
<1>4. Phases' BY DEF Phases, TypeOK
<1>5. Guarded' BY DEF Guarded, Exposed, Phases, TypeOK, WriteAhead, UserVersionKept, Remaining
<1>6. Remaining' BY DEF Remaining, Exposed, Phases, TypeOK, WriteAhead, UserVersionKept, Guarded
<1> QED BY <1>1, <1>2, <1>3, <1>4, <1>5, <1>6

LEMMA CreateJournalInv == ASSUME IInv, CreateJournal PROVE IInv'
<1> USE DEF IInv, CreateJournal, worldVars, journalVars, handlerVars
<1>1. TypeOK' BY DEF TypeOK
<1>2. WriteAhead' BY DEF WriteAhead, TypeOK, Phases, Guarded, Remaining, Exposed
<1>3. UserVersionKept' BY DEF UserVersionKept, WriteAhead, TypeOK, Phases, Guarded, Remaining, Exposed
<1>4. Phases' BY DEF Phases, TypeOK
<1>5. Guarded' BY DEF Guarded, Exposed, Phases, TypeOK, WriteAhead, UserVersionKept, Remaining
<1>6. Remaining' BY DEF Remaining, Exposed, Phases, TypeOK, WriteAhead, UserVersionKept, Guarded
<1> QED BY <1>1, <1>2, <1>3, <1>4, <1>5, <1>6

LEMMA LogDirectoryInv == ASSUME IInv, LogDirectory PROVE IInv'
<1> USE DEF IInv, LogDirectory, worldVars, journalVars, handlerVars
<1>1. TypeOK' BY DEF TypeOK
<1>2. WriteAhead' BY DEF WriteAhead, TypeOK, Phases, Guarded, Remaining, Exposed
<1>3. UserVersionKept' BY DEF UserVersionKept, WriteAhead, TypeOK, Phases, Guarded, Remaining, Exposed
<1>4. Phases' BY DEF Phases, TypeOK
<1>5. Guarded' BY DEF Guarded, Exposed, Phases, TypeOK, WriteAhead, UserVersionKept, Remaining
<1>6. Remaining' BY DEF Remaining, Exposed, Phases, TypeOK, WriteAhead, UserVersionKept, Guarded
<1> QED BY <1>1, <1>2, <1>3, <1>4, <1>5, <1>6

LEMMA MakeDirectoryInv == ASSUME IInv, MakeDirectory PROVE IInv'
<1> USE DEF IInv, MakeDirectory, worldVars, journalVars, handlerVars
<1>1. TypeOK' BY DEF TypeOK
<1>2. WriteAhead' BY DEF WriteAhead, TypeOK, Phases, Guarded, Remaining, Exposed
<1>3. UserVersionKept' BY DEF UserVersionKept, WriteAhead, TypeOK, Phases, Guarded, Remaining, Exposed
<1>4. Phases' BY DEF Phases, TypeOK
<1>5. Guarded' BY DEF Guarded, Exposed, Phases, TypeOK, WriteAhead, UserVersionKept, Remaining
<1>6. Remaining' BY DEF Remaining, Exposed, Phases, TypeOK, WriteAhead, UserVersionKept, Guarded
<1> QED BY <1>1, <1>2, <1>3, <1>4, <1>5, <1>6

LEMMA HandlerDoneInv == ASSUME IInv, HandlerDone PROVE IInv'
<1> USE DEF IInv, HandlerDone, Idle, worldVars, journalVars, handlerVars
<1>1. TypeOK' BY DEF TypeOK
<1>2. WriteAhead' BY DEF WriteAhead, TypeOK, Phases, Guarded, Remaining, Exposed
<1>3. UserVersionKept' BY DEF UserVersionKept, WriteAhead, TypeOK, Phases, Guarded, Remaining, Exposed
<1>4. Phases' BY DEF Phases, TypeOK
<1>5. Guarded' BY DEF Guarded, Exposed, Phases, TypeOK, WriteAhead, UserVersionKept, Remaining
<1>6. Remaining' BY DEF Remaining, Exposed, Phases, TypeOK, WriteAhead, UserVersionKept, Guarded
<1> QED BY <1>1, <1>2, <1>3, <1>4, <1>5, <1>6

LEMMA MarkNetworkInv == ASSUME IInv, MarkNetwork PROVE IInv'
<1> USE DEF IInv, MarkNetwork, worldVars, journalVars, handlerVars
<1>1. TypeOK' BY DEF TypeOK
<1>2. WriteAhead' BY DEF WriteAhead, TypeOK, Phases, Guarded, Remaining, Exposed
<1>3. UserVersionKept' BY DEF UserVersionKept, WriteAhead, TypeOK, Phases, Guarded, Remaining, Exposed
<1>4. Phases' BY DEF Phases, TypeOK
<1>5. Guarded' BY DEF Guarded, Exposed, Phases, TypeOK, WriteAhead, UserVersionKept, Remaining
<1>6. Remaining' BY DEF Remaining, Exposed, Phases, TypeOK, WriteAhead, UserVersionKept, Guarded
<1> QED BY <1>1, <1>2, <1>3, <1>4, <1>5, <1>6

LEMMA ApplyNetworkInv == ASSUME IInv, ApplyNetwork PROVE IInv'
<1> USE DEF IInv, ApplyNetwork, Idle, NetOf, worldVars, journalVars, handlerVars
<1>1. TypeOK' BY DEF TypeOK
<1>2. WriteAhead' BY DEF WriteAhead, TypeOK, Phases, Guarded, Remaining, Exposed
<1>3. UserVersionKept' BY DEF UserVersionKept, WriteAhead, TypeOK, Phases, Guarded, Remaining, Exposed
<1>4. Phases' BY DEF Phases, TypeOK
<1>5. Guarded' BY DEF Guarded, Exposed, Phases, TypeOK, WriteAhead, UserVersionKept, Remaining
<1>6. Remaining' BY DEF Remaining, Exposed, Phases, TypeOK, WriteAhead, UserVersionKept, Guarded
<1> QED BY <1>1, <1>2, <1>3, <1>4, <1>5, <1>6

LEMMA RestoreStartInv == ASSUME IInv, RestoreStart PROVE IInv'
<1> USE DEF IInv, RestoreStart, Enter, CheckRestore, DockerFits, Edited, worldVars, journalVars, handlerVars
<1>1. TypeOK' BY DEF TypeOK
<1>2. WriteAhead' BY DEF WriteAhead, TypeOK, Phases, Guarded, Remaining, Exposed
<1>3. UserVersionKept' BY DEF UserVersionKept, WriteAhead, TypeOK, Phases, Guarded, Remaining, Exposed
<1>4. Phases' BY DEF Phases, TypeOK
<1>5. Guarded' BY DEF Guarded, Exposed, Phases, TypeOK, WriteAhead, UserVersionKept, Remaining
<1>6. Remaining' BY DEF Remaining, Exposed, Phases, TypeOK, WriteAhead, UserVersionKept, Guarded
<1> QED BY <1>1, <1>2, <1>3, <1>4, <1>5, <1>6

LEMMA NetworkFilesBackInv == ASSUME IInv, NetworkFilesBack PROVE IInv'
<1> USE DEF IInv, NetworkFilesBack, worldVars, journalVars, handlerVars
<1>1. TypeOK' BY ZenonT(40) DEF TypeOK
<1>2. WriteAhead' BY DEF WriteAhead, TypeOK, Phases, Guarded, Remaining, Exposed
<1>3. UserVersionKept' BY DEF UserVersionKept, WriteAhead, TypeOK, Phases, Guarded, Remaining, Exposed
<1>4. Phases' BY DEF Phases, TypeOK
<1>5. Guarded' BY DEF Guarded, Exposed, Phases, TypeOK, WriteAhead, UserVersionKept, Remaining
<1>6. Remaining' BY DEF Remaining, Exposed, Phases, TypeOK, WriteAhead, UserVersionKept, Guarded
<1> QED BY <1>1, <1>2, <1>3, <1>4, <1>5, <1>6

LEMMA ApplyBackInv == ASSUME IInv, ApplyBack PROVE IInv'
<1> USE DEF IInv, ApplyBack, NetOf, worldVars, journalVars, handlerVars
<1>1. TypeOK' BY DEF TypeOK
<1>2. WriteAhead' BY DEF WriteAhead, TypeOK, Phases, Guarded, Remaining, Exposed
<1>3. UserVersionKept' BY DEF UserVersionKept, WriteAhead, TypeOK, Phases, Guarded, Remaining, Exposed
<1>4. Phases' BY DEF Phases, TypeOK
<1>5. Guarded' BY DEF Guarded, Exposed, Phases, TypeOK, WriteAhead, UserVersionKept, Remaining
<1>6. Remaining' BY DEF Remaining, Exposed, Phases, TypeOK, WriteAhead, UserVersionKept, Guarded
<1> QED BY <1>1, <1>2, <1>3, <1>4, <1>5, <1>6

LEMMA RestoreRuntimeInv == ASSUME IInv, RestoreRuntime PROVE IInv'
<1> USE DEF IInv, RestoreRuntime, Idle, worldVars, journalVars, handlerVars
<1>1. TypeOK' BY DEF TypeOK
<1>2. WriteAhead' BY DEF WriteAhead, TypeOK, Phases, Guarded, Remaining, Exposed
<1>3. UserVersionKept' BY DEF UserVersionKept, WriteAhead, TypeOK, Phases, Guarded, Remaining, Exposed
<1>4. Phases' BY DEF Phases, TypeOK
<1>5. Guarded' BY DEF Guarded, Exposed, Phases, TypeOK, WriteAhead, UserVersionKept, Remaining
<1>6. Remaining' BY DEF Remaining, Exposed, Phases, TypeOK, WriteAhead, UserVersionKept, Guarded
<1> QED BY <1>1, <1>2, <1>3, <1>4, <1>5, <1>6

LEMMA RemoveDirectoryInv == ASSUME IInv, RemoveDirectory PROVE IInv'
<1> USE DEF IInv, RemoveDirectory, worldVars, journalVars, handlerVars
<1>1. TypeOK' BY DEF TypeOK
<1>2. WriteAhead' BY DEF WriteAhead, TypeOK, Phases, Guarded, Remaining, Exposed
<1>3. UserVersionKept' BY DEF UserVersionKept, WriteAhead, TypeOK, Phases, Guarded, Remaining, Exposed
<1>4. Phases' BY DEF Phases, TypeOK
<1>5. Guarded' BY DEF Guarded, Exposed, Phases, TypeOK, WriteAhead, UserVersionKept, Remaining
<1>6. Remaining' BY DEF Remaining, Exposed, Phases, TypeOK, WriteAhead, UserVersionKept, Guarded
<1> QED BY <1>1, <1>2, <1>3, <1>4, <1>5, <1>6

LEMMA RemoveJournalInv == ASSUME IInv, RemoveJournal PROVE IInv'
<1> USE DEF IInv, RemoveJournal, Idle, worldVars, journalVars, handlerVars
<1>1. TypeOK' BY DEF TypeOK
<1>2. WriteAhead' BY DEF WriteAhead, TypeOK, Phases, Guarded, Remaining, Exposed
<1>3. UserVersionKept' BY DEF UserVersionKept, WriteAhead, TypeOK, Phases, Guarded, Remaining, Exposed
<1>4. Phases' BY DEF Phases, TypeOK
<1>5. Guarded' BY DEF Guarded, Exposed, Phases, TypeOK, WriteAhead, UserVersionKept, Remaining
<1>6. Remaining' BY DEF Remaining, Exposed, Phases, TypeOK, WriteAhead, UserVersionKept, Guarded
<1> QED BY <1>1, <1>2, <1>3, <1>4, <1>5, <1>6

LEMMA DoctorInspectInv == ASSUME IInv, DoctorInspect PROVE IInv'
<1> USE DEF IInv, DoctorInspect, Fingerprint, worldVars, journalVars, handlerVars
<1>1. TypeOK' BY DEF TypeOK
<1>2. WriteAhead' BY DEF WriteAhead, TypeOK, Phases, Guarded, Remaining, Exposed
<1>3. UserVersionKept' BY DEF UserVersionKept, WriteAhead, TypeOK, Phases, Guarded, Remaining, Exposed
<1>4. Phases' BY DEF Phases, TypeOK
<1>5. Guarded' BY DEF Guarded, Exposed, Phases, TypeOK, WriteAhead, UserVersionKept, Remaining
<1>6. Remaining' BY DEF Remaining, Exposed, Phases, TypeOK, WriteAhead, UserVersionKept, Guarded
<1> QED BY <1>1, <1>2, <1>3, <1>4, <1>5, <1>6

LEMMA RepairStartInv == ASSUME IInv, RepairStart PROVE IInv'
<1> USE DEF IInv, RepairStart, Enter, Repairable, worldVars, journalVars, handlerVars
<1>1. TypeOK' BY DEF TypeOK
<1>2. WriteAhead' BY DEF WriteAhead, TypeOK, Phases, Guarded, Remaining, Exposed
<1>3. UserVersionKept' BY DEF UserVersionKept, WriteAhead, TypeOK, Phases, Guarded, Remaining, Exposed
<1>4. Phases' BY DEF Phases, TypeOK
<1>5. Guarded' BY DEF Guarded, Exposed, Phases, TypeOK, WriteAhead, UserVersionKept, Remaining
<1>6. Remaining' BY DEF Remaining, Exposed, Phases, TypeOK, WriteAhead, UserVersionKept, Guarded
<1> QED BY <1>1, <1>2, <1>3, <1>4, <1>5, <1>6

LEMMA RepairDoneInv == ASSUME IInv, RepairDone PROVE IInv'
<1> USE DEF IInv, RepairDone, Idle, NetOf, worldVars, journalVars, handlerVars
<1>1. TypeOK' BY DEF TypeOK
<1>2. WriteAhead' BY DEF WriteAhead, TypeOK, Phases, Guarded, Remaining, Exposed
<1>3. UserVersionKept' BY DEF UserVersionKept, WriteAhead, TypeOK, Phases, Guarded, Remaining, Exposed
<1>4. Phases' BY DEF Phases, TypeOK
<1>5. Guarded' BY DEF Guarded, Exposed, Phases, TypeOK, WriteAhead, UserVersionKept, Remaining
<1>6. Remaining' BY DEF Remaining, Exposed, Phases, TypeOK, WriteAhead, UserVersionKept, Guarded
<1> QED BY <1>1, <1>2, <1>3, <1>4, <1>5, <1>6

LEMMA HandlerFailsInv == ASSUME IInv, HandlerFails PROVE IInv'
<1> USE DEF IInv, HandlerFails, Idle, worldVars, journalVars, handlerVars
<1>0. faults' \in [Faults -> Nat]
  BY CountType, "stop" \in Faults DEF TypeOK
<1>1. TypeOK' BY <1>0 DEF TypeOK
<1>2. WriteAhead' BY DEF WriteAhead, TypeOK, Phases, Guarded, Remaining, Exposed
<1>3. UserVersionKept' BY DEF UserVersionKept, WriteAhead, TypeOK, Phases, Guarded, Remaining, Exposed
<1>4. Phases' BY DEF Phases, TypeOK
<1>5. Guarded' BY DEF Guarded, Exposed, Phases, TypeOK, WriteAhead, UserVersionKept, Remaining
<1>6. Remaining' BY DEF Remaining, Exposed, Phases, TypeOK, WriteAhead, UserVersionKept, Guarded
<1> QED BY <1>1, <1>2, <1>3, <1>4, <1>5, <1>6

LEMMA HandlerKilledInv == ASSUME IInv, HandlerKilled PROVE IInv'
<1> USE DEF IInv, HandlerKilled, Idle, worldVars, journalVars, handlerVars
<1>0. faults' \in [Faults -> Nat]
  BY CountType, "stop" \in Faults DEF TypeOK
<1>1. TypeOK' BY <1>0 DEF TypeOK
<1>2. WriteAhead' BY DEF WriteAhead, TypeOK, Phases, Guarded, Remaining, Exposed
<1>3. UserVersionKept' BY DEF UserVersionKept, WriteAhead, TypeOK, Phases, Guarded, Remaining, Exposed
<1>4. Phases' BY DEF Phases, TypeOK
<1>5. Guarded' BY DEF Guarded, Exposed, Phases, TypeOK, WriteAhead, UserVersionKept, Remaining
<1>6. Remaining' BY DEF Remaining, Exposed, Phases, TypeOK, WriteAhead, UserVersionKept, Guarded
<1> QED BY <1>1, <1>2, <1>3, <1>4, <1>5, <1>6

LEMMA RebootInv == ASSUME IInv, Reboot PROVE IInv'
<1> USE DEF IInv, Reboot, Idle, worldVars, journalVars, handlerVars
<1>0. faults' \in [Faults -> Nat]
  BY CountType, "reboot" \in Faults DEF TypeOK
<1>1. TypeOK' BY <1>0, NetOfType DEF TypeOK
<1>2. WriteAhead' BY DEF WriteAhead, TypeOK, Phases, Guarded, Remaining, Exposed
<1>3. UserVersionKept' BY DEF UserVersionKept, WriteAhead, TypeOK, Phases, Guarded, Remaining, Exposed
<1>4. Phases' BY DEF Phases, TypeOK
<1>5. Guarded' BY DEF Guarded, Exposed, Phases, TypeOK, WriteAhead, UserVersionKept, Remaining
<1>6. Remaining' BY DEF Remaining, Exposed, Phases, TypeOK, WriteAhead, UserVersionKept, Guarded
<1> QED BY <1>1, <1>2, <1>3, <1>4, <1>5, <1>6

LEMMA AddForeignInv == ASSUME IInv, AddForeign PROVE IInv'
<1> USE DEF IInv, AddForeign, worldVars, journalVars, handlerVars
<1>0. faults' \in [Faults -> Nat]
  BY CountType, "edit" \in Faults DEF TypeOK
<1>1. TypeOK' BY <1>0 DEF TypeOK
<1>2. WriteAhead' BY DEF WriteAhead, TypeOK, Phases, Guarded, Remaining, Exposed
<1>3. UserVersionKept' BY DEF UserVersionKept, WriteAhead, TypeOK, Phases, Guarded, Remaining, Exposed
<1>4. Phases' BY DEF Phases, TypeOK
<1>5. Guarded' BY DEF Guarded, Exposed, Phases, TypeOK, WriteAhead, UserVersionKept, Remaining
<1>6. Remaining' BY DEF Remaining, Exposed, Phases, TypeOK, WriteAhead, UserVersionKept, Guarded
<1> QED BY <1>1, <1>2, <1>3, <1>4, <1>5, <1>6

LEMMA DockerStartInv == ASSUME IInv, DockerStart PROVE IInv'
<1> USE DEF IInv, DockerStart, Enter, worldVars, journalVars, handlerVars
<1>1. TypeOK' BY DEF TypeOK
<1>2. WriteAhead' BY DEF WriteAhead, TypeOK, Phases, Guarded, Remaining, Exposed
<1>3. UserVersionKept' BY DEF UserVersionKept, WriteAhead, TypeOK, Phases, Guarded, Remaining, Exposed
<1>4. Phases' BY DEF Phases, TypeOK
<1>5. Guarded' BY DEF Guarded, Exposed, Phases, TypeOK, WriteAhead, UserVersionKept, Remaining
<1>6. Remaining' BY DEF Remaining, Exposed, Phases, TypeOK, WriteAhead, UserVersionKept, Guarded
<1> QED BY <1>1, <1>2, <1>3, <1>4, <1>5, <1>6

LEMMA RecordIntentInv == ASSUME IInv, RecordIntent PROVE IInv'
<1> USE DEF IInv, RecordIntent, worldVars, journalVars, handlerVars
<1>1. TypeOK' BY DEF TypeOK
<1>2. WriteAhead' BY DEF WriteAhead, TypeOK, Phases, Guarded, Remaining, Exposed
<1>3. UserVersionKept' BY DEF UserVersionKept, WriteAhead, TypeOK, Phases, Guarded, Remaining, Exposed
<1>4. Phases' BY DEF Phases, TypeOK
<1>5. Guarded' BY DEF Guarded, Exposed, Phases, TypeOK, WriteAhead, UserVersionKept, Remaining
<1>6. Remaining' BY DEF Remaining, Exposed, Phases, TypeOK, WriteAhead, UserVersionKept, Guarded
<1> QED BY <1>1, <1>2, <1>3, <1>4, <1>5, <1>6

LEMMA AddGroupInv == ASSUME IInv, AddGroup PROVE IInv'
<1> USE DEF IInv, AddGroup, worldVars, journalVars, handlerVars
<1>1. TypeOK' BY DEF TypeOK
<1>2. WriteAhead' BY DEF WriteAhead, TypeOK, Phases, Guarded, Remaining, Exposed
<1>3. UserVersionKept' BY DEF UserVersionKept, WriteAhead, TypeOK, Phases, Guarded, Remaining, Exposed
<1>4. Phases' BY DEF Phases, TypeOK
<1>5. Guarded' BY DEF Guarded, Exposed, Phases, TypeOK, WriteAhead, UserVersionKept, Remaining
<1>6. Remaining' BY DEF Remaining, Exposed, Phases, TypeOK, WriteAhead, UserVersionKept, Guarded
<1> QED BY <1>1, <1>2, <1>3, <1>4, <1>5, <1>6

LEMMA SaveGroupInv == ASSUME IInv, SaveGroup PROVE IInv'
<1> USE DEF IInv, SaveGroup, Idle, worldVars, journalVars, handlerVars
<1>1. TypeOK' BY DEF TypeOK
<1>2. WriteAhead' BY DEF WriteAhead, TypeOK, Phases, Guarded, Remaining, Exposed
<1>3. UserVersionKept' BY DEF UserVersionKept, WriteAhead, TypeOK, Phases, Guarded, Remaining, Exposed
<1>4. Phases' BY DEF Phases, TypeOK
<1>5. Guarded' BY DEF Guarded, Exposed, Phases, TypeOK, WriteAhead, UserVersionKept, Remaining
<1>6. Remaining' BY DEF Remaining, Exposed, Phases, TypeOK, WriteAhead, UserVersionKept, Guarded
<1> QED BY <1>1, <1>2, <1>3, <1>4, <1>5, <1>6

LEMMA GroupSettledInv == ASSUME IInv, GroupSettled PROVE IInv'
<1> USE DEF IInv, GroupSettled, Idle, worldVars, journalVars, handlerVars
<1>1. TypeOK' BY DEF TypeOK
<1>2. WriteAhead' BY DEF WriteAhead, TypeOK, Phases, Guarded, Remaining, Exposed
<1>3. UserVersionKept' BY DEF UserVersionKept, WriteAhead, TypeOK, Phases, Guarded, Remaining, Exposed
<1>4. Phases' BY DEF Phases, TypeOK
<1>5. Guarded' BY DEF Guarded, Exposed, Phases, TypeOK, WriteAhead, UserVersionKept, Remaining
<1>6. Remaining' BY DEF Remaining, Exposed, Phases, TypeOK, WriteAhead, UserVersionKept, Guarded
<1> QED BY <1>1, <1>2, <1>3, <1>4, <1>5, <1>6

LEMMA RestoreDockerInv == ASSUME IInv, RestoreDocker PROVE IInv'
<1> USE DEF IInv, RestoreDocker, Idle, worldVars, journalVars, handlerVars
<1>1. TypeOK'
  <2>1. CASE DockerFits
    <3>1. pc' = "rmdir" /\ UNCHANGED <<op, todo, due>> BY <2>1
    <3>2. UNCHANGED <<worldVars, journalVars, report, faults>> OBVIOUS
    <3>3. TypeOK OBVIOUS
    <3> QED BY ONLY <3>1, <3>2, <3>3, SMT DEF TypeOK, worldVars, journalVars
  <2>2. CASE ~DockerFits BY <2>2 DEF TypeOK
  <2> QED BY <2>1, <2>2
<1>2. WriteAhead' BY DEF WriteAhead, TypeOK, Phases, Guarded, Remaining, Exposed
<1>3. UserVersionKept' BY DEF UserVersionKept, WriteAhead, TypeOK, Phases, Guarded, Remaining, Exposed
<1>4. Phases' BY DEF Phases, TypeOK
<1>5. Guarded' BY DEF Guarded, Exposed, Phases, TypeOK, WriteAhead, UserVersionKept, Remaining
<1>6. Remaining' BY DEF Remaining, Exposed, Phases, TypeOK, WriteAhead, UserVersionKept, Guarded
<1> QED BY <1>1, <1>2, <1>3, <1>4, <1>5, <1>6

LEMMA ChangeGroupInv == ASSUME IInv, ChangeGroup PROVE IInv'
<1> USE DEF IInv, ChangeGroup, worldVars, journalVars, handlerVars
<1>0. faults' \in [Faults -> Nat]
  BY CountType, "edit" \in Faults DEF TypeOK
<1>1. TypeOK' BY <1>0 DEF TypeOK
<1>2. WriteAhead' BY DEF WriteAhead, TypeOK, Phases, Guarded, Remaining, Exposed
<1>3. UserVersionKept' BY DEF UserVersionKept, WriteAhead, TypeOK, Phases, Guarded, Remaining, Exposed
<1>4. Phases' BY DEF Phases, TypeOK
<1>5. Guarded' BY DEF Guarded, Exposed, Phases, TypeOK, WriteAhead, UserVersionKept, Remaining
<1>6. Remaining' BY DEF Remaining, Exposed, Phases, TypeOK, WriteAhead, UserVersionKept, Guarded
<1> QED BY <1>1, <1>2, <1>3, <1>4, <1>5, <1>6

LEMMA ChangeDevicesInv == ASSUME IInv, ChangeDevices PROVE IInv'
<1> USE DEF IInv, ChangeDevices, worldVars, journalVars, handlerVars
<1>0. faults' \in [Faults -> Nat]
  BY CountType, "edit" \in Faults DEF TypeOK
<1>1. TypeOK' BY <1>0 DEF TypeOK
<1>2. WriteAhead' BY DEF WriteAhead, TypeOK, Phases, Guarded, Remaining, Exposed
<1>3. UserVersionKept' BY DEF UserVersionKept, WriteAhead, TypeOK, Phases, Guarded, Remaining, Exposed
<1>4. Phases' BY DEF Phases, TypeOK
<1>5. Guarded' BY DEF Guarded, Exposed, Phases, TypeOK, WriteAhead, UserVersionKept, Remaining
<1>6. Remaining' BY DEF Remaining, Exposed, Phases, TypeOK, WriteAhead, UserVersionKept, Guarded
<1> QED BY <1>1, <1>2, <1>3, <1>4, <1>5, <1>6

LEMMA HandlerStartInv == ASSUME NEW handler \in {"ssh", "network", "env"}, IInv, HandlerStart(handler) PROVE IInv'
<1> USE DEF IInv, HandlerStart, Enter, worldVars, journalVars, handlerVars
<1>1. TypeOK' BY DEF TypeOK
<1>2. WriteAhead' BY DEF WriteAhead, TypeOK, Phases, Guarded, Remaining, Exposed
<1>3. UserVersionKept' BY DEF UserVersionKept, WriteAhead, TypeOK, Phases, Guarded, Remaining, Exposed
<1>4. Phases' BY DEF Phases, TypeOK
<1>5. Guarded' BY DEF Guarded, Exposed, Phases, TypeOK, WriteAhead, UserVersionKept, Remaining
<1>6. Remaining' BY DEF Remaining, Exposed, Phases, TypeOK, WriteAhead, UserVersionKept, Guarded
<1> QED BY <1>1, <1>2, <1>3, <1>4, <1>5, <1>6

LEMMA LogFileInv == ASSUME NEW i \in Files, IInv, LogFile(i) PROVE IInv'
<1> USE DEF IInv, LogFile, worldVars, journalVars, handlerVars
<1>1. TypeOK' BY DEF TypeOK, Phases, Guarded, WriteAhead
<1>2. WriteAhead' BY DEF WriteAhead, TypeOK, Phases, Guarded, Remaining, Exposed
<1>3. UserVersionKept' BY DEF UserVersionKept, WriteAhead, TypeOK, Phases, Guarded, Remaining, Exposed
<1>4. Phases' BY DEF Phases, TypeOK
<1>5. Guarded' BY DEF Guarded, Exposed, Phases, TypeOK, WriteAhead, UserVersionKept, Remaining
<1>6. Remaining' BY DEF Remaining, Exposed, Phases, TypeOK, WriteAhead, UserVersionKept, Guarded
<1> QED BY <1>1, <1>2, <1>3, <1>4, <1>5, <1>6

LEMMA AlreadyLoggedInv == ASSUME NEW i \in Files, IInv, AlreadyLogged(i) PROVE IInv'
<1> USE DEF IInv, AlreadyLogged, Idle, worldVars, journalVars, handlerVars
<1>1. TypeOK' BY DEF TypeOK
<1>2. WriteAhead' BY DEF WriteAhead, TypeOK, Phases, Guarded, Remaining, Exposed
<1>3. UserVersionKept' BY DEF UserVersionKept, WriteAhead, TypeOK, Phases, Guarded, Remaining, Exposed
<1>4. Phases' BY DEF Phases, TypeOK
<1>5. Guarded' BY DEF Guarded, Exposed, Phases, TypeOK, WriteAhead, UserVersionKept, Remaining
<1>6. Remaining' BY DEF Remaining, Exposed, Phases, TypeOK, WriteAhead, UserVersionKept, Guarded
<1> QED BY <1>1, <1>2, <1>3, <1>4, <1>5, <1>6

LEMMA WriteFileInv == ASSUME NEW i \in Files, IInv, WriteFile(i) PROVE IInv'
<1> USE DEF IInv, WriteFile, worldVars, journalVars, handlerVars
<1>1. TypeOK' BY DEF TypeOK
<1>2. WriteAhead' BY DEF WriteAhead, TypeOK, Phases, Guarded, Remaining, Exposed
<1>3. UserVersionKept' BY DEF UserVersionKept, WriteAhead, TypeOK, Phases, Guarded, Remaining, Exposed
<1>4. Phases' BY DEF Phases, TypeOK
<1>5. Guarded' BY DEF Guarded, Exposed, Phases, TypeOK, WriteAhead, UserVersionKept, Remaining
<1>6. Remaining' BY DEF Remaining, Exposed, Phases, TypeOK, WriteAhead, UserVersionKept, Guarded
<1> QED BY <1>1, <1>2, <1>3, <1>4, <1>5, <1>6

LEMMA UndoFileInv == ASSUME NEW i \in Files, IInv, UndoFile(i) PROVE IInv'
<1> USE DEF IInv, UndoFile, worldVars, journalVars, handlerVars
<1>1. TypeOK' BY DEF TypeOK, Phases, Guarded, WriteAhead
<1>2. WriteAhead' BY DEF WriteAhead, TypeOK, Phases, Guarded, Remaining, Exposed
<1>3. UserVersionKept' BY DEF UserVersionKept, WriteAhead, TypeOK, Phases, Guarded, Remaining, Exposed
<1>4. Phases' BY DEF Phases, TypeOK
<1>5. Guarded' BY DEF Guarded, Exposed, Phases, TypeOK, WriteAhead, UserVersionKept, Remaining
<1>6. Remaining' BY DEF Remaining, Exposed, Phases, TypeOK, WriteAhead, UserVersionKept, Guarded
<1> QED BY <1>1, <1>2, <1>3, <1>4, <1>5, <1>6

LEMMA RepairFileInv == ASSUME NEW i \in Files, IInv, RepairFile(i) PROVE IInv'
<1> USE DEF IInv, RepairFile, worldVars, journalVars, handlerVars
<1>1. TypeOK' BY DEF TypeOK, Phases, Guarded, WriteAhead
<1>2. WriteAhead' BY DEF WriteAhead, TypeOK, Phases, Guarded, Remaining, Exposed
<1>3. UserVersionKept' BY DEF UserVersionKept, WriteAhead, TypeOK, Phases, Guarded, Remaining, Exposed
<1>4. Phases' BY DEF Phases, TypeOK
<1>5. Guarded' BY DEF Guarded, Exposed, Phases, TypeOK, WriteAhead, UserVersionKept, Remaining
<1>6. Remaining' BY DEF Remaining, Exposed, Phases, TypeOK, WriteAhead, UserVersionKept, Guarded
<1> QED BY <1>1, <1>2, <1>3, <1>4, <1>5, <1>6

LEMMA EditFileInv == ASSUME NEW i \in Files, NEW c \in Authored, i \notin Exposed, IInv, EditFile(i, c) PROVE IInv'
<1> USE DEF IInv, EditFile, worldVars, journalVars, handlerVars
<1>0. faults' \in [Faults -> Nat]
  BY CountType, "edit" \in Faults DEF TypeOK
<1>1. TypeOK' BY <1>0 DEF TypeOK
<1>2. WriteAhead' BY DEF WriteAhead, TypeOK, Phases, Guarded, Remaining, Exposed
<1>3. UserVersionKept' BY DEF UserVersionKept, WriteAhead, TypeOK, Phases, Guarded, Remaining, Exposed
<1>4. Phases' BY DEF Phases, TypeOK
<1>5. Guarded' BY DEF Guarded, Exposed, Phases, TypeOK, WriteAhead, UserVersionKept, Remaining
<1>6. Remaining' BY DEF Remaining, Exposed, Phases, TypeOK, WriteAhead, UserVersionKept, Guarded
<1> QED BY <1>1, <1>2, <1>3, <1>4, <1>5, <1>6

\* Every step keeps the inductive invariant.
LEMMA StepInv == IInv /\ [Next]_vars => IInv'
<1> SUFFICES ASSUME IInv, [Next]_vars PROVE IInv' OBVIOUS
<1>1. CASE HandlerStep
  BY <1>1, CreateJournalInv, LogDirectoryInv, MakeDirectoryInv, RecordIntentInv, AddGroupInv,
     SaveGroupInv, GroupSettledInv, RestoreDockerInv, LogFileInv, AlreadyLoggedInv,
     WriteFileInv, HandlerDoneInv, MarkNetworkInv, ApplyNetworkInv, UndoFileInv, NetworkFilesBackInv,
     ApplyBackInv, RestoreRuntimeInv, RemoveDirectoryInv, RemoveJournalInv, RepairFileInv, RepairDoneInv
     DEF HandlerStep
<1>2. CASE Requests
  BY <1>2, PrepareStartInv, DockerStartInv, HandlerStartInv, RestoreStartInv, DoctorInspectInv, RepairStartInv DEF Requests
<1>3. CASE Accidents
  BY <1>3, HandlerFailsInv, HandlerKilledInv, RebootInv, AddForeignInv, ChangeGroupInv,
     ChangeDevicesInv DEF Accidents
<1>4. CASE QuietEdits
  BY <1>4, EditFileInv DEF QuietEdits
<1>5. CASE UNCHANGED vars
  BY <1>5 DEF vars, worldVars, journalVars, handlerVars, IInv, TypeOK, WriteAhead, UserVersionKept,
       Phases, Guarded, Remaining, Exposed
<1> QED BY <1>1, <1>2, <1>3, <1>4, <1>5 DEF Next

LEMMA Inductive == Spec => []IInv
<1>1. Init => IInv BY InitInv
<1>2. IInv /\ [Next]_vars => IInv' BY StepInv
<1> QED BY <1>1, <1>2, PTL DEF Spec

\* Every variable keeps its type, and no before-image is ever the helper's own
\* contents (Journal.write's refusal of a path it already holds).
THEOREM TypeCorrect == Spec => []TypeOK
<1>1. IInv => TypeOK BY DEF IInv
<1> QED BY <1>1, Inductive, PTL

\* Whatever a handler killed at any point left behind is named in the journal.
THEOREM WriteAheadCorrect == Spec => []WriteAhead
<1>1. IInv => WriteAhead BY DEF IInv
<1> QED BY <1>1, Inductive, PTL

\* Setup, restore and doctor lose no version a user meant to keep, and with the
\* journal gone every file is back to it.
THEOREM UserVersionsSafe == Spec => []UserVersionKept
<1>1. IInv => UserVersionKept BY DEF IInv
<1> QED BY <1>1, Inductive, PTL

\* The before-images of a journal never change while it lives.
THEOREM BaselineSafe == Spec => BaselineKept
<1> DEFINE Kept == present /\ present' => \A i \in logged : i \in logged' /\ before'[i] = before[i]
<1>1. IInv /\ [Next]_vars => [Kept]_vars
  <2> SUFFICES ASSUME IInv, Next, present, present', NEW i \in logged
               PROVE  i \in logged' /\ before'[i] = before[i]
    OBVIOUS
  <2>1. i \in Files BY DEF IInv, TypeOK
  <2>2. CASE UNCHANGED <<logged, before>> BY <2>2
  <2>3. CASE \E j \in Files : LogFile(j)
    BY <2>1, <2>3 DEF LogFile, IInv, TypeOK
  <2>4. CASE RemoveJournal BY <2>4 DEF RemoveJournal
  <2> QED
    BY <2>2, <2>3, <2>4 DEF Next, HandlerStep, Requests, Accidents, QuietEdits, journalVars,
       CreateJournal, LogDirectory, MakeDirectory, RecordIntent, AddGroup, SaveGroup, GroupSettled, RestoreDocker, AlreadyLogged, WriteFile, HandlerDone, MarkNetwork,
       ApplyNetwork, UndoFile, NetworkFilesBack, ApplyBack, RestoreRuntime, RemoveDirectory, RepairFile,
       RepairDone, PrepareStart, DockerStart, HandlerStart, RestoreStart, DoctorInspect, RepairStart, HandlerFails,
       HandlerKilled, Reboot, AddForeign, ChangeGroup, ChangeDevices, EditFile
<1> QED BY <1>1, Inductive, PTL DEF Spec, BaselineKept

\* A restore gives up the cluster's SSH files only with the network back.
THEOREM SshSafe == Spec => SshOutlivesNetwork
<1> DEFINE Safe == \A i \in Files \ Net :
                     op = "restore" /\ disk[i] = Helper /\ disk'[i] # Helper
                       => ~netStarted \/ runtime = "orig"
<1>1. IInv /\ [Next]_vars => [Safe]_vars
  <2> SUFFICES ASSUME IInv, Next, NEW i \in Files \ Net,
                      op = "restore", disk[i] = Helper, disk'[i] # Helper
               PROVE  ~netStarted \/ runtime = "orig"
    OBVIOUS
  <2>1. i \in Exposed BY DEF IInv, WriteAhead, Remaining
  <2>2. CASE \E j \in Files : UndoFile(j)
    <3> PICK j \in Files : UndoFile(j) BY <2>2
    <3>1. j = i BY DEF UndoFile, IInv, TypeOK
    <3>2. pc = "undorest" BY <3>1 DEF UndoFile, IInv, Remaining
    <3> QED BY <3>2 DEF IInv, Remaining
  <2>3. CASE QuietEdits
    BY <2>1, <2>3 DEF QuietEdits, EditFile, IInv, TypeOK
  <2>4. CASE \E j \in Files : WriteFile(j) \/ RepairFile(j)
    BY <2>4 DEF WriteFile, RepairFile, IInv, TypeOK
  <2> QED
    BY <2>2, <2>3, <2>4 DEF Next, HandlerStep, Requests, Accidents, worldVars,
       CreateJournal, LogDirectory, MakeDirectory, RecordIntent, AddGroup, SaveGroup, GroupSettled, RestoreDocker, LogFile, AlreadyLogged, HandlerDone, MarkNetwork,
       ApplyNetwork, NetworkFilesBack, ApplyBack, RestoreRuntime, RemoveDirectory, RemoveJournal,
       RepairDone, PrepareStart, DockerStart, HandlerStart, RestoreStart, DoctorInspect, RepairStart, HandlerFails,
       HandlerKilled, Reboot, AddForeign, ChangeGroup, ChangeDevices
<1> QED BY <1>1, Inductive, PTL DEF Spec, SshOutlivesNetwork

\* Where nothing was rebooted, the journal knows of the network it started, and is given
\* up only when that network is back.
NetworkKnown ==
  /\ netStarted => present
  /\ pc \in {"apply", "applyback", "runtime"} \/ op = "repair" => netStarted
  /\ pc \in {"rmdir", "unlink"} => ~netStarted \/ runtime = "orig"
  /\ faults["reboot"] = 0 => netStarted \/ runtime = "orig"

LEMMA CountOther ==
  ASSUME NEW kind \in Faults, NEW bound, faults \in [Faults -> Nat], Count(kind, bound)
  PROVE  IF kind = "reboot" THEN faults'["reboot"] # 0 ELSE faults'["reboot"] = faults["reboot"]
BY DEF Count

\* The network in effect after a restore is the user's unless the node was rebooted, for
\* every number of files, edits, failures and kills.
THEOREM NetworkSafe == Spec => []NetworkBackUnlessRebooted
<1>1. Init => NetworkKnown
  BY DEF Init, NetworkKnown
<1>2. IInv /\ NetworkKnown /\ [Next]_vars => NetworkKnown'
  <2> SUFFICES ASSUME IInv, NetworkKnown, [Next]_vars PROVE NetworkKnown' OBVIOUS
  <2> USE DEF IInv, NetworkKnown, worldVars, journalVars, handlerVars, Idle, Enter
  <2>1. CASE HandlerStep
    <3>1. CASE CreateJournal \/ LogDirectory \/ MakeDirectory \/ HandlerDone
      BY <3>1 DEF CreateJournal, LogDirectory, MakeDirectory, RecordIntent, AddGroup, SaveGroup, GroupSettled, RestoreDocker, HandlerDone, Phases
    <3>2. CASE \E i \in Files : LogFile(i) \/ AlreadyLogged(i) \/ WriteFile(i) \/ UndoFile(i) \/ RepairFile(i)
      BY <3>2 DEF LogFile, AlreadyLogged, WriteFile, UndoFile, RepairFile, Phases
    <3>3. CASE MarkNetwork \/ ApplyNetwork \/ NetworkFilesBack
      BY <3>3 DEF MarkNetwork, ApplyNetwork, NetworkFilesBack, Phases
    <3>7. CASE RecordIntent \/ AddGroup \/ SaveGroup \/ GroupSettled \/ RestoreDocker
      <4>1. CASE RestoreDocker
        <5>1. op = "restore" BY <4>1 DEF RestoreDocker, Phases, TypeOK
        <5>2. ~netStarted \/ runtime = "orig" BY <4>1, <5>1 DEF RestoreDocker, Remaining
        <5> QED BY <4>1, <5>1, <5>2 DEF RestoreDocker
      <4> QED BY <3>7, <4>1 DEF RecordIntent, AddGroup, SaveGroup, GroupSettled, Phases
    <3>4. CASE ApplyBack \/ RestoreRuntime
      BY <3>4 DEF ApplyBack, RestoreRuntime, Phases, TypeOK
    <3>5. CASE RemoveDirectory \/ RemoveJournal \/ RepairDone
      BY <3>5 DEF RemoveDirectory, RemoveJournal, RepairDone, Phases, Remaining, TypeOK
    <3> QED BY <2>1, <3>1, <3>2, <3>3, <3>4, <3>5, <3>7 DEF HandlerStep
  <2>2. CASE Requests
    BY <2>2 DEF Requests, PrepareStart, DockerStart, HandlerStart, RestoreStart, DoctorInspect, RepairStart, Phases
  <2>3. CASE Accidents
    BY <2>3, CountOther DEF Accidents, HandlerFails, HandlerKilled, Reboot, AddForeign, ChangeGroup, ChangeDevices, Phases, TypeOK
  <2>4. CASE QuietEdits
    BY <2>4, CountOther DEF QuietEdits, EditFile, TypeOK
  <2>5. CASE UNCHANGED vars
    BY <2>5 DEF vars
  <2> QED BY <2>1, <2>2, <2>3, <2>4, <2>5 DEF Next
<1>3. NetworkKnown => NetworkBackUnlessRebooted
  BY DEF NetworkKnown, NetworkBackUnlessRebooted, NetworkBack
<1> QED BY <1>1, <1>2, <1>3, Inductive, PTL DEF Spec

\* The head asks for a handler that writes into the helper's directory, other than the
\* prepare that makes it, only after a prepare has journaled it: setup-cluster.py sends
\* ssh, which adds the known hosts, when every node has answered prepare.
AfterPrepare ==
  [][op' \in Handlers \ {"prepare"} /\ op = "none" /\ todo' \intersect Managed # {} => dirLogged]_vars

\* A directory of the helper's that exists under a journal is named in it.
DirectoryKnown ==
  /\ pc = "create" => ~dir
  /\ present /\ dir => dirLogged
  /\ pc = "mkdir" \/ (op = "prepare" /\ pc \in {"log", "write"}) => dirLogged
  /\ op \in Handlers \ {"prepare"} /\ todo \intersect Managed # {} => dirLogged
  /\ logged \intersect Managed # {} => dirLogged

\* The directory that setup made is gone when a restore is through with it, for every
\* number of files, unless something lies in it, and whichever handlers failed, were
\* killed or were run again before.
THEOREM DirectoryGone == Spec /\ AfterPrepare => DirectoryBack
<1> DEFINE Asked == op' \in Handlers \ {"prepare"} /\ op = "none" /\ todo' \intersect Managed # {} => dirLogged
           Gone == pc # "unlink" /\ pc' = "unlink"
                     => ~dir' \/ clutter # {} \/ \E i \in Managed : disk[i] # None
<1>1. Init => DirectoryKnown
  BY DEF Init, DirectoryKnown
<1>2. IInv /\ DirectoryKnown /\ [Next]_vars /\ [Asked]_vars => DirectoryKnown'
  <2> SUFFICES ASSUME IInv, DirectoryKnown, [Next]_vars, [Asked]_vars PROVE DirectoryKnown' OBVIOUS
  <2> USE DEF IInv, DirectoryKnown, worldVars, journalVars, handlerVars, Idle, Enter
  <2>1. CASE HandlerStep
    <3>1. CASE CreateJournal \/ LogDirectory \/ MakeDirectory \/ HandlerDone
      BY <3>1 DEF CreateJournal, LogDirectory, MakeDirectory, RecordIntent, AddGroup, SaveGroup, GroupSettled, RestoreDocker, HandlerDone, Phases
    <3>2. CASE \E i \in Files : LogFile(i) \/ AlreadyLogged(i)
      BY <3>2 DEF LogFile, AlreadyLogged, Phases, TypeOK
    <3>3. CASE \E i \in Files : WriteFile(i) \/ UndoFile(i)
      BY <3>3 DEF WriteFile, UndoFile, Phases, TypeOK
    <3>4. CASE \E i \in Files : RepairFile(i)
      BY <3>4 DEF RepairFile, Phases, Guarded, TypeOK
    <3>8. CASE RecordIntent \/ AddGroup \/ SaveGroup \/ GroupSettled \/ RestoreDocker
      BY <3>8 DEF RecordIntent, AddGroup, SaveGroup, GroupSettled, RestoreDocker, Phases, Remaining
    <3>5. CASE MarkNetwork \/ ApplyNetwork \/ NetworkFilesBack \/ ApplyBack \/ RestoreRuntime
      BY <3>5 DEF MarkNetwork, ApplyNetwork, NetworkFilesBack, ApplyBack, RestoreRuntime, Phases
    <3>6. CASE RemoveDirectory
      <4>1. dir' => dir BY <3>6 DEF RemoveDirectory
      <4> QED BY <3>6, <4>1 DEF RemoveDirectory, Phases
    <3>7. CASE RemoveJournal \/ RepairDone
      BY <3>7 DEF RemoveJournal, RepairDone, Phases
    <3> QED BY <2>1, <3>1, <3>2, <3>3, <3>4, <3>5, <3>6, <3>7, <3>8 DEF HandlerStep
  <2>2. CASE PrepareStart
    BY <2>2 DEF PrepareStart, Phases
  <2>3. CASE \E handler \in {"ssh", "network", "env"} : HandlerStart(handler)
    <3>1. op = "none" /\ op' \in Handlers \ {"prepare"} /\ op # op' BY <2>3 DEF HandlerStart
    <3>2. Asked BY <3>1 DEF vars
    <3> QED BY <2>3, <3>1, <3>2 DEF HandlerStart, Phases
  <2>4. CASE DockerStart \/ RestoreStart \/ DoctorInspect \/ RepairStart
    BY <2>4 DEF DockerStart, RestoreStart, DoctorInspect, RepairStart, Phases
  <2>5. CASE Accidents
    BY <2>5 DEF Accidents, HandlerFails, HandlerKilled, Reboot, AddForeign, ChangeGroup, ChangeDevices, Phases
  <2>6. CASE QuietEdits
    BY <2>6 DEF QuietEdits, EditFile
  <2>7. CASE UNCHANGED vars
    BY <2>7 DEF vars
  <2> QED BY <2>1, <2>2, <2>3, <2>4, <2>5, <2>6, <2>7 DEF Next, Requests
<1>3. IInv /\ DirectoryKnown /\ [Next]_vars => [Gone]_vars
  <2> SUFFICES ASSUME IInv, DirectoryKnown, Next, pc # "unlink", pc' = "unlink" PROVE Gone
    OBVIOUS
  <2>1. RemoveDirectory
    BY DEF Next, HandlerStep, Requests, Accidents, QuietEdits, handlerVars, Idle, Enter, CreateJournal,
       LogDirectory, MakeDirectory, RecordIntent, AddGroup, SaveGroup, GroupSettled, RestoreDocker, LogFile, AlreadyLogged, WriteFile, HandlerDone, MarkNetwork, ApplyNetwork,
       UndoFile, NetworkFilesBack, ApplyBack, RestoreRuntime, RemoveJournal, RepairFile, RepairDone,
       PrepareStart, DockerStart, HandlerStart, RestoreStart, DoctorInspect, RepairStart, HandlerFails, HandlerKilled,
       Reboot, AddForeign, ChangeGroup, ChangeDevices, EditFile
  <2>2. present BY <2>1 DEF RemoveDirectory, IInv, Phases, TypeOK
  <2> QED BY <2>1, <2>2 DEF RemoveDirectory, DirectoryKnown, IInv, TypeOK
<1> QED BY <1>1, <1>2, <1>3, Inductive, PTL DEF Spec, AfterPrepare, DirectoryBack

\* The node implements the undo log: whatever it changes is logged first, and the
\* log goes only when nothing it names is changed any more.
THEOREM Refinement == Spec => ImplementsUndoLog
<1> DEFINE Changed == {i \in Files : disk[i] = Helper}
<1> USE DEF Log!vars
<1>1. Init => Log!Init
  BY DEF Init, Log!Init
<1>2. IInv /\ [Next]_vars => [Log!Next]_(Log!vars)
  <2> SUFFICES ASSUME IInv, [Next]_vars PROVE [Log!Next]_(Log!vars) OBVIOUS
  <2> USE DEF IInv, TypeOK
  <2>1. CASE CreateJournal
    <3>1. ~present BY <2>1 DEF CreateJournal, Phases
    <3> QED BY <2>1, <3>1 DEF CreateJournal, Log!Next, Log!Begin, worldVars
  <2>2. CASE \E j \in Files : LogFile(j)
    <3> PICK j \in Files : LogFile(j) BY <2>2
    <3>1. present BY DEF LogFile, Phases
    <3>2. j \notin Changed BY DEF LogFile, WriteAhead
    <3> QED BY <3>1, <3>2 DEF LogFile, Log!Next, Log!Log, worldVars
  <2>3. CASE \E j \in Files : WriteFile(j) \/ RepairFile(j)
    <3> PICK j \in Files : WriteFile(j) \/ RepairFile(j) BY <2>3
    <3>1. j \in logged BY DEF WriteFile, RepairFile, Guarded, Phases
    <3>2. Changed' = Changed \union {j} BY DEF WriteFile, RepairFile
    <3> QED BY <3>1, <3>2 DEF WriteFile, RepairFile, Log!Next, Log!Change, journalVars
  <2>4. CASE \E j \in Files : UndoFile(j)
    <3> PICK j \in Files : UndoFile(j) BY <2>4
    <3>1. Changed' = Changed \ {j} BY DEF UndoFile
    <3> QED BY <3>1 DEF UndoFile, Log!Next, Log!Undo, journalVars
  <2>5. CASE \E j \in Files, c \in Authored : EditFile(j, c)
    <3> PICK j \in Files, c \in Authored : EditFile(j, c) BY <2>5
    <3>1. Changed' = Changed \ {j} BY DEF EditFile
    <3> QED BY <3>1 DEF EditFile, Log!Next, Log!Undo, journalVars
  <2>6. CASE RemoveJournal
    <3>1. present BY <2>6 DEF RemoveJournal, Phases
    <3>2. Changed = {} BY <2>6 DEF RemoveJournal, Phases, WriteAhead, Remaining, Exposed
    <3> QED BY <2>6, <3>1, <3>2 DEF RemoveJournal, Log!Next, Log!End, worldVars
  <2>7. CASE UNCHANGED <<disk, present, logged>>
    BY <2>7
  <2> QED
    BY <2>1, <2>2, <2>3, <2>4, <2>5, <2>6, <2>7 DEF vars, Next, HandlerStep, Requests, Accidents, QuietEdits,
       worldVars, journalVars, LogDirectory, MakeDirectory, RecordIntent, AddGroup, SaveGroup, GroupSettled, RestoreDocker, AlreadyLogged, HandlerDone, MarkNetwork,
       ApplyNetwork, NetworkFilesBack, ApplyBack, RestoreRuntime, RemoveDirectory, RepairDone, PrepareStart,
       DockerStart, HandlerStart, RestoreStart, DoctorInspect, RepairStart, HandlerFails, HandlerKilled, Reboot, AddForeign, ChangeGroup, ChangeDevices
<1> QED BY <1>1, <1>2, Inductive, PTL DEF Spec, ImplementsUndoLog, Log!Spec
=============================================================================
