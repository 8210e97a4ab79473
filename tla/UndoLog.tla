------------------------------ MODULE UndoLog ------------------------------
(***************************************************************************)
(* What one node promises the cluster helper: an undo log.  An item may    *)
(* only be changed after the log names it, and the log may only be thrown  *)
(* away once nothing it names is changed any more.  The node journal of    *)
(* setup_cluster_node.py is shown to implement this (module NodeJournal).  *)
(***************************************************************************)
CONSTANT Files

VARIABLES
  open,     \* a log exists
  logged,   \* the items the log names
  changed   \* the items that differ from what their owner left there

vars == <<open, logged, changed>>

Init ==
  /\ open = FALSE
  /\ logged = {}
  /\ changed = {}

Begin ==
  /\ ~open
  /\ open' = TRUE
  /\ UNCHANGED <<logged, changed>>

Log(i) ==
  /\ open
  /\ i \notin changed
  /\ logged' = logged \union {i}
  /\ UNCHANGED <<open, changed>>

Change(i) ==
  /\ i \in logged
  /\ changed' = changed \union {i}
  /\ UNCHANGED <<open, logged>>

Undo(i) ==
  /\ changed' = changed \ {i}
  /\ UNCHANGED <<open, logged>>

End ==
  /\ open
  /\ changed = {}
  /\ open' = FALSE
  /\ logged' = {}
  /\ UNCHANGED changed

Next ==
  \/ Begin
  \/ \E i \in Files : Log(i) \/ Change(i) \/ Undo(i)
  \/ End

Spec == Init /\ [][Next]_vars
=============================================================================
