----------------------------- MODULE MCHfCache -----------------------------
(***************************************************************************)
(* Instance of HfCache for TLC: two revisions of a file each; one operator *)
(* deletes while the other fills the caches or backs them up.              *)
(***************************************************************************)
EXTENDS HfCache, TLC

CONSTANTS a1, b1, a, b, o1, o2

MCItems == {a1, b1}
MCRevOf == [i \in MCItems |-> IF i = b1 THEN b ELSE a]
MCCommands == [o \in {o1, o2} |->
  IF o = o1 THEN {"backupdelete", "delete", "cleanup"} ELSE {"download", "restore", "backup"}]

\* Renaming the revisions, each with its file, changes nothing.
MCRenamings ==
  {f \in Permutations({a1, b1, a, b}) :
     \A i \in MCItems : f[i] \in MCItems /\ f[MCRevOf[i]] = MCRevOf[f[i]]}
=============================================================================
