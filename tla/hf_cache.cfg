SPECIFICATION Spec
CONSTANTS
  a1 = a1
  b1 = b1
  o1 = o1
  o2 = o2
  a = a
  b = b
  NNodes = 2
  Operators = {o1, o2}
  Items <- MCItems
  Revs = {a, b}
  RevOf <- MCRevOf
  All = All
  Commands <- MCCommands
  MaxRuns = 2
  MaxFaults = 1
  MaxArrivals = 1
INVARIANTS RestoredEverywhere DeletedEverywhere
PROPERTIES CoveredBeforeDeleted BackupKept OthersSpared
SYMMETRY MCRenamings
CHECK_DEADLOCK FALSE
