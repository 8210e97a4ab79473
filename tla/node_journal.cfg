SPECIFICATION FairSpec
CONSTANTS
  NFiles = 3
  Phase <- MCPhase3
  Managed = {1}
  User = {u1}
  None = None
  Helper = Helper
  MaxEdits = 1
  MaxStops = 1
  MaxReboots = 1
INVARIANTS UserVersionKept NetworkBackUnlessRebooted
PROPERTIES BaselineKept SshOutlivesNetwork DirectoryBack ImplementsUndoLog EventuallyRestored
CHECK_DEADLOCK FALSE
