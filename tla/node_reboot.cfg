SPECIFICATION Spec
CONSTANTS
  NFiles = 4
  Phase <- MCPhase
  Managed = {1}
  User = {u1}
  None = None
  Helper = Helper
  MaxEdits = 0
  MaxStops = 0
  MaxReboots = 1
INVARIANT NetworkBack
CHECK_DEADLOCK FALSE
