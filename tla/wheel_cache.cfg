SPECIFICATION Spec
CONSTANTS
  MaxSets <- MCMaxSets
  VersionOf <- MCVersionOf
  MaxRuns = 2
  MaxFaults = 1
  MaxKills = 1
INVARIANTS MarksMatch StillHeld
PROPERTIES ImageWhole KeptOnFailure RecoversAlone
CHECK_DEADLOCK FALSE
