SPECIFICATION Spec
CONSTANTS
  MaxGid = 3
  MaxAdmin = 0
  MaxKills = 1
INVARIANT RestoreNotRefused
