SPECIFICATION Spec
CONSTANTS
  MaxGid = 5
  MaxAdmin = 4
  MaxKills = 2
INVARIANTS MembershipBack
PROPERTIES OnlyOwnGroupDeleted GroupBack
CHECK_DEADLOCK FALSE
