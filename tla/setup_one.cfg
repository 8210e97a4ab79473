SPECIFICATION FairSpec
CONSTANTS
  h1 = h1
  h2 = h2
  NNodes = 2
  Heads = {h1}
  StateFile <- MCOneFile
  Order <- MCOneOrder
  NoHead = NoHead
  MaxTx = 2
  MaxFaults = 1
  MaxGiveUps = 1
  MaxEdits = 1
INVARIANTS ManifestCovers
PROPERTIES EventuallyRestored
CHECK_DEADLOCK FALSE
