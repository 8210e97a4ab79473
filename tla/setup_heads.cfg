SPECIFICATION Spec
CONSTANTS
  h1 = h1
  h2 = h2
  NNodes = 2
  Heads = {h1, h2}
  StateFile <- MCTwoFiles
  Order <- MCTwoOrders
  NoHead = NoHead
  MaxTx = 2
  MaxFaults = 0
  MaxGiveUps = 1
  MaxEdits = 0
PROPERTIES SetupUndisturbed SetupComplete
CHECK_DEADLOCK FALSE
