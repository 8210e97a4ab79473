SPECIFICATION Spec
CONSTANTS
  d = d
  r = r
  Launchers <- MCLaunchers
  NNodes = 3
  Daemons <- MCDaemons
  Ray <- MCRay
  WithMods <- MCLaunchers
  NoBox = NoBox
  MaxFaults = 0
  MaxSignals = 1
INVARIANT NothingLeftBySignal
CHECK_DEADLOCK FALSE
