SPECIFICATION FairSpec
CONSTANTS
  d = d
  r = r
  Launchers <- MCLaunchers
  NNodes = 3
  Daemons <- MCDaemons
  Ray <- MCRay
  WithMods <- MCLaunchers
  NoBox = NoBox
  MaxFaults = 2
  MaxSignals = 2
INVARIANTS NothingLeft
PROPERTIES RunningSpared ReadyBeforeCommand FreedInTheEnd
CHECK_DEADLOCK FALSE
