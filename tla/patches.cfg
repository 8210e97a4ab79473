\* The patch scripts of the image build and the mods of a container.
CONSTANTS
    Starts <- AllStarts
    MaxRounds = 2
    MaxKills = 1
SPECIFICATION Spec
CHECK_DEADLOCK FALSE
INVARIANTS
    TypeOK
    RefusalLeavesTree
    ReapplyQuiet
    NothingAffectedLeft
    InstalledWhole
