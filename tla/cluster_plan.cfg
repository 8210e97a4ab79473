\* From cables to the launch settings.
CONSTANT Sites <- AllSites
SPECIFICATION Spec
CHECK_DEADLOCK FALSE
INVARIANTS
    TypeOK
    LinksJoined
    LaunchAccepts
    JournalsHoldPlan
    DiscoverAgrees
    CopyPathsShortest
