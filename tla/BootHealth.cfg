SPECIFICATION FairSpec
CONSTANTS
    HealthStable = 2
    HealthTimeout = 5
    Heartbeat = 1
    MaxTime = 6
    MaxUploads = 2
    MaxCuts = 1
    MaxFaults = 2
CHECK_DEADLOCK FALSE
INVARIANTS
    KnownGoodKept
    ReadyMeansDurable
    ApprovedAlive
PROPERTIES
    PendingIsDecided
