SPECIFICATION FairSpec
CONSTANTS
    Chunks = 2
    MaxRetransmissions = 1
    Versions = {"v1", "v2"}
    OldVersion = "v1"
    MaxUpdates = 2
    MaxFaults = 1
INVARIANTS
    SuccessMeansInstalled
    ConfirmedIsStored
    ImageHeld
PROPERTIES
    TransferEnds
CHECK_DEADLOCK FALSE
