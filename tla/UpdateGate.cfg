SPECIFICATION FairSpec
CONSTANTS
    MaxUploads = 2
    Bluetooth = TRUE
    UserFiles = {wifi}
    Networks = {"sta", "ap"}
    QueueSize = 2
    MaxCommands = 1
    MaxBtUploads = 1
    MaxCuts = 1
    MaxFaults = 1
CHECK_DEADLOCK FALSE
INVARIANTS
    OneWriter
    SilentWhileWriting
    UserDataKept
PROPERTIES
    UpdateEnds
    AudioReleased
