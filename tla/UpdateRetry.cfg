SPECIFICATION FairSpec
CONSTANTS
    MaxUploads = 1
    Bluetooth = TRUE
    UserFiles = {wifi, stations}
    Networks = {"sta", "ap"}
    QueueSize = 2
    MaxCommands = 1
    MaxBtUploads = 0
    MaxCuts = 0
    MaxFaults = 0
CHECK_DEADLOCK FALSE
PROPERTIES FailureLeavesRetryable
