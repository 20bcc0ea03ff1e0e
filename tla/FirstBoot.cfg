SPECIFICATION Spec
CONSTANTS
    p1 = p1
    p2 = p2
    h1 = h1
    h2 = h2
    Payloads <- MCPayloads
    HwConfigs <- MCHwConfigs
    DefaultHw = h1
    NoRecord = NoRecord
    Empty = Empty
    Partial = Partial
    Missing = Missing
    MaxFaults = 2
    MaxCrashes = 3
CHECK_DEADLOCK FALSE
INVARIANTS
    OpenOnlyWhenComplete
    PortalToldTheTruth
PROPERTIES
    AtomicSetup
