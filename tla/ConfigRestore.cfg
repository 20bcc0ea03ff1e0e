SPECIFICATION Spec
CONSTANTS
    g1 = g1
    g2 = g2
    e = e
    Values <- MCValues
    Missing = Missing
    Torn = Torn
    Partial = Partial
    NoSnapshot = NoSnapshot
    Keep = Keep
    DefaultConfig = g1
    Generations <- MCGenerations
    Backups <- MCBackups
    EditValues <- MCEdits
    MaxFaults = 2
    MaxCuts = 2
    MaxEdits = 1
INVARIANTS
    AllOrNothing
    AnswerTrue
    PreviousKept
    HaltsOnlyWithReason
