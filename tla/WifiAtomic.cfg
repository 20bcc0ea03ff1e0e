SPECIFICATION Spec
CONSTANTS
    p1 = p1
    p2 = p2
    Payloads <- MCPayloads
    Empty = Empty
    Partial = Partial
    Missing = Missing
    MaxFaults = 3
    MaxCrashes = 2
SYMMETRY Symmetry
CHECK_DEADLOCK FALSE
INVARIANTS
    OldOrNew
    SaveReport
    RenamesAllowed
