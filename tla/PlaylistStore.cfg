SPECIFICATION Spec
CONSTANTS
    Stations = {s1, s2}
    MaxRows = 2
    Partial = Partial
    Missing = Missing
    MaxFaults = 2
    MaxEdits = 1
    MaxPlays = 1
    MaxCuts = 1
CHECK_DEADLOCK FALSE
INVARIANTS
    ListKept
    AnswersTrue
    IndexFollows
    SelectionFollows
