SPECIFICATION FairConnectSpec
PROPERTIES
    ClosedByOwner
    AttemptSpec
    CallerReturns
    AttemptEnds
