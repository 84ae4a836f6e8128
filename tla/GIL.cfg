SPECIFICATION FairSpec
CONSTANTS
    NThreads = 3
    MaxNesting = 2
    MaxStops = 3
CHECK_DEADLOCK FALSE
INVARIANTS
    TypeOK
    MarkedWhileStopped
    UnmarkedAfter
    NestingCounts
PROPERTIES
    WaitsEnd
