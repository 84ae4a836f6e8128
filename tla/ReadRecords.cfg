SPECIFICATION FairSpec
CONSTANTS
    Locks = {a, b, c}
    MaxNesting = 2
    MaxCalls = 6
INVARIANTS
    TypeOK
    ShareIsRecorded
    RecordsReused
PROPERTIES
    ExitEnds
