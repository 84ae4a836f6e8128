SPECIFICATION Spec
CONSTANTS
    NThreads = 3
    MaxNesting = 2
    MaxStops = 3
CHECK_DEADLOCK FALSE
INVARIANT WorldIsStopped
