SPECIFICATION Spec
CONSTANTS
    Threads = {t1, t2, t3}
    NoOwner = NoOwner
    Bit = 2
    Maxes = {1, 3}
    MaxCalls = 3
CHECK_DEADLOCK FALSE
INVARIANTS
    TypeOK
    QueueCounts
    SleepersHoldNoLock
    ProgressHasNotifier
