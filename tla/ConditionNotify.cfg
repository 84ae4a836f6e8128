SPECIFICATION FairSpec
CONSTANTS
    Threads = {t1, t2}
    NoOwner = NoOwner
    Bit = 2
    Maxes = {1}
    MaxCalls = 1
CHECK_DEADLOCK FALSE
PROPERTY NotifyReturns
