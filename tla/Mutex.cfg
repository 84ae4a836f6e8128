SPECIFICATION FairSpec
CONSTANTS
    Threads = {t1, t2}
    Locks = {a, b}
    NoOwner = NoOwner
    Null = Null
    MaxNesting = 2
    SpinLimit = 2
    MaxCalls = 3
INVARIANTS
    TypeOK
    MutualExclusion
    FutexMeansInside
    WaitersCounted
    ListLinked
    ExitReleasesAll
PROPERTIES
    ImplementsReentrantLock
    ExitCompletes
    WaiterServed
