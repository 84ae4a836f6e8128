SPECIFICATION FairSpec
CONSTANTS
    Threads = {t1, t2, t3}
    Locks = {a}
    NoOwner = NoOwner
    Null = Null
    Unset = Unset
    MaxNesting = 2
    WBit = 4
    MaxCalls = 2
CHECK_DEADLOCK FALSE
CONSTRAINT Ungarbled
INVARIANTS
    TypeOK
    WordAgrees
    WriterExcludesReaders
PROPERTIES
    WriterServed
