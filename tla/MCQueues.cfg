SPECIFICATION MCSpec
CONSTANTS
    Threads = {1, 2, 3}
    Workloads <- ThreeEnqueues
    Preload <- FourRing
    Capacity = 4
    MaxBlocks = 4
    None = None
    Garbled = Garbled
INVARIANTS
    Linearizable
    LenAtRest
    MemorySafe
    ViewsWhole
