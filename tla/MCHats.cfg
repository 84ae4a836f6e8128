SPECIFICATION MCSpec
CONSTANTS
    Threads = {1, 2, 3}
    Keys = {5, 7, 15}
    Workloads <- TwoWriters
    Preload <- TwoKeys
    MinSize = 4
    MaxStores = 4
    Hashes = {1, 2, 3}
INVARIANTS
    HatsLinearizable
    CountAtRest
    RetiredOnce
    KeysUnique
    SetAlgebra
