SPECIFICATION Spec
CONSTANTS
    Size <- Sizes8
    MaxBin = 4
    Fiqs = FALSE
    MaxLive = 3
    MaxLost = 1
INVARIANT AllocInPool
CHECK_DEADLOCK FALSE
