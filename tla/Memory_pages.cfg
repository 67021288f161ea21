SPECIFICATION MemorySpec
CONSTANTS
    Size <- Sizes8
    MaxBin = 4
    Fiqs = FALSE
    MaxLive = 4
    MaxLost = 1
    MaxAddr = 6
    NPages = 12
    VBits = 13
    PBits = 14
    KPages = 1
    SpPages = 2
    HpPages = 2
    NIds = 2
    Svc = {"echo", "drm", "global"}
    Blk = {"d1", "d2"}
    MaxOpen = 2
    SecPages = 2
    PerPage = 4
    ObjSizes = {1, 3}
    MaxObj = 3
INVARIANTS NoOverlap HeapSizeExact TreeIsSet SessionsExact OwnedPages
CHECK_DEADLOCK FALSE
