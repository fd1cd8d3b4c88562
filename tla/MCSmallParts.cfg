SPECIFICATION MCFairSpec
CONSTANTS
    Threads = {t1, t2, t3}
    MaxPaths = 4
    Inrush = FALSE
    RegionSize = 2
    Total = 40
    Offsets <- MCOffsets
    Lengths <- MCLengths
    Null = null
    MaxSets = 2
    Senders = {w1, w2}
    Receivers = {v1}
    CWK_STR_LEN_MAX = 2
    Buffers <- MCBuffers
    OutLens = {1, 2, 3}
    MaxList = 3
    Keyboards = {k1, k2}
    ULong = 8
    Items = {i1, i2}
    MaxLoads = 2
    none = none
CHECK_DEADLOCK FALSE
INVARIANTS
    PathsSettled
    StringsDelivered
    CountAndChain
    StartSafe
PROPERTIES
    BitmapPromise
    WaiterReturns
    UnloadOutlastsReads
