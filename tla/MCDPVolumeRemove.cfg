SPECIFICATION FairSpec
CONSTANTS
    r1 = r1  r2 = r2  s1 = s1  s2 = s2
    zero = zero  a = a  unknown = unknown
    Irps <- MCIrps
    Sectors <- OneSector
    Extents <- FullExtents
    Values <- NoValues
    Zero <- zero
    Unknown <- unknown
    CanRemove = TRUE
    MapFails = TRUE
    MaxOnline = 2
CHECK_DEADLOCK FALSE
INVARIANT
    BitmapLiveInUse
PROPERTY
    QueuedServed
