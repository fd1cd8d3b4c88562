SPECIFICATION Spec
CONSTANTS
    r1 = r1  r2 = r2  s1 = s1  s2 = s2
    zero = zero  a = a  unknown = unknown
    Irps <- MCIrps
    Sectors <- TwoSectors
    Extents <- TwoExtents
    Values <- MCValues
    Zero <- zero
    Unknown <- unknown
    CanRemove = FALSE
    MapFails = FALSE
    MaxOnline = 1
CHECK_DEADLOCK FALSE
SYMMETRY Symmetry
INVARIANTS
    TypeOK
    ReadsSeeAckedData
    AckedDataKept
PROPERTIES
    DiskFrozen
    ImplementsVolume
