SPECIFICATION MCSpec
CONSTANTS
    i1 = i1  i2 = i2  p1 = p1  p2 = p2
    none = none
    Irps <- MCIrps
    Packets <- MCPackets
    NoIrp = none
    NoPacket = none
    MAX_RECV_QUEUE_SIZE = 1
    MaxPower = 1
CHECK_DEADLOCK FALSE
SYMMETRY Symmetry
INVARIANTS
    CountsExact
    ReadsServed
    NothingFreedInUse
