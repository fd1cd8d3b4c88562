SPECIFICATION MCFairSpec
CONSTANTS
    p1 = p1  p2 = p2
    m1 = m1  m2 = m2  m3 = m3
    Packets = {p1}
    Frames = {p1, p2}
    PoolSize = 1
    Miniports = {m1, m2, m3}
CHECK_DEADLOCK FALSE
INVARIANTS
    AdaptCounted
    RequestsSettled
    StatusTold
    FramesSafe
    DeviceSafe
PROPERTIES
    WaitersReturn
