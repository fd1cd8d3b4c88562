SPECIFICATION MCFairSpec
CONSTANTS
    Parts = {"reads", "binding", "send", "recv"}
    none = none
    Irps = {i1}
    Packets = {p1}
    Uses = {u1}
    Files = {f1}
    NoIrp = none
    NoPacket = none
    NoFile = none
    MAX_RECV_QUEUE_SIZE = 1
    MaxPower = 1
    Sends = {s1, s2}
    TCBs = {t1}
    Callers = {c1}
    Dpcs = {d1}
    RCBs = {r1, r2}
    Workers = {w1, w2}
    Completers = {e1}
    Returners = {e2}
    Watermark = 1
    MaxErrors = 1
    MaxRefused = 0
    MaxChanges = 0
    MaxMedia = 1
    MaxArray = 1
CHECK_DEADLOCK FALSE
PROPERTIES
    UnbindsReturn
    HaltsReturn
