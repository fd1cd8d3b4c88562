SPECIFICATION MCSpec
CONSTANTS
    Parts = {"send", "recv"}
    none = none
    p1 = p1  p2 = p2  p3 = p3
    t1 = t1  t2 = t2
    c1 = c1  c2 = c2  d1 = d1  d2 = d2
    r1 = r1  r2 = r2  w1 = w1  w2 = w2  e1 = e1  e2 = e2
    Irps = {}
    Packets = {}
    NoIrp = none
    NoPacket = none
    MAX_RECV_QUEUE_SIZE = 1
    MaxPower = 0
    Uses = {}
    Files = {}
    NoFile = none
    Sends = {p1, p2, p3}
    TCBs = {t1, t2}
    Callers = {c1, c2}
    Dpcs = {d1, d2}
    MaxMedia = 2
    MaxArray = 2
    RCBs = {r1, r2}
    Workers = {w1, w2}
    Completers = {e1}
    Returners = {e2}
    Watermark = 1
    MaxErrors = 1
    MaxRefused = 1
    MaxChanges = 1
CHECK_DEADLOCK FALSE
SYMMETRY Symmetry
INVARIANTS
    SendsAccounted
    ReadsAccounted
