SPECIFICATION MCSpec
CONSTANTS
    Parts = {"file", "log"}
    Notepads = {n1, n2}
    Others = {o}
    Threads = {t1, t2}
    Pids = {p1}
    NoPid = nopid
    REQUEST_QUEUE_SIZE = 3
    MaxLogs = 5
    MaxAsked = 2
    MaxRead = 2
    ConnObjs = {}
    Entries = {}
    Null = null
    MAX_CLOSED_TIME = 1
    Uninitialized = {}
SYMMETRY Symmetry
CHECK_DEADLOCK FALSE
INVARIANTS
    Exclusive
    NotesProtected
    SkippedExact
    RingOwned
    WaitersServed
