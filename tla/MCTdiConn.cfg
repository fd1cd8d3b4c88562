SPECIFICATION MCSpec
CONSTANTS
    Parts = {"conn"}
    Notepads = {}
    Others = {}
    Threads = {}
    Pids = {}
    NoPid = nopid
    REQUEST_QUEUE_SIZE = 2
    MaxLogs = 1
    MaxAsked = 1
    MaxRead = 1
    ConnObjs = {c1, c2}
    Entries = {e1, e2, e3}
    Null = null
    MAX_CLOSED_TIME = 2
    Uninitialized = {"ESTABLISHED_OUT", "LAST_ACK"}
SYMMETRY Symmetry
CHECK_DEADLOCK FALSE
INVARIANTS
    EntriesOwned
    TableTrue
    EntriesFreed
