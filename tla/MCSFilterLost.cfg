CONSTANTS
    f1 = f1
    r1 = r1
    v1 = v1
    v2 = v2
    s1 = s1
    i1 = i1
    Worlds <- MCWorlds
    Fs = {f1, r1}
    Disks = {f1}
    Recognizers = {r1}
    Volumes = {v1, v2, s1}
    Shadows = {s1}
    FsOf <- MCFsOf
    Devices = {d1, d2, d3}
    Requests = {i1}
    None = None
SPECIFICATION MCSpec
SYMMETRY Symmetry
CHECK_DEADLOCK FALSE
INVARIANT NoneLost
