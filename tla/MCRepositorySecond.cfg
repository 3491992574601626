\* Two runs that start within one second.
CONSTANTS
    s1 = s1
    c1 = c1
    A = A
    B = B
    Schedulers = {s1}
    OneShots = {c1}
    Handlers = {}
    Writers = {s1, c1}
    Contents = {A, B}
    Malformed = {}
    Backends = {"sqlite"}
    Retention = 0
    TicksPerSecond = 2
    SharedSeconds = TRUE
    MaxTime = 1
    MaxEntries = 3
    MaxFaults = 0
SYMMETRY TaskSymmetry
SPECIFICATION Spec
INVARIANT BackupsDurable
CHECK_DEADLOCK FALSE
