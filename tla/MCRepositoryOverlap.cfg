\* Two runs that overlap.
CONSTANTS
    s1 = s1
    c1 = c1
    A = A
    B = B
    Schedulers = {s1}
    OneShots = {c1}
    Handlers = {}
    Writers = {s1, c1}
    Contents = {A, B}
    Malformed = {}
    Backends = {"sqlite"}
    Retention = 0
    TicksPerSecond = 1
    SharedSeconds = FALSE
    MaxTime = 2
    MaxEntries = 3
    MaxFaults = 0
SYMMETRY TaskSymmetry
SPECIFICATION Spec
PROPERTY ChangeAware
CHECK_DEADLOCK FALSE
