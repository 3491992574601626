\* One daemon, nobody else: the scheduler with SQLite.
CONSTANTS
    s1 = s1
    A = A
    B = B
    Bad = Bad
    Schedulers = {s1}
    OneShots = {}
    Handlers = {}
    Writers = {s1}
    Contents = {A, B, Bad}
    Malformed = {Bad}
    Backends = {"sqlite"}
    Retention = 2
    TicksPerSecond = 1
    SharedSeconds = FALSE
    MaxTime = 5
    MaxEntries = 6
    MaxFaults = 1
SYMMETRY TaskSymmetry
SPECIFICATION Spec
INVARIANT PointerCurrent
INVARIANT NoOrphans
PROPERTY ChangeAware
PROPERTY SkipJustified
CHECK_DEADLOCK FALSE
