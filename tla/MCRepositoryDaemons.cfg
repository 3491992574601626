\* Two daemons that share a root directory and a database of either kind.
CONSTANTS
    s1 = s1
    s2 = s2
    A = A
    Bad = Bad
    Schedulers = {s1,s2}
    OneShots = {}
    Handlers = {}
    Writers = {s1, s2}
    Contents = {A, Bad}
    Malformed = {Bad}
    Backends = {"sqlite", "postgres"}
    Retention = 1
    TicksPerSecond = 1
    SharedSeconds = FALSE
    MaxTime = 3
    MaxEntries = 3
    MaxFaults = 1
SYMMETRY TaskSymmetry
SPECIFICATION Spec
INVARIANT BackupsDurable
INVARIANT NoOrphans
PROPERTY OnlyExpiredPruned
CHECK_DEADLOCK FALSE
