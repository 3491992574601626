\* A daemon: its scheduler and a request, with SQLite.
CONSTANTS
    s1 = s1
    h1 = h1
    A = A
    B = B
    Schedulers = {s1}
    OneShots = {}
    Handlers = {h1}
    Writers = {s1, h1}
    Contents = {A, B}
    Malformed = {}
    Backends = {"sqlite"}
    Retention = 1
    TicksPerSecond = 1
    SharedSeconds = FALSE
    MaxTime = 3
    MaxEntries = 2
    MaxFaults = 1
SYMMETRY TaskSymmetry
SPECIFICATION Spec
INVARIANT TypeOK
INVARIANT BackupsDurable
INVARIANT ServedFaithful
INVARIANT PointerNamesRecorded
PROPERTY ImplementsSnapshotStore
CHECK_DEADLOCK FALSE
