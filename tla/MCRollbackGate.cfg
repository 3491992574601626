\* Two connections that contend for the gate, two backups, and every fault.
CONSTANTS
    h1 = h1
    h2 = h2
    A = A
    B = B
    Requests = {h1, h2}
    Backups = {A, B}
    TicksPerSecond = 2
    Limit = 1
    MaxBack = 1
    Drops = TRUE
    Restarts = TRUE
SPECIFICATION FairSpec
INVARIANT TypeOK
INVARIANT StatusTruthful
INVARIANT WebFollowsPointer
INVARIANT NoneStranded
PROPERTY OksSpaced
PROPERTY RequestsEnd
