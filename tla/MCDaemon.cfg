\* Three collections and a malformed one, a retention of one hour, two rollbacks and one fault.
CONSTANTS
    c1 = c1
    c2 = c2
    c3 = c3
    bad = bad
    Collections = {c1, c2, c3, bad}
    Malformed = {bad}
    Retention = 1
    MaxRollbacks = 2
    MaxFaults = 1
SPECIFICATION OnlineSpec
INVARIANT TypeOK
INVARIANT PointerAgrees
PROPERTY CurrentBackedUp
PROPERTY ExpiredPruned
PROPERTY PointerConverges
