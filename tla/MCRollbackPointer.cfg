\* Rollback requests of the daemon and a call of run_once beside them.
CONSTANTS
    r1 = r1
    r2 = r2
    b1 = b1
    Writers = {r1, r2, b1}
    Rollbacks = {r1, r2}
    Ids = {1, 2}
SYMMETRY RollbackSymmetry
SPECIFICATION Spec
INVARIANT TypeOK
INVARIANT WholeUnlessMixed
INVARIANT EventsWereInstalled
INVARIANT QuietWriteHeals
PROPERTY SwapInstallsTarget
PROPERTY PointerNeverLost
