\* One rollback request beside one call of run_once.
CONSTANTS
    r1 = r1
    b1 = b1
    Writers = {r1, b1}
    Rollbacks = {r1}
    Ids = {1, 2}
SPECIFICATION Spec
INVARIANT PointerWhole
