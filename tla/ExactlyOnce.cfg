SPECIFICATION Spec
CONSTANTS
    Request = {r1, r2}
    LockTTL = 1
    Faults = {}
    SlowHandler = FALSE
INVARIANT
    ExactlyOnce
