SPECIFICATION Spec
CONSTANTS
    Request = {r1, r2, r3}
    N = 2
    Capacity = 1
    TTL = 2
    Faults = {}
    SlowAcquire = TRUE
SYMMETRY RequestSymmetry
INVARIANTS
    NoOversell
