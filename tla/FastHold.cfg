SPECIFICATION Spec
CONSTANTS
    Request = {r1, r2, r3}
    N = 2
    Capacity = 2
    TTL = 2
    Faults = {"lost", "crash"}
    SlowAcquire = FALSE
SYMMETRY RequestSymmetry
INVARIANTS
    TypeOK
    NoOversell
    Covered
    HeldIsReleasable
PROPERTIES
    OnlyExpiryLeaks
    ImplementsPool
