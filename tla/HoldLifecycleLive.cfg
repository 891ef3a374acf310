SPECIFICATION LifeFairSpec
CONSTANTS
    Request = {r1, r2}
    Worker = {w1}
    N = 1
    Capacity = 2
    TTL = 2
    BatchSize = 2
    Faults = {"lost", "down", "crash"}
    SlowAcquire = TRUE
INVARIANTS
    PromiseKept
PROPERTIES
    EveryHoldEnds
    SelfHealing
