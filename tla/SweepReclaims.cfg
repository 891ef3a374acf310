SPECIFICATION LifeSpec
CONSTANTS
    Request = {r1, r2}
    Worker = {w1}
    N = 2
    Capacity = 2
    TTL = 2
    BatchSize = 1
    Faults = {}
    SlowAcquire = FALSE
PROPERTIES
    SweepReclaims
