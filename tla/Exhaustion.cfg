SPECIFICATION DeskSpec
CONSTANTS
    Request = {r1, r2, r3}
    Worker = {w1}
    N = 2
    Capacity = 100
    Units = 2
    TTL = 2
    BatchSize = 1
    Faults = {}
    SlowAcquire = FALSE
INVARIANTS
    WithinUnits
