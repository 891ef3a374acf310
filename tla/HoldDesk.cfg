SPECIFICATION DeskSpec
CONSTANTS
    Request = {r1, r2, r3}
    Worker = {w1, w2}
    N = 2
    Capacity = 1
    Units = 2
    TTL = 1
    BatchSize = 1
    Faults = {"lost"}
    SlowAcquire = FALSE
SYMMETRY Symmetry
VIEW View
INVARIANTS
    DeskTypeOK
    NoDoublePromise
    PromiseKept
    NothingLeftBehind
    AnswersAreTrue
