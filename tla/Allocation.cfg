SPECIFICATION Spec
CONSTANTS
    Seller = {s1, s2}
    Generator = {g1, g2}
    LastDay = 1
    Horizon = 3
    ChunkSize = 2
    Sizes = {1, 2}
    Faults = {"down", "lost"}
SYMMETRY TxSymmetry
INVARIANTS
    CheckHolds
    AllOrNothing
    NoWaitCycle
    HorizonProvided
PROPERTY
    ImplementsLedger
