SPECIFICATION FairSpec
CONSTANTS
    Seller = {s1, s2}
    Generator = {g1}
    LastDay = 2
    Horizon = 1
    ChunkSize = 1
    Sizes = {1}
    Faults = {"down"}
PROPERTY
    CallsEnd
