SPECIFICATION FairSpec
CONSTANTS
    Request = {r1, r2, r3}
    LockTTL = 1
    Faults = {"down", "lost", "crash"}
    SlowHandler = FALSE
INVARIANTS
    OneAtATime
    RetryIsReplayed
PROPERTY
    LockIsFreed
