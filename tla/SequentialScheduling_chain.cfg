\* Three devices, two workers, one crash, the deferred registry may be cleared.
SPECIFICATION FairSpec
CONSTANTS
    NDevices = 3
    Workers = {w1, w2}
    Clears = TRUE
    MaxCrashes = 1
INVARIANTS InOrder WrapUpIsComplete ReleasedOnce
PROPERTIES NeverRerun ChainCompletes
