\* One worker, nothing expires, nothing is killed: three cycles run in order.
SPECIFICATION Spec
CONSTANTS
    w1 = w1
    w2 = w2
    Hour = 2
    Requests <- MCRetraining
    Workers = {w1}
    Expires = FALSE
    MaxCycles = 3
    MaxCrashes = 0
INVARIANT LatestFromOwnCycle
