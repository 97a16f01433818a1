\* Fifteen requests, two workers, jobs may expire, one process may be killed.
SPECIFICATION FairSpec
CONSTANTS
    w1 = w1
    w2 = w2
    Hour = 2
    Requests <- MCRequests
    Workers <- MCWorkers
    Expires = TRUE
    MaxCycles = 3
    MaxCrashes = 1
INVARIANTS WindowsTile RefusedForOverlap WrapUpIsComplete AnswersWhole
PROPERTIES AnswersGrow RunSettles
