\* Two writers, two ex-ante and two ex-post belief times, three batches of whole
\* distributions over two probabilities, one crash.
SPECIFICATION Spec
CONSTANTS
    Writers = {w1, w2}
    Known = 3
    Times = {1, 2, 3, 4}
    Probabilities = {p1, p2}
    Values = {v1, v2}
    Batches <- WholeBatches
    MaxPosts = 3
    MaxCrashes = 1
SYMMETRY Symmetry
INVARIANTS AsOfFaithful NoClutter
PROPERTIES WholeBeliefs HistoryKept RefusedForReason Redelivered
CHECK_DEADLOCK FALSE
