\* One writer, three ex-post belief times, three batches, then a resampling.
SPECIFICATION ResampleSpec
CONSTANTS
    Writers = {w1}
    Known = 1
    Times = {1, 2, 3}
    Probabilities = {p1}
    Values = {v1, v2}
    Batches <- Single
    MaxPosts = 3
    MaxCrashes = 0
INVARIANT ChangesSaved
CHECK_DEADLOCK FALSE
