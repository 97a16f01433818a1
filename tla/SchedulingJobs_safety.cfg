\* Three triggers by two web processes, two workers, forced and requeueing
\* callers, one crash; a scheduler class without a fallback.
SPECIFICATION Spec
CONSTANTS
    None = None
    first = first
    second = second
    third = third
    Clients = {c1, c2}
    Workers = {w1, w2}
    JobId = {j1, j2}
    Args = {a1, a2}
    Schedulers = {first}
    SchedulerFor <- AllFirst
    FallbackClass <- NoFallback
    ForceFlags = {FALSE, TRUE}
    RequeueFlags = {TRUE}
    FallbackRedirect = FALSE
    MaxRequests = 3
    MaxCrashes = 1
SYMMETRY Symmetry
INVARIANTS RunOnce CacheSound
PROPERTY PruneKeepsLiveJobs
