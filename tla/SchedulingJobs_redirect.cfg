\* A fallback that itself fails and has a fallback, FLEXMEASURES_FALLBACK_REDIRECT
\* switched off.
SPECIFICATION Spec
CONSTANTS
    None = None
    first = first
    second = second
    third = third
    Clients = {c1}
    Workers = {w1, w2}
    JobId = {j1, j2, j3}
    Args = {a1}
    Schedulers = {first, second, third}
    SchedulerFor <- AllFirst
    FallbackClass <- TwoLevels
    ForceFlags = {FALSE, TRUE}
    RequeueFlags = {FALSE}
    FallbackRedirect = FALSE
    MaxRequests = 1
    MaxCrashes = 0
INVARIANT FallbackFollowed
