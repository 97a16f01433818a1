\* Two web processes handle the same trigger at the same time; nobody forces a new
\* job and nothing crashes.
SPECIFICATION Spec
CONSTANTS
    None = None
    first = first
    second = second
    third = third
    Clients = {c1, c2}
    Workers = {w1, w2}
    JobId = {j1, j2}
    Args = {a1, a2}
    Schedulers = {first}
    SchedulerFor <- AllFirst
    FallbackClass <- NoFallback
    ForceFlags = {FALSE}
    RequeueFlags = {FALSE}
    FallbackRedirect = FALSE
    MaxRequests = 2
    MaxCrashes = 0
INVARIANT NoRepeatedWork
