\* Liveness with one crash: one web process, one worker, one level of fallback,
\* callers that requeue.
SPECIFICATION FairSpec
CONSTANTS
    None = None
    first = first
    second = second
    third = third
    Clients = {c1}
    Workers = {w1}
    JobId = {j1, j2, j3}
    Args = {a1}
    Schedulers = {first, second}
    SchedulerFor <- AllFirst
    FallbackClass <- OneLevel
    ForceFlags = {FALSE}
    RequeueFlags = {TRUE}
    FallbackRedirect = FALSE
    MaxRequests = 2
    MaxCrashes = 1
PROPERTIES JobsSettle AnswersSettle
