\* One trigger of the API, two levels of fallback, of which the endpoint follows one
\* by itself, a client that polls; two crashes.
SPECIFICATION PollSpec
CONSTANTS
    None = None
    first = first
    second = second
    third = third
    Pollers = {p1}
    Clients = {c1}
    Workers = {w1, w2}
    JobId = {j1, j2, j3}
    Args = {a1}
    Schedulers = {first, second, third}
    SchedulerFor <- AllFirst
    FallbackClass <- Chained
    ForceFlags = {FALSE}
    RequeueFlags = {FALSE}
    FallbackRedirect = FALSE
    MaxRequests = 1
    MaxCrashes = 2
SYMMETRY Symmetry
INVARIANTS FinishedIsSaved FallbackChain
PROPERTY AnswersImplemented
