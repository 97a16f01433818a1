\* Flex-models, loads, task runs, user monitoring, assets, simultaneous scheduling and
\* annotations, each for itself. Schedules are prepared once, and requests, runs and clocks are
\* bounded: the system stops.
SPECIFICATION Spec
CONSTANTS
    None = None
    MaxSoc = 3
    Soc = {0, 1, 2, 3}
    Problems <- FlexModels
    NoProcess = NoProcess
    Price = {1, 2}
    Loads <- SomeLoads
    NoRun = NoRun
    t1 = t1
    t2 = t2
    Runners = {p1, p2}
    Listed <- BothTasks
    Interval = 1
    MaxTaskRuns = 2
    MaxTaskTime = 2
    MaxKilled = 1
    NeverRun = NeverRun
    Users = {u1, u2}
    Delta = 1
    MaxUserTime = 4
    MaxMonitorRuns = 3
    MaxAborts = 1
    Web = {w1, w2}
    AssetId = {1, 2, 3, 4, 5, 6, 7}
    SensorId = {11, 12, 13, 14, 15, 16, 17, 18}
    own = own
    other = other
    Account = {own, other}
    Public = Public
    Nowhere = Nowhere
    FirstAssets <- SomeAssets
    FirstHome <- SomeHome
    Patches <- SomePatches
    Targets <- SomeTargets
    MaxAssetRequests = 2
    Callers = {c1, c2}
    SiteJob = {j1, j2}
    NoJob = NoJob
    MaxTriggers = 3
    MaxKilledCallers = 1
    Agents = {a1, a2}
    Orders <- SomeOrders
    Null = Null
    MaxOrders = 3
SYMMETRY Symmetry
INVARIANTS
    AlarmsAreReal NothingRuledOut StatedValuesKept AskedCanBeMet
    RunsInFull RefusedForRestrictions BestFit
    ResultsKept SilenceMeansHealthy
    AlertedOnce NobodyMissed
    ReferencesLive CopyMirrors
    ToldIsListed
    OrdersHonoured
CHECK_DEADLOCK FALSE
