# FlexMeasures in TLA+

Models of FlexMeasures' server-side core, checked with TLC and proved about with
TLAPS. Everything is translated from the code under `src/flexmeasures`; the field
`map` of `PROJECT.json` names the lines each definition stands for. Paths below are
relative to `src/flexmeasures`.

To check a run: `tlc -config <cfg> <module>` with the pairs listed under "Runs".
To check proofs: `tlapm <module>` for `SchedulingJobsProofs.tla`, `SchedulerProofs.tla`
and `AssetReferencesProofs.tla` (four minutes each from nothing),
`SequentialSchedulingProofs.tla`, `BeliefStoreProofs.tla`,
`ForecastingPipelineProofs.tla`, `MonitoringProofs.tla` and `LookUpProofs.tla` (half a
minute to two minutes each).

## 1. The system

FlexMeasures is a Flask application in front of PostgreSQL and Redis. Web processes
answer API requests; RQ workers take jobs from queues (`scheduling`, `forecasting`,
`ingestion`); hosts use a command line on the same database and queues. Processes
share no memory: they interact through rows (committed transactions, READ COMMITTED)
and Redis keys (one round trip at a time, without locks or MULTI around a
read-decide-write sequence). Jobs call back into the code when they succeed
(`success_callback`) and when they raise (`handle_scheduling_exception`).

| Component (files) | State | Operations | What makes it correct | Hard because |
|---|---|---|---|---|
| Scheduling jobs (`data/services/scheduling.py`, `services/utils.py`, `services/job_cache.py`) | job hashes, queue, argument cache, status page index, schedules in the database | trigger, look up or create, enqueue, index, compute, save, fail, create fallback, expire; one job for all devices of a site | a job runs once; a finished job has a saved schedule; the cache never hands out a dead job; fallbacks are linked in time; whoever gets an id gets one that was enqueued | web processes and workers interleave at every Redis call; kills; TTLs; two cache entries for one job |
| Schedule polling (`api/v3_0/sensors.py`) | none of its own | POST trigger, GET schedule | a schedule or final failure that was reported is not taken back; every id gets an outcome | one answer is read in several trips, while a failure hands over to a fallback in several writes |
| Sequential scheduling (`data/services/scheduling.py`) | dependencies, deferred registry | enqueue the chain, release dependents, wrap up | order of devices; wrap-up means complete; nothing released twice; the chain completes | workers start while the chain is created; fallbacks release what others deferred |
| Saving beliefs (`data/utils.py`, `data/services/time_series.py`, `data/services/data_ingestion.py`, `api/common/utils/api_utils.py`) | table `timed_belief` | read, filter, merge or insert, commit or refuse | history is not rewritten; dropping unchanged beliefs cannot be noticed | filter on a stale read; order of belief times; re-delivery |
| Resampling (`cli/data_edit.py`) | the same table | read, confirm, delete and re-save | the resampled history says what the original said | a human waits in the middle; the filter sees a whole history at once |
| Job queue commands (`cli/jobs.py`) | queues and registries | run, clear, delete | commands do not break running chains | registries are cleared behind callbacks |
| Forecasting pipeline (`data/schemas/forecasting/pipeline.py`, `data/models/forecasting/pipelines`, `api/v3_0/sensors.py`) | cycle jobs, wrap-up job, forecasts | resolve the parameters, cut the period into cycles, enqueue, train and predict, save, wrap up, poll | cycles tile the period; forecasts do not collide by accident; the wrap-up job and the answers mean what they say; the client's job id settles | roundings; dependency on every cycle while cycles run, fail and expire |
| Schedulers (`data/models/planning/storage.py`, `soc_projection.py`, `process.py`) | none between calls | turn SoC events into constraints, validate; place a process in a window | a refused problem has no schedule; projecting events rules nothing out and loses nothing; a process runs in full, at the best place, or is refused for a reason | several lists of events that overlap; rolling windows; missing prices |
| Task runs, monitoring (`data/transactional.py`, `data/models/task_runs.py`, `cli/monitor.py`) | latest run per task, last request per user | run and report, alert | results do not depend on reporting; silence means health; every absent user is alerted about once | one transaction for results and report; two clocks per monitor run; kills |
| Data sources, annotations (`data/services/data_sources.py`, `data/models/annotations.py`) | rows and links | get or create | orders end well unless there is a reason why not | check then insert; look-ups and constraints compare different columns |
| Assets and references (`data/services/sensors.py`, `data/services/generic_assets.py`, `api/common/utils/api_utils.py`) | asset tree, JSON references | delete, patch, move, copy | no reference to what is gone; a copy mirrors the original | whole columns computed before a commit; cascades; references into other trees |
| Belief queries (`data/models/time_series.py`) | - | search | the query returns the most recent beliefs per source version | SQL; version filter |
| Authorization (`auth`) | roles, accounts | check_access | access is exactly what the access lists say | nested principals |
| Users, accounts, audit (`data/services/users.py`, ...) | rows | create, edit, delete | each change is audited | - |
| Reporters, schemas, units, UI, migrations | - | pure computation or I/O | - | - |

`PROJECT.json` lists the same parts with their status, and under `hazards` each
place where the code can go wrong in a way tests hardly reach, with the properties
that would notice. Seven hazards have none, for reasons given there: versions of a source
and the nesting of references within JSON are not modelled, and the others are interleavings
and failures the models have and the code does nothing against, so that the properties of
these parts have to leave them out. Further notes name the cases that a property leaves out.

## 2. Modules

### SchedulingJobs (with MCSchedulingJobs, SchedulingJobsProofs)

One action per Redis round trip or database commit, since these are the points where
another process gets in between. A web process (`client[c]`) walks through
`job_cache` of `services/utils.py`: `LookUp` (does the key exist), `ReadEntry`,
`CheckJob` (does the job exist), `FetchJob`/`RequeueJob`, or `CreateJob`,
`EnqueueJob`, `IndexJob`, `StoreEntry`. A worker (`worker[w]`) walks through
`make_schedule`: `Dequeue`, `ComputeSchedule` (succeeds or raises), `SaveSchedule`
(the commit), `SuccessCallback`, `FinishJob`; or, after an exception,
`FailureCallback`, `CreateFallback` (or `RejectFallback`), `LinkFallback`,
`EnqueueFallback` and `FailJob`. `ReadIndex` and `PruneIndex` are `JobCache.get`. The
environment kills processes (`KillClient`, `KillWorker`), lets RQ fail abandoned jobs
(`AbandonJob`) and lets keys expire (`ExpireJob`, `ExpireEntry`).

| Variable | In the code |
|---|---|
| `status`, `args`, `sched`, `original`, `fallback`, `sourced` | the job hash: status, meta, kwargs, `meta["original_job_id"]`, `meta["fallback_job_id"]`, `meta["data_source_info"]` |
| `queue` | list `rq:queue:scheduling` |
| `cache` | Redis key per hash of arguments |
| `indexed`, `stale` | set of ids per asset (`JobCache`), ids a status page is about to remove |
| `saved` | schedules committed |
| `client`, `worker` | program counter and locals of each process |

`Answer` is what GET `/sensors/<id>/schedules/<uuid>` says about an id when nothing happens to
the job while it is asked; `AnswersSettle` and `FallbackFollowed` are about it.

Abstracted: the values of a schedule, the flex model (an element of `Args`),
validation (one disjunct of `RejectRequest`), and time (expiry may happen whenever the
job or key exists).

### SchedulePolls (with ScheduleAnswers, MCSchedulePolls, SchedulingJobsProofs)

Clients that poll, beside SchedulingJobs. One poll is a sequence of trips to Redis:
`FetchPolled` brings the job's meta, which is not read again; `FollowFallback`,
`AskFinished`, `AskRedirect`, `AskFailed` and `ReportStatus` ask for the status anew, each
where the code does; `FetchFallback` fetches the fallback job, once. `poll[p]` holds the
id, the job at hand and what its hash said when it was fetched, and the client's last answer.
Old meta and a new status combine: a job that fails after it was fetched is answered by a final
failure although its fallback, linked meanwhile, goes on; one fetched before
`data_source_info` was saved and asked about when it has finished makes the endpoint raise.

`ScheduleAnswers` is the abstract specification of the last answers: who was given a
schedule is never told anything else except that the id is forgotten, and the same holds for
a failure of a job that had already failed when the poll fetched it. A failure of a job that
failed during the poll is "premature", and anything may follow it. `AnswersImplemented` states that
SchedulePolls implements it under `told <- [p \in Pollers |-> poll[p].told]`.

### SequentialScheduling (with SequentialSchedulingProofs)

`create_sequential_scheduling_job` while workers already run the chain: `EnqueueNext`
creates and enqueues (or defers) one job after the other, `RejectDevice` is a
validation error halfway. `SuccessCallback` is the fallback's callback that requeues
the dependents of the original job, `FinishJob` RQ's own release of dependents. Job
`k` schedules device `k`, `-k` is its fallback, `NDevices + 1` wraps up. `ClearDeferred`
is `flexmeasures jobs clear-queue --deferred`. It refines the finer steps of
SchedulingJobs away (each job goes through its Redis hash in one step) and adds what
that module leaves out: dependencies. Left out here: the job cache, through which the job of each
device is created, so that a chain asked for with the arguments of an earlier one may get its
jobs; and the expiry of jobs.

### SimultaneousScheduling (with LookUpProofs)

`create_simultaneous_scheduling_job`, which is behind the job cache and calls
`create_scheduling_job`, which is behind it again: `entry["outer"]` and `entry["inner"]` are
the two keys, and the job is in the inner one (`StoreInner`) before its creator looks
at its status (`CheckStatus`) and enqueues it (`EnqueueSiteJob`). A
process that is killed in between leaves the id of a job that nobody enqueued. `told` are
the ids clients were given, `listed` those that were ever in the queue. The finer round trips of
one look-up are SchedulingJobs'.

### BeliefStore (with MCBeliefStore, BeliefStoreProofs)

`save_to_db` for one event and one source, called by several processes. A writer
receives a batch (`Receive`), looks up the ex-ante and the ex-post part in two queries
(`LookAnte`, `LookPost`, each filtering by `drop_unchanged_beliefs`), looks up the rows
it would replace if overwriting is allowed (`MergeRows`), and commits (`Commit`) or
gets an IntegrityError (`Refuse`). A belief is a record of belief time, cumulative
probability and value; `Known` is the event's knowledge time. `Filtered` is the filter:
`Deduplicated` within the batch, then `Changed` against `MostRecent` stored beliefs.
`accepted` and `ordered` are history variables: what callers were told is processed,
and whether accepted batches came one at a time, in the order of their belief times, each with
one belief time on either side of the knowledge time (`OneTime`). Batches may have
several; then `drop_duplicates`, which looks at single rows, removes a quantile of a distribution
that equals the quantile of an earlier one in the batch, and removes a value that is news against
the database because it occurred earlier in the batch.

Flush and commit are one action: rows that are inserted but not committed are
invisible to others, and a second insert of the same key waits for the first
transaction. A post through the `ingestion` queue and one handled by the web process
itself both start with `Receive`; several workers serve a queue, so batches can be
worked on in any order. No caller in the code passes forecasting jobs to
`add_beliefs_to_db_and_enqueue_forecasting_jobs`, so these are left out, and
so is `save_changed_beliefs_only=False`, which only forecasts use: ForecastingPipeline has
it.

### ResampleData (with MCResampleData)

Adds `flexmeasures edit resample-data` to BeliefStore: `ReadHistory`, then, once the
host has confirmed, `ReplaceHistory` deletes and re-saves in one transaction, with the
same `Filtered`. The event is one of the finer events that upsampling yields, so
beliefs keep their values.

### ForecastingPipeline (with MCForecastingPipeline, ForecastingPipelineProofs)

A forecasting request carried out as jobs. The web process resolves the timing parameters
the client gave or left out (`Resolve`, with `Rejected`, `Horizon`, `Period`,
`Frequency` after the schema), lays out one cycle per turn of the loop (`PlanCycle`), commits
the data source (`CommitSource`), and hands RQ a job per cycle (`EnqueueCycle`) and one
that depends on them all (`EnqueueWrapUp`), unless it is killed (`KillWeb`). Workers take jobs meanwhile
(`Dequeue`) and save all forecasts of a cycle in one transaction
(`SaveForecasts`), which the database may refuse (`RefuseForecasts`), or fail
(`ComputeFails`); `RunWrapUp` fetches every cycle's job; `FinishJob` and `FailJob` are RQ's
ends of a job, the first of which may release the wrap-up job. The environment kills workers
(`KillWorker`), fails their jobs (`AbandonJob`) and lets jobs expire (`Expire`).

Job `k > 0` is cycle `k`, job 0 wraps up. Time counts from `predict_start`. A forecast
is a pair of an event's start and the viewpoint it was made from; its belief time is the
request's `save_belief_time` plus the viewpoint, in every cycle. `Answer` is GET
`/sensors/<id>/forecasts/<uuid>`. Models, regressors and the values they produce are left out.

### StorageConstraints (with SchedulerProofs)

How the storage scheduler turns a flex-model's SoC targets, minima and maxima into rows of
constraints: point events between two ticks are projected onto the ticks
(`Policy`, `Reachable`, `Loosened`, `Projected`, `MovedTargets`, after `soc_projection.py`);
then each list becomes a hard column or a priced commitment
(`HardValue`, `SoftValue`, `TargetValue`, `Clip`, `Row`), and validation compares neighbouring
rows (`Before`, `Checks`, `Violations`). `Trigger` picks a flex-model, `Prepare` is
`_prepare` up to the point where the problem goes to the solver or raises. Quantities are
integers of a common unit; both sides of a check are multiplied so that no fraction is
needed. What can be charged between an event and a tick is known for events before the
schedule's end; after it capacities are missing and count as zero (`TimeToTick`). Left out: usage and gains, storage losses, devices that share a stock, commitments
and prices, and the solver.

### ProcessScheduler (with SchedulerProofs)

The whole of `process.py` for a load of constant power: `RowsToFill`, the rolling window
`BlockedStart` with which restricted slots rule out starting slots, the block costs that
skip missing prices (`Window`, `BlockCost`), and `Inflexible`, `Shiftable`, `Breakable`. `AskFor` picks a
process, `Compute` schedules it or refuses it. Fits are defined apart from the algorithm,
as sets of slots, and serve as the reference.

### TaskRuns (with MonitoringProofs)

`task_with_status_report`: `StartTask`, `EndWork` (four outcomes, among them rows
the database will refuse), `Record` (the flush and the look-up of the task's row), `Commit` (results and
report in one transaction), `KillTask`. `StartPass` and `CheckTask` are `monitor
latest-run`, one task after the other while tasks go on. `runs` and `silent` only observe.

### UserMonitor (with MonitoringProofs)

`monitor last-seen`: `Select` queries the users who are absent, all or only newly,
`Mail` alerts about them, `RecordRun` records the run at a later time, `KillRun` may
end it anywhere, and `Request(u)` is any request of a user. `passes` and `alerts` observe.

### AssetReferences (with AssetReferencesProofs)

Assets in a tree, sensors on them, and the references in their JSON columns: an asset's
`flex` is the set of sensors its flex-config refers to, `shows` the assets whose fields
`sensors_to_show` takes. A request reads and computes whole new columns (`StartDeleteSensor`,
`StartPatch`, `StartDeleteAsset`, `StartCopy`, `CopyNext`, `ResolveCopy`) and writes them
when it commits (`CommitDeleteSensor`, `CommitPatch`, `CommitDeleteAsset`, `CommitCopy`) or
ends in `Rollback`; others commit in between. `CopyNext` is one call of
`_copy_asset_subtree`, `ReferencesInCopy` the rewriting of references afterwards. `flex` stands
for references in the forms the code prunes: not for an entry that also has a
"default", nor for an id under a deprecated key. How they are nested is left out, and so is
that a reference removed from a plain list leaves a marker that cannot be written, and that
deleting a sensor rewrites whole `sensors_to_show` columns. `race` and
`loose` are history variables: what others deleted and wrote while a transaction was
open, and which deleted things a reference may be left to.

### GetOrCreate

`get_or_create_source` and `get_or_create_annotation` as a request for an annotation calls
them: `Take`, `FindSource`, `InsertSource` (the flush, with its constraint), `FindNote`,
`FindLink`, `CommitOrder` (with the constraints of annotations and links), `Drop` (a killed
process). Columns that are NULL are never equal to anything for a constraint; the look-up
and the constraint of annotations compare different columns.

### MCServices

StorageConstraints, ProcessScheduler, TaskRuns, UserMonitor, AssetReferences,
SimultaneousScheduling and GetOrCreate in one run. They share no variable, and no
property speaks of two of them; a behaviour therefore moves one of them and leaves the
others at their start, so that the state space is the sum and not the product of theirs.

## 3. Runs

| Run | Module, cfg | Question | Bounds |
|---|---|---|---|
| `jobs_safety` | MCSchedulingJobs, `SchedulingJobs_safety.cfg` | `RunOnce`, `CacheSound`, `PruneKeepsLiveJobs` | 2 web processes, 2 workers, 2 jobs, 2 argument lists, 3 requests, 1 kill |
| `jobs_answers` | MCSchedulePolls, `SchedulePolls_answers.cfg` | `FinishedIsSaved`, `FallbackChain`, `AnswersImplemented` | 1 web process, 1 polling client, 2 workers, two levels of fallback, 2 kills |
| `jobs_settle` | MCSchedulingJobs, `SchedulingJobs_settle.cfg` | `JobsSettle`, `AnswersSettle` under `FairSpec` | 1 web process, 1 worker, one level of fallback, requeueing callers, 1 kill |
| `jobs_redirect` | MCSchedulingJobs, `SchedulingJobs_redirect.cfg` | `FallbackFollowed`: violated | two levels of fallback, no kill |
| `jobs_repeated` | MCSchedulingJobs, `SchedulingJobs_repeated.cfg` | `NoRepeatedWork`: violated | 2 web processes, 2 requests, no kill |
| `chain` | SequentialScheduling, `SequentialScheduling_chain.cfg` | `InOrder`, `WrapUpIsComplete`, `ReleasedOnce`, `NeverRerun`, `ChainCompletes` under `FairSpec` | 3 devices, 2 workers, 1 kill, registry may be cleared |
| `chain_release` | SequentialScheduling, `SequentialScheduling_release.cfg` | `FallbackReleases`: violated | 1 device, 1 worker, no kill |
| `beliefs_save` | MCBeliefStore, `BeliefStore_save.cfg` | `AsOfFaithful`, `NoClutter`, `WholeBeliefs`, `HistoryKept`, `RefusedForReason`, `Redelivered` | 2 writers, 4 belief times around the knowledge time, 2 probabilities, 2 values, 3 batches, 1 kill, both settings of overwriting |
| `beliefs_resample` | MCResampleData, `ResampleData_edit.cfg` | `ChangesSaved`: violated | 1 writer, 3 belief times, 3 batches |
| `forecasting` | MCForecastingPipeline, `ForecastingPipeline_run.cfg` | `WindowsTile`, `RefusedForOverlap`, `WrapUpIsComplete`, `AnswersWhole`, `AnswersGrow`, `RunSettles` under `FairSpec` | 15 requests, at most 3 cycles, 2 workers, jobs expire, 1 kill |
| `forecast_retrain` | MCForecastingPipeline, `ForecastingPipeline_retrain.cfg` | `LatestFromOwnCycle`: violated | three cycles, 1 worker, no kill, nothing expires |
| `services` | MCServices, `Services.cfg` | constraints: `AlarmsAreReal`, `NothingRuledOut`, `StatedValuesKept`, `AskedCanBeMet` | about 3000 flex-models of 2 or 3 ticks, SoC 0 to 3 |
| | | processes: `RunsInFull`, `RefusedForRestrictions`, `BestFit` | about 8000 processes in windows of 4 slots |
| | | tasks: `ResultsKept`, `SilenceMeansHealthy` | 2 tasks, 2 processes, 2 runs, clock to 2, 1 kill |
| | | users: `AlertedOnce`, `NobodyMissed` | 2 users, clock to 4, 3 monitor runs, 1 killed |
| | | assets: `ReferencesLive`, `CopyMirrors` | 4 assets, 4 sensors, 2 web processes, 2 requests |
| | | sites: `ToldIsListed` | 2 web processes, 2 jobs, 3 triggers, 1 kill |
| | | annotations: `OrdersHonoured` | 2 agents, 7 kinds of orders, 3 orders |

Why these bounds. Two web processes and two workers are the least that race with each
other; a third adds no new pair of steps, and the safety properties compare pairs. Two
jobs and three requests let one request find, one force and one requeue. Two levels of
fallback tell the original from the predecessor. Three devices give a middle one. Three
batches give a value that changes and changes back, a late one and a re-delivery; two
times on each side of the knowledge time include the knowledge time itself; batches
hold whole distributions, at one time, as a forecast with a measurement, or as two forecasts
that may share a quantile. The fifteen
forecasting requests take each branch of the parameters' resolution and each way in which
periods, frequencies, horizons and resolutions can fail to divide one another; three cycles
give a middle one. Flex-models have two events of one list, or one of each, on a tick,
between ticks, over two ticks and after the end, hard and relaxed, and three ticks where
rows must agree across two steps. Windows of four slots hold a process of two slots in three
places, with every set of restricted slots and of two prices. Two overlapping requests of
each pair of kinds are what references can be lost between; the tree has a reference
within it, one to a public asset's sensor, one to a third asset's sensor, and a patch that
makes a cycle. Three monitor runs let one be killed and one look back at another. Three orders are one that
finds what two overlapping ones left.

`MaxRequests`, `MaxCrashes`, `MaxPosts` and their like only cut behaviours off; with them everything
comes to rest, which `Quiescent` and `AtRest` admit as stuttering. BeliefStore and the components of
`services` simply stop when all batches and requests are in, so their runs do not check for
deadlock.

Symmetry is used in safety runs only, over processes and users, and in BeliefStore also
over values and probabilities, which no definition orders. Job, asset and sensor ids are drawn in a
fixed order and are therefore not symmetric.

Fairness. `FairSpec` assumes weak fairness of each web process's and each worker's own
steps (the operating system schedules running processes, and a worker that dies is
restarted idle by its supervisor) and of RQ's registry maintenance (`AbandonJob`, which
workers run periodically). Nothing is assumed about triggers, kills, expiries, or an
operator's commands. `JobsSettle` and `RunSettles` need maintenance because a killed worker
leaves its job started.

### What the violated properties say

* `FallbackFollowed`: GET schedule follows `fallback_job_id` once. With two levels of
  fallback, a failed first fallback is answered by a redirect although
  `FLEXMEASURES_FALLBACK_REDIRECT` is off and the documentation says the fallback is
  then followed automatically.
* `NoRepeatedWork`: `job_cache` tests for the key and sets it only after the job was
  enqueued; two simultaneous triggers both create a job, although its docstring promises
  that work is not repeated across processes.
* `FallbackReleases`: `success_callback` requeues the dependents that exist when it runs.
  If the fallback is that quick, the next job of the chain is enqueued afterwards, is
  deferred behind a job that has already failed, and nobody releases it.
* `ChangesSaved`: within one data frame `drop_duplicates` removes a value that occurred
  before, also when it changed in between. `resample-data` passes a whole history
  through it after deleting the rows, so of A, B, A the last is lost.
* `LatestFromOwnCycle`: every cycle predicts for the length of the whole period, and every
  cycle's belief times count from the same `save_belief_time`. The later viewpoints of the
  first cycle therefore look more recent than the first viewpoints of the cycles after it,
  and a query for the most recent forecasts returns those of the model that was trained first, although
  the documentation gives updated training data as the point of cycles.

In each case the run's own configuration has no kill and no expiry that could be blamed.

### What the passing properties leave out, on purpose

Jobs and beliefs. `AnswersImplemented` and `FallbackChain` hold for callers that do not requeue, as the
API's never do: a requeued job takes back its failure. `AnswersImplemented` promises
nothing about a failure of a job that failed while the poll was under way: the poll has read the meta
before the link to the fallback was there, tells a final failure, and the next poll may find the fallback's
schedule. Clients cannot tell the two apart. `AsOfFaithful`, `NoClutter` and `Redelivered`
hold when batches arrive in order, one at a time and with one belief time on each side of the
knowledge time (`ordered`): a batch that arrives late,
or is filtered while another commits, is compared with a different past, and a
belief dropped as unchanged may later turn out to have been a change. `WholeBeliefs` says
that a distribution is stored as a whole but for rows that repeat an earlier one of the same batch:
those are dropped one by one, which leaves distributions in part, against the comment "Keep whole
probabilistic beliefs" (`data/services/time_series.py:190`). `RefusedForReason` admits that
a distribution stored in part is refused when it is sent again: its missing part is news and
brings the rest along. `ChainCompletes`
and `RunSettles` hold unless something happened that the code does not survive, which each
module's `Spoiled` enumerates; one of the cases of the chain, `late`, is what `FallbackReleases` shows.

Forecasts. `RefusedForOverlap` admits refusals when the horizon is longer than the time between
cycles, since then cycles forecast the same events from the same viewpoints.
`AnswersWhole` excludes requests for viewpoints further apart than the horizon and for cycles that
are off the sensor's resolution: their forecasts have holes by what was asked for. It also
excludes resolutions that do not divide an hour. The attempt to prove it without that
condition failed for a reason: the steps to predict are counted as whole steps per hour times
hours, so with an hour of 6 and steps of 4 a viewpoint predicts two thirds of its horizon, and of
two cycles saved the answer lacks what lies between.

Constraints. `AlarmsAreReal` holds where validation compares like with like (`Comparable`): hourly
steps, no conversion losses, and no hard target on the first tick unless the stock starts
empty. Elsewhere powers are compared with stock, or a change with an absolute value.
`NothingRuledOut` leaves out events that lie between two ticks after the end of the
schedule (`EndInside`). `StatedValuesKept` says for hard lists nothing about ticks to which two events
of a list apply, where the last one written counts and not the strictest. `AskedCanBeMet` is
about steps with events of one list and at most one target, with values the device can have (`Plain`).

Monitoring. `ResultsKept` admits that of two first runs of a task that race one loses its results.
`AlertedOnce` counts one more alert for each run that was killed before it recorded itself.
`NobodyMissed` leaves out absences that began while an earlier run was mailing: they are older
than that run's record and newer than its query, so no run finds them new.

References. `ReferencesLive` admits references to what went with an asset above it, since the
database's cascade prunes nothing, and to what was written and deleted by requests that
overlapped. `CopyMirrors` is about copies during which nothing else was committed. It says nothing
about the references of a tree without sensors: the docstrings of `api_utils.py` (349, 362, 449)
say that references to private and deleted sensors are removed from a copy, but the call that
does so is skipped when no sensor was copied (658), and they stay.
`OrdersHonoured` admits errors when another order was committed meanwhile, when a look-up is
ambiguous because such orders inserted the same row twice, and for an annotation that differs only in
its end from one that exists, which the look-up calls new and the constraint a duplicate.

## 4. Proofs

Theorems hold for every value of the constants that satisfies the named assumption of
the module (`SchedulingAssumption` and so on: types of the constants and what
initial data must satisfy), with kills and expiries at any time. The type invariants are
proved and not run.

* **SchedulingJobsProofs.** `TypeInv` is `TypeOK` together with what program counters
  say about the ids a process holds; without it, the id a step writes need not be an
  id. On top of it: `SavedInv` (`FinishedJobsAreSaved`) remembers that a worker about to
  finish has committed; `CacheInv` (`CacheIsSound`) that a web process about to store an
  entry has enqueued its job for its own arguments; `QueueInv` (`JobsRunOnce`) says
  where each id is, in the queue, with the worker that runs it or with the one process
  that created it, and which status it has there, so that an id can only be enqueued by
  its owner; `StaleInv` (`IndexKeepsLiveJobs`) that an id found missing is gone
  for good, since ids are never drawn twice. Two more theorems assume `NoRequeues`, as the API's
  callers do (`NeverRequeued`). `StepShape` says that a step then moves at most one job along its life
  (`StatusMoves`) or links one fallback to a job being worked on, and `LinkInv` that only jobs
  that were worked on have a fallback. `PollsOnlyRead` carries what is proved of jobs over to
  SchedulePolls. `PollInv` says what an old look still tells: a job that was seen failed stays so
  with the link that was seen, until it is gone, and each client's last answer binds the jobs it
  came from; with it each trip of a poll is shown to be allowed by ScheduleAnswers (`PollsAnswer`). `ChainInv`
  (`FallbacksAreChained`) adds what a worker between `CreateFallback` and `EnqueueFallback` knows:
  class and original of the job it created, and that its own job had no link before.
* **SequentialSchedulingProofs.** `RunInv` (`JobsReleasedOnce`, `NoRerun`) says that a
  deferred job is with nobody and that a fallback exists only after its original
  failed; `OrderInv` (`ChainInOrder`, `WrapUpComplete`) that whoever holds a job knows
  all devices before it are scheduled. Chains may have any length.
* **LookUpProofs.** `IInv` (`ToldJobsAreListed`): a job that has a status,
  or is in the outer entry, was in the queue, and a web process that goes on to the outer entry
  or to an answer has seen a status or enqueued the job itself. The inner entry is the one
  place where this may fail. `GInv` (`OrdersAreHonoured`), about sources and annotations: rows that were found stay; what
  was not found is not there for as long as no other order commits; ids are drawn once, so
  a row that is about to be inserted is nobody else's; a user has one source; and of two rows that
  a look-up cannot tell apart one was inserted while orders overlapped (`raced`).
* **BeliefStoreProofs.** `TypeInv` (`TypeCorrect` with the primary key,
  `HistoryIsKept`): a writer keeps rows of its batch only and holds rows to update only
  if it may overwrite. `TogetherInv` (`StoredTogether`): the rows a writer keeps are, for each
  time, all of its batch or none, repetitions aside. `FreshInv` (a writer's look-ups
  describe the database until somebody else commits) gives `RefusalsJustified`. Both hold for any
  batches. The other three assume `BatchesWhole`, that callers send whole distributions, and are about
  `ordered` behaviours only, as the properties say. `FaithInv` gives `DroppingUnnoticed`: as long as batches
  came in order and one at a
  time, what is stored and what was sent agree as of every time, because a batch that comes
  in order does not change what was known before it (`LaterBatch`) and its two parts are each
  compared with the latest stored before them (`PartsFaithful`); `OnlyNewsStored` is the
  same comparison from the side of what was stored, and `RedeliveryHarmless` follows since a batch
  that was saved finds itself.
* **ForecastingPipelineProofs.** `PlanInv` and `WindowInv` (`WindowsTileThePeriod`) give the
  bounds of the k-th window in closed form, with what integer division says about
  the number of cycles. `JobInv` says who works on a job, `SavedInv` that a finished
  cycle has saved, `WrapInv` (`WrapUpMeansComplete`) that the wrap-up job is only released
  when each cycle has finished or is gone, and passes its own check only if none is gone.
  `RefusalsAreOverlaps` is a fact about two cycles' forecasts; `AnswersOnlyGrow` follows
  from forecasts never being removed. `AnswersAreWhole` needs that the resolved parameters are
  feasible (`FeasibleInv`) and then that each cycle that was saved sees a range of slots of the same
  length without a gap, which is no shorter than the period in which all cycles start (`CyclesSee`):
  whichever cycles are there, an event between two of theirs is in the range of one.
* **SchedulerProofs.** Processes: `BlockedMeansNotFree` relates the rolling window to the
  slots of a block, from which `RefusalsAreDue` and `InflexibleRunsFirst` follow. Constraints:
  `RefusedProblemsAreInfeasible` takes a schedule that keeps to the rows and shows for each of the
  eleven checks that it does not fail (`NoCheckFails`); `ProjectionRulesNothingOut` shows that a
  projected bound is met by any stock that meets the event at its own time
  (`ProjectedIsKept`), and so are all values derived from it. Any number of ticks, events and slots.
  `StatedValuesAreKept` goes through the two ways a row is filled. `AskedIsMet` constructs the
  stock at the time of each event between two ticks from the stocks on the ticks
  (`PeakPath` up to a minimum, `ValleyPath` down to a maximum); it assumes `SocIsDense`, that between two possible amounts of stock all integers are possible, since
  otherwise the amount in between may have no name; the runs' `Soc` is an interval.
  Costs are sums over sets of slots, so `PlansRunInFull` and `PlansAreBest` first
  establish what the recursive definition of a sum computes: that it exists, and that it is
  the same in any order (`SumsExist`, `SumsAnyOrder`). A shiftable process takes the best of its
  blocks by definition; for one that is broken up `BestOnesAreBest` is an exchange argument: of the
  other ways to run it, take one that shares most slots with the schedule, and replace a slot the
  schedule lacks by one it has, which is no worse.
* **MonitoringProofs.** Tasks: that a run holds what it found when it looked its row up, and
  that each row of latest runs belongs to a run that was reported (`TaskInv`:
  `TaskResultsKept`, `SilentTasksAreHealthy`). Users: that runs come one after the other, that
  each alert about an absence is followed by a record that is later or by a kill
  (`AlertsArePaidFor`, by counting), and that passes account for those absent (`AbsenceIsReported`).
* **AssetReferencesProofs.** `IInv` (`ReferencesStayLive`) gives each open request what it relies
  on: references it is about to write were alive when it read them, so others deleted them
  since if they are not any more, and rows it leaves alone do not refer to what it
  deletes, unless others wrote them since. `CommitKeeps` shows once that any commit
  that declares what it deletes and writes preserves this for all other requests.
  `CopiesMirror` follows a copy call by call while nobody else commits (`Copying`). A pair of
  an asset and a parent for its copy belongs to the copy if the parent is a copy of the asset's
  parent (`Link`); of all such pairs, each is exactly once among the rows that were made and the
  calls that are left (`Linked`, `Once`, `Covered`), ids are new and parents' ids are smaller than
  their children's (`Novel`), and each asset's sensors are mapped to sensors of its copy (`Mapped`).
  With no call left, a cycle below the asset would mean copies without end
  (`NoEndlessLine`: by PATCH, assets can come to be below themselves; such a copy never gets
  here), so the copies are one to one with the tree (`CopyIsWhole`). `SubtreeIs` shows what the recursive
  definition computes: the smallest set with the asset that is closed under children.

Induction over data. The provers cannot instantiate an induction theorem that takes an operator,
so where a proof needs induction (sums over sets, the exchange argument, the first event
after a gap, the depth of a tree) it takes a least counterexample instead: `SmallestExists` and
`LeastExists` for numbers and `MinimalExists` for subsets of a finite set, which are about sets
and not about operators.

Only model-checked, and why: liveness (`JobsSettle`, `AnswersSettle`, `ChainCompletes`,
`RunSettles`) needs fairness and `ENABLED`, which the provers do not reason about. The violated
properties are TLC's by their nature. All other properties of the passing runs are theorems.

## 5. Not modelled

* **Numerical optimisation and forecasting models** (`planning/linear_optimization.py`,
  the cost side of `storage.py`, `forecasting/custom_models`): real-valued, decided by a solver or a
  library; what goes into them and what is done with their results is modelled.
* **Reporters, units, schemas, time utilities**: pure functions over data frames, quantities and
  strings, without state and with unit tests. What schemas accept decides the inputs of the models.
* **Belief queries**: SQL that PostgreSQL and the timely-beliefs library evaluate. BeliefStore
  takes what they return for one event and source; versions of a source are left out.
* **Authorization**: `check_access` is a pure function of rows that a request reads once.
* **Users and accounts, other API endpoints and commands**: single rows in single
  transactions, on which no other state of the program depends.
* **Rate limiting**: the counting is the Flask-Limiter library's.
* **User interface and migrations**: input and output, and generated code.
