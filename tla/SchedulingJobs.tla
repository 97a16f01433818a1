---------------------------- MODULE SchedulingJobs ----------------------------
(***************************************************************************)
(* Scheduling jobs: web processes that create them behind the Redis job    *)
(* cache, the RQ queue, the workers that compute and save schedules, the   *)
(* fallback jobs that an infeasible problem triggers, and what             *)
(* GET /sensors/<id>/schedules/<uuid> would answer for a job id at each    *)
(* moment (SchedulePolls has the endpoint itself, trip by trip).           *)
(*                                                                         *)
(* Every action is one round trip to Redis or one database commit: these   *)
(* are the points at which another process can get in between.             *)
(***************************************************************************)
EXTENDS Naturals, Sequences

CONSTANTS
    Clients,            \* web processes, each handling one trigger at a time
    Workers,            \* RQ workers on the scheduling queue
    JobId,              \* job ids still to be drawn (uuid4)
    Args,               \* distinct argument lists, i.e. distinct cache hashes
    Schedulers,         \* scheduler classes
    None,               \* Python's None
    SchedulerFor,       \* the class find_scheduler_class picks for the arguments
    FallbackClass,      \* Scheduler.fallback_scheduler_class, or None
    ForceFlags,         \* values callers pass for force_new_job_creation
    RequeueFlags,       \* values callers pass for requeue (the API: only FALSE)
    FallbackRedirect,   \* FLEXMEASURES_FALLBACK_REDIRECT
    MaxRequests,        \* bound: triggers handled in a behaviour
    MaxCrashes          \* bound: processes killed in a behaviour

ASSUME SchedulingAssumption ==
    /\ None \notin JobId \cup Schedulers
    /\ SchedulerFor \in [Args -> Schedulers]
    /\ FallbackClass \in [Schedulers -> Schedulers \cup {None}]
    /\ ForceFlags \subseteq BOOLEAN
    /\ RequeueFlags \subseteq BOOLEAN
    /\ FallbackRedirect \in BOOLEAN
    /\ MaxRequests \in Nat
    /\ MaxCrashes \in Nat

VARIABLES
    status,     \* life cycle of each job hash in Redis
    args,       \* meta: the arguments the job was created from
    sched,      \* kwargs: the scheduler class the job will run
    fallback,   \* meta["fallback_job_id"]
    original,   \* meta["original_job_id"], set on fallback jobs only
    sourced,    \* jobs with meta["data_source_info"]
    queue,      \* the list rq:queue:scheduling
    cache,      \* argument hash -> job id, written by job_cache
    indexed,    \* JobCache: ids listed on the status page of the asset
    stale,      \* ids a status page found missing and is about to remove
    saved,      \* jobs whose schedule is committed to the database
    client,     \* control state of each web process
    worker,     \* control state of each worker
    requests,   \* number of triggers received so far
    crashes     \* number of processes killed so far

newVars   == <<args, sched, original>>
metaVars  == <<newVars, fallback, sourced>>
indexVars == <<indexed, stale>>
redisVars == <<status, metaVars, queue, cache, indexVars>>
boundVars == <<requests, crashes>>
vars == <<redisVars, saved, client, worker, boundVars>>

\* "created": the hash holds meta only, RQ has not been told about the job yet.
\* "gone": the hash was removed by its TTL or deleted.
Statuses == {"absent", "created", "queued", "started", "finished", "failed",
             "gone"}

IdleClient == [pc |-> "idle", arg |-> None, force |-> FALSE,
               requeue |-> FALSE, job |-> None]
IdleWorker == [pc |-> "idle", job |-> None, exc |-> None, new |-> None]

Init ==
    /\ status = [j \in JobId |-> "absent"]
    /\ args = [j \in JobId |-> None]
    /\ sched = [j \in JobId |-> None]
    /\ fallback = [j \in JobId |-> None]
    /\ original = [j \in JobId |-> None]
    /\ sourced = {}
    /\ queue = <<>>
    /\ cache = [a \in Args |-> None]
    /\ indexed = {}
    /\ stale = {}
    /\ saved = {}
    /\ client = [c \in Clients |-> IdleClient]
    /\ worker = [w \in Workers |-> IdleWorker]
    /\ requests = 0
    /\ crashes = 0

\* Job.exists and Job.fetch find the job's hash.
JobExists(j) == status[j] \notin {"absent", "gone"}

\* uuid4: an id nobody has drawn before. Which one makes no difference.
FreshId == CHOOSE j \in JobId : status[j] = "absent"

SomeIdLeft == \E j \in JobId : status[j] = "absent"

\* Queue.enqueue_job on a job without unfinished dependencies.
Enqueue(j) ==
    /\ status' = [status EXCEPT ![j] = "queued"]
    /\ queue' = Append(queue, j)

-----------------------------------------------------------------------------
(* A web process: create_scheduling_job behind the job_cache decorator.    *)

Goto(c, label) == client' = [client EXCEPT ![c].pc = label]

\* The request is over: answered, or ended by an exception.
Leave(c) == client' = [client EXCEPT ![c] = IdleClient]

Trigger(c, a, force, requeue) ==
    /\ client[c].pc = "idle"
    /\ requests < MaxRequests
    /\ requests' = requests + 1
    /\ client' = [client EXCEPT ![c] = [pc |-> "lookup", arg |-> a,
                      force |-> force, requeue |-> requeue, job |-> None]]
    /\ UNCHANGED <<redisVars, saved, worker, crashes>>

\* connection.exists(args_hash) and not force_new_job_creation
LookUp(c) ==
    /\ client[c].pc = "lookup"
    /\ \/ /\ cache[client[c].arg] # None
          /\ ~client[c].force
          /\ Goto(c, "read")
       \/ /\ cache[client[c].arg] = None \/ client[c].force
          /\ Goto(c, "create")
    /\ UNCHANGED <<redisVars, saved, worker, boundVars>>

\* connection.get(args_hash).decode(): raises when the key expired in between.
ReadEntry(c) ==
    /\ client[c].pc = "read"
    /\ \/ /\ cache[client[c].arg] # None
          /\ client' = [client EXCEPT ![c].pc = "exists",
                                      ![c].job = cache[client[c].arg]]
       \/ /\ cache[client[c].arg] = None
          /\ Leave(c)
    /\ UNCHANGED <<redisVars, saved, worker, boundVars>>

\* Job.exists: a cache entry can outlive its job.
CheckJob(c) ==
    /\ client[c].pc = "exists"
    /\ \/ /\ JobExists(client[c].job)
          /\ Goto(c, "fetch")
       \/ /\ ~JobExists(client[c].job)
          /\ Goto(c, "create")
    /\ UNCHANGED <<redisVars, saved, worker, boundVars>>

\* Job.fetch and job.is_failed; answers the cached id unless it must requeue.
FetchJob(c) ==
    /\ client[c].pc = "fetch"
    /\ \/ /\ status[client[c].job] = "failed"
          /\ client[c].requeue
          /\ Goto(c, "requeue")
       \/ /\ status[client[c].job] # "failed" \/ ~client[c].requeue
          /\ Leave(c)
    /\ UNCHANGED <<redisVars, saved, worker, boundVars>>

\* Mutant: requeues without having taken the job out of the failed registry.
RequeueUnchecked(c) ==
    /\ client[c].pc = "requeue"
    /\ Enqueue(client[c].job)
    /\ Leave(c)
    /\ UNCHANGED <<metaVars, cache, indexVars, saved, worker, boundVars>>

\* job.requeue(): the job leaves the failed registry, which only one caller
\* can bring about; the other gets InvalidJobOperation.
RequeueJob(c) ==
    /\ client[c].pc = "requeue"
    /\ \/ /\ status[client[c].job] = "failed"
          /\ Enqueue(client[c].job)
       \/ /\ status[client[c].job] # "failed"
          /\ UNCHANGED <<status, queue>>
    /\ Leave(c)
    /\ UNCHANGED <<metaVars, cache, indexVars, saved, worker, boundVars>>

\* Job.create and job.save_meta: the hash exists, RQ does not know it yet.
CreateJob(c) ==
    /\ client[c].pc = "create"
    /\ SomeIdLeft
    /\ LET j == FreshId IN
         /\ status' = [status EXCEPT ![j] = "created"]
         /\ args' = [args EXCEPT ![j] = client[c].arg]
         /\ sched' = [sched EXCEPT ![j] = SchedulerFor[client[c].arg]]
         /\ client' = [client EXCEPT ![c].pc = "enqueue", ![c].job = j]
    /\ UNCHANGED <<original, fallback, sourced, queue, cache, indexVars, saved,
                   worker, boundVars>>

\* The flex config does not deserialize or an output sensor has the wrong sign.
RejectRequest(c) ==
    /\ client[c].pc = "create"
    /\ Leave(c)
    /\ UNCHANGED <<redisVars, saved, worker, boundVars>>

\* Mutant: a new job is not enqueued (the "fresh" check is the wrong way round).
EnqueueJobSkipped(c) ==
    /\ client[c].pc = "enqueue"
    /\ Goto(c, "index")
    /\ UNCHANGED <<redisVars, saved, worker, boundVars>>

\* Mutant: the job is marked queued and never pushed on the queue.
EnqueueJobLost(c) ==
    /\ client[c].pc = "enqueue"
    /\ status' = [status EXCEPT ![client[c].job] = "queued"]
    /\ Goto(c, "index")
    /\ UNCHANGED <<metaVars, queue, cache, indexVars, saved, worker,
                   boundVars>>

\* Queue.enqueue_job of the fresh job.
EnqueueJob(c) ==
    /\ client[c].pc = "enqueue"
    /\ Enqueue(client[c].job)
    /\ Goto(c, "index")
    /\ UNCHANGED <<metaVars, cache, indexVars, saved, worker, boundVars>>

\* current_app.job_cache.add
IndexJob(c) ==
    /\ client[c].pc = "index"
    /\ indexed' = indexed \cup {client[c].job}
    /\ Goto(c, "store")
    /\ UNCHANGED <<status, metaVars, queue, cache, stale, saved, worker,
                   boundVars>>

\* connection.set(args_hash, job.id, ex=FLEXMEASURES_JOB_CACHE_TTL)
StoreEntry(c) ==
    /\ client[c].pc = "store"
    /\ cache' = [cache EXCEPT ![client[c].arg] = client[c].job]
    /\ Leave(c)
    /\ UNCHANGED <<status, metaVars, queue, indexVars, saved, worker,
                   boundVars>>

KillClient(c) ==
    /\ client[c].pc # "idle"
    /\ crashes < MaxCrashes
    /\ crashes' = crashes + 1
    /\ Leave(c)
    /\ UNCHANGED <<redisVars, saved, worker, requests>>

ClientStep(c) ==
    \/ LookUp(c) \/ ReadEntry(c) \/ CheckJob(c) \/ FetchJob(c) \/ RequeueJob(c)
    \/ CreateJob(c) \/ RejectRequest(c) \/ EnqueueJob(c) \/ IndexJob(c)
    \/ StoreEntry(c)

-----------------------------------------------------------------------------
(* The status page of an asset: JobCache.get.                              *)

\* Mutant: failed jobs count as missing, too.
ReadIndexFailed ==
    /\ stale = {}
    /\ stale' = {j \in indexed : ~JobExists(j) \/ status[j] = "failed"}
    /\ stale' # {}
    /\ UNCHANGED <<status, metaVars, queue, cache, indexed, saved, client,
                   worker, boundVars>>

\* smembers, and Job.fetch of every id: the ones not found are to be removed.
ReadIndex ==
    /\ stale = {}
    /\ stale' = {j \in indexed : ~JobExists(j)}
    /\ stale' # {}
    /\ UNCHANGED <<status, metaVars, queue, cache, indexed, saved, client,
                   worker, boundVars>>

\* connection.srem
PruneIndex ==
    /\ stale # {}
    /\ indexed' = indexed \ stale
    /\ stale' = {}
    /\ UNCHANGED <<status, metaVars, queue, cache, saved, client, worker,
                   boundVars>>

-----------------------------------------------------------------------------
(* A worker: RQ's perform_job around make_schedule and the callbacks.      *)

Move(w, label) == worker' = [worker EXCEPT ![w].pc = label]

Rest(w) == worker' = [worker EXCEPT ![w] = IdleWorker]

\* An id whose hash is gone is dropped.
Dequeue(w) ==
    /\ worker[w].pc = "idle"
    /\ queue # <<>>
    /\ queue' = Tail(queue)
    /\ \/ /\ JobExists(Head(queue))
          /\ status' = [status EXCEPT ![Head(queue)] = "started"]
          /\ worker' = [worker EXCEPT ![w] =
                 [IdleWorker EXCEPT !.pc = "compute", !.job = Head(queue)]]
       \/ /\ ~JobExists(Head(queue))
          /\ UNCHANGED <<status, worker>>
    /\ UNCHANGED <<metaVars, cache, indexVars, saved, client, boundVars>>

\* make_schedule up to rq_job.save_meta(): the schedule is computed and the
\* data source it will be stored under is on the job.
ComputeSchedule(w) ==
    /\ worker[w].pc = "compute"
    /\ sourced' = sourced \cup {worker[w].job}
    /\ Move(w, "save")
    /\ UNCHANGED <<status, newVars, fallback, queue, cache, indexVars, saved,
                   client, boundVars>>

\* Mutant: the session is never committed.
SaveScheduleUncommitted(w) ==
    /\ worker[w].pc = "save"
    /\ Move(w, IF original[worker[w].job] # None THEN "callback" ELSE "finish")
    /\ UNCHANGED <<redisVars, saved, client, boundVars>>

\* The rest of make_schedule: nothing is visible before db.session.commit().
SaveSchedule(w) ==
    /\ worker[w].pc = "save"
    /\ saved' = saved \cup {worker[w].job}
    /\ Move(w, IF original[worker[w].job] # None THEN "callback" ELSE "finish")
    /\ UNCHANGED <<redisVars, client, boundVars>>

\* Only computing raises InfeasibleProblemException; computing and saving can
\* raise anything else (a wrong sign attribute, a timeout, a lost database).
RaiseException(w, exc) ==
    /\ \/ worker[w].pc = "compute"
       \/ worker[w].pc = "save" /\ exc # "infeasible"
    /\ worker' = [worker EXCEPT ![w].pc = "except", ![w].exc = exc]
    /\ UNCHANGED <<redisVars, saved, client, boundVars>>

\* success_callback of a fallback job, run before RQ marks the job finished:
\* Job.fetch raises when the original job is gone. (No dependents here.)
SuccessCallback(w) ==
    /\ worker[w].pc = "callback"
    /\ \/ /\ JobExists(original[worker[w].job])
          /\ Move(w, "finish")
       \/ /\ ~JobExists(original[worker[w].job])
          /\ worker' = [worker EXCEPT ![w].pc = "except", ![w].exc = "other"]
    /\ UNCHANGED <<redisVars, saved, client, boundVars>>

FinishJob(w) ==
    /\ worker[w].pc = "finish"
    /\ status' = [status EXCEPT ![worker[w].job] = "finished"]
    /\ Rest(w)
    /\ UNCHANGED <<metaVars, queue, cache, indexVars, saved, client,
                   boundVars>>

\* trigger_optional_fallback, run before RQ marks the job failed.
FailureCallback(w) ==
    /\ worker[w].pc = "except"
    /\ \/ /\ worker[w].exc = "infeasible"
          /\ FallbackClass[sched[worker[w].job]] # None
          /\ Move(w, "fallback")
       \/ /\ \/ worker[w].exc # "infeasible"
             \/ FallbackClass[sched[worker[w].job]] = None
          /\ Move(w, "fail")
    /\ UNCHANGED <<redisVars, saved, client, boundVars>>

\* Mutant: a fallback of a fallback names the job it directly replaces.
OriginalOfSelf(j) == j

\* job.meta.get("original_job_id", job.id)
OriginalOf(j) == IF original[j] # None THEN original[j] ELSE j

\* create_scheduling_job(enqueue=False, force_new_job_creation=True) and the
\* original_job_id: no other process knows the new id yet. job_cache stores it under
\* the hash of these arguments, which no trigger passes (they name the scheduler and
\* the success callback) and which, forced, is never looked up: cache has Args only.
CreateFallback(w) ==
    /\ worker[w].pc = "fallback"
    /\ SomeIdLeft
    /\ LET j == worker[w].job
           f == FreshId IN
         /\ status' = [status EXCEPT ![f] = "created"]
         /\ args' = [args EXCEPT ![f] = args[j]]
         /\ sched' = [sched EXCEPT ![f] = FallbackClass[sched[j]]]
         /\ original' = [original EXCEPT ![f] = OriginalOf(j)]
         /\ worker' = [worker EXCEPT ![w].pc = "link", ![w].new = f]
    /\ UNCHANGED <<fallback, sourced, queue, cache, indexVars, saved, client,
                   boundVars>>

\* The fallback scheduler does not accept the flex config: the callback raises.
RejectFallback(w) ==
    /\ worker[w].pc = "fallback"
    /\ Move(w, "fail")
    /\ UNCHANGED <<redisVars, saved, client, boundVars>>

\* job.meta["fallback_job_id"] = fallback_job.id; job.save_meta()
LinkFallback(w) ==
    /\ worker[w].pc = "link"
    /\ fallback' = [fallback EXCEPT ![worker[w].job] = worker[w].new]
    /\ Move(w, "enqueue")
    /\ UNCHANGED <<status, newVars, sourced, queue, cache, indexVars, saved,
                   client, boundVars>>

\* Mutant: the fallback job is left unqueued.
EnqueueFallbackSkipped(w) ==
    /\ worker[w].pc = "enqueue"
    /\ Move(w, "fail")
    /\ UNCHANGED <<redisVars, saved, client, boundVars>>

\* current_app.queues["scheduling"].enqueue_job(fallback_job)
EnqueueFallback(w) ==
    /\ worker[w].pc = "enqueue"
    /\ Enqueue(worker[w].new)
    /\ Move(w, "fail")
    /\ UNCHANGED <<metaVars, cache, indexVars, saved, client, boundVars>>

\* RQ marks the job failed; handle_scheduling_exception saves the exception.
FailJob(w) ==
    /\ worker[w].pc = "fail"
    /\ status' = [status EXCEPT ![worker[w].job] = "failed"]
    /\ Rest(w)
    /\ UNCHANGED <<metaVars, queue, cache, indexVars, saved, client,
                   boundVars>>

KillWorker(w) ==
    /\ worker[w].pc # "idle"
    /\ crashes < MaxCrashes
    /\ crashes' = crashes + 1
    /\ Rest(w)
    /\ UNCHANGED <<redisVars, saved, client, requests>>

WorkerStep(w) ==
    \/ Dequeue(w) \/ ComputeSchedule(w) \/ SaveSchedule(w)
    \/ \E exc \in {"infeasible", "other"} : RaiseException(w, exc)
    \/ SuccessCallback(w) \/ FinishJob(w)
    \/ FailureCallback(w) \/ CreateFallback(w) \/ RejectFallback(w)
    \/ LinkFallback(w) \/ EnqueueFallback(w) \/ FailJob(w)

-----------------------------------------------------------------------------
(* Redis and RQ housekeeping.                                              *)

\* RQ finds a started job that no worker runs any more: AbandonedJobError, so
\* trigger_optional_fallback creates no fallback.
AbandonJob(j) ==
    /\ status[j] = "started"
    /\ \A w \in Workers : worker[w].job # j
    /\ status' = [status EXCEPT ![j] = "failed"]
    /\ UNCHANGED <<metaVars, queue, cache, indexVars, saved, client, worker,
                   boundVars>>

\* ttl of a waiting job, result_ttl of a finished one, failure ttl of a failed
\* one, or a deletion through the dashboard. A queued id stays in the queue.
ExpireJob(j) ==
    /\ status[j] \in {"queued", "finished", "failed"}
    /\ status' = [status EXCEPT ![j] = "gone"]
    /\ UNCHANGED <<metaVars, queue, cache, indexVars, saved, client, worker,
                   boundVars>>

\* FLEXMEASURES_JOB_CACHE_TTL
ExpireEntry(a) ==
    /\ cache[a] # None
    /\ cache' = [cache EXCEPT ![a] = None]
    /\ UNCHANGED <<status, metaVars, queue, indexVars, saved, client, worker,
                   boundVars>>

\* Nothing left to do within the bounds.
Quiescent ==
    /\ requests = MaxRequests
    /\ queue = <<>>
    /\ \A c \in Clients : client[c].pc = "idle"
    /\ \A w \in Workers : worker[w].pc = "idle"
    /\ UNCHANGED vars

Next ==
    \/ \E c \in Clients :
         \/ \E a \in Args, f \in ForceFlags, r \in RequeueFlags :
              Trigger(c, a, f, r)
         \/ ClientStep(c)
         \/ KillClient(c)
    \/ \E w \in Workers : WorkerStep(w) \/ KillWorker(w)
    \/ \E j \in JobId : AbandonJob(j) \/ ExpireJob(j)
    \/ \E a \in Args : ExpireEntry(a)
    \/ ReadIndex \/ PruneIndex
    \/ Quiescent

Spec == Init /\ [][Next]_vars

\* A request that arrived is carried on, workers keep working, and RQ's
\* registry maintenance runs; nobody promises crashes or expiries.
Fairness ==
    /\ \A c \in Clients : WF_vars(ClientStep(c))
    /\ \A w \in Workers : WF_vars(WorkerStep(w))
    /\ \A j \in JobId : WF_vars(AbandonJob(j))

FairSpec == Spec /\ Fairness

-----------------------------------------------------------------------------
(* What a poll of GET /sensors/<id>/schedules/<uuid> answers when nothing  *)
(* happens to the jobs while it runs.                                      *)

\* The job whose outcome is reported: unless clients are to be redirected, the
\* fallback of a failed job, followed once.
Reported(j) ==
    IF ~FallbackRedirect /\ status[j] = "failed" /\ fallback[j] # None
    THEN fallback[j]
    ELSE j

\* "unready": the hash carries no status, which the endpoint cannot report.
Answer(j) ==
    LET r == Reported(j) IN
    CASE status[r] = "absent"                             -> "none"
      [] status[r] = "created"                            -> "unready"
      [] status[r] \in {"queued", "started"}              -> "pending"
      [] status[r] = "finished"                           -> "processed"
      [] status[r] = "failed" /\ fallback[r] # None       -> "redirect"
      [] status[r] = "failed" /\ fallback[r] = None       -> "unknown"
      [] status[r] = "gone"                               -> "unrecognized"

-----------------------------------------------------------------------------
ClientPcs == {"idle", "lookup", "read", "exists", "fetch", "requeue", "create",
              "enqueue", "index", "store"}
WorkerPcs == {"idle", "compute", "save", "callback", "finish", "except",
              "fallback", "link", "enqueue", "fail"}

ClientState == [pc : ClientPcs, arg : Args \cup {None}, force : BOOLEAN,
                requeue : BOOLEAN, job : JobId \cup {None}]
WorkerState == [pc : WorkerPcs, job : JobId \cup {None},
                exc : {"infeasible", "other", None}, new : JobId \cup {None}]

\* The type invariant.
TypeOK ==
    /\ status \in [JobId -> Statuses]
    /\ args \in [JobId -> Args \cup {None}]
    /\ sched \in [JobId -> Schedulers \cup {None}]
    /\ fallback \in [JobId -> JobId \cup {None}]
    /\ original \in [JobId -> JobId \cup {None}]
    /\ sourced \subseteq JobId
    /\ queue \in Seq(JobId)
    /\ cache \in [Args -> JobId \cup {None}]
    /\ indexed \subseteq JobId
    /\ stale \subseteq JobId
    /\ saved \subseteq JobId
    /\ client \in [Clients -> ClientState]
    /\ worker \in [Workers -> WorkerState]
    /\ requests \in Nat
    /\ crashes \in Nat

\* No schedule is computed by two workers at the same time, and no job that is
\* being computed waits in the queue once more: create_scheduling_job, requeue,
\* the fallback and RQ together put an id in the queue at most once.
RunOnce ==
    /\ \A i, k \in 1 .. Len(queue) : queue[i] = queue[k] => i = k
    /\ \A w \in Workers, i \in 1 .. Len(queue) : worker[w].job # queue[i]
    /\ \A v, w \in Workers :
         worker[v].job = worker[w].job /\ worker[v].job # None => v = w

\* GET /schedules reads the schedule of a finished job from the database under
\* the data source on the job: both are in place before the job is finished,
\* also for a job that failed before and was requeued.
FinishedIsSaved ==
    \A j \in JobId : status[j] = "finished" => j \in saved \cap sourced

\* An id that the job cache hands out is that of a job made for the same
\* arguments, which has reached the queue (no answer names a job that will never
\* run), and which is no fallback job.
CacheSound ==
    \A a \in Args : cache[a] # None =>
        /\ status[cache[a]] \notin {"absent", "created"}
        /\ args[cache[a]] = a
        /\ original[cache[a]] = None

\* Every fallback job that can run or has run is linked from the job whose
\* infeasibility caused it (LinkFallback comes before EnqueueFallback), runs that
\* job's fallback class, and names as its original the job at the head of the
\* chain of fallbacks: the one whose dependents wait and whose id the client
\* holds. For callers that never requeue: a requeued job replaces its fallback.
FallbackChain ==
    \A f \in JobId :
        /\ original[f] # None
        /\ status[f] \notin {"absent", "created", "gone"}
        => \E j \in JobId :
             /\ fallback[j] = f
             /\ sched[f] = FallbackClass[sched[j]]
             /\ original[f] = j \/ original[f] = original[j]
             /\ original[original[f]] = None

\* A status page drops an id from the index of an asset only when its job is
\* gone, although it decides on an earlier look at Redis.
PruneKeepsLiveJobs ==
    [][\A j \in indexed : j \notin indexed' => ~JobExists(j)]_vars

\* A job whose schedule was asked for does not stay queued or started for good:
\* it finishes, fails or expires, also when the worker running it dies.
JobsSettle ==
    \A j \in JobId :
        status[j] \in {"queued", "started"} ~>
            status[j] \in {"finished", "failed", "gone"}

\* A client that polls gets an outcome for every pending id, or learns that the
\* id is forgotten, across the hand-over to fallback jobs. Only a worker that
\* dies between LinkFallback and EnqueueFallback leaves the id without an answer.
AnswersSettle ==
    \A j \in JobId :
        Answer(j) = "pending" ~>
            \/ Answer(j) \in {"processed", "redirect", "unknown", "unrecognized"}
            \/ Answer(j) = "unready" /\ crashes > 0

\* What the job cache is documented for: unless a caller forces it, the same
\* arguments do not lead to a second job while the first can still be reused.
NoRepeatedWork ==
    \A j, k \in JobId :
        /\ j # k
        /\ {status[j], status[k]} \subseteq {"queued", "started", "finished"}
        /\ original[j] = None /\ original[k] = None
        => args[j] # args[k]

\* What FLEXMEASURES_FALLBACK_REDIRECT = False is documented for: the fallback
\* is followed automatically and clients are not redirected.
FallbackFollowed ==
    ~FallbackRedirect => \A j \in JobId : Answer(j) # "redirect"

=============================================================================
