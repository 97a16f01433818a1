------------------------- MODULE SequentialScheduling -------------------------
(***************************************************************************)
(* A chain of scheduling jobs (create_sequential_scheduling_job): one job  *)
(* per device, each deferred until its predecessor is done because it      *)
(* takes the predecessor's schedule as inflexible, and a job that wraps    *)
(* up. A device whose problem is infeasible is handed to a fallback job,   *)
(* and the fallback's success_callback releases the jobs that wait for the *)
(* original. Workers start on the chain while it is being created.         *)
(*                                                                         *)
(* Job k in 1 .. NDevices schedules device k, job NDevices + 1 wraps up,   *)
(* and the fallback job of device k is written -k.                         *)
(*                                                                         *)
(* Left out: the job cache, through which each device's job is created     *)
(* (scheduling.py:206), so that a chain asked for with the arguments of    *)
(* an earlier one may get its jobs; and jobs that expire.                  *)
(***************************************************************************)
EXTENDS Integers, Sequences

CONSTANTS
    NDevices,       \* length of the flex-model
    Workers,        \* RQ workers on the scheduling queue
    Clears,         \* whether an operator clears the deferred registry
    MaxCrashes      \* bound: processes killed in a behaviour

ASSUME SequentialAssumption ==
    /\ NDevices \in Nat \ {0}
    /\ Clears \in BOOLEAN
    /\ MaxCrashes \in Nat

Devices   == 1 .. NDevices
WrapUp    == NDevices + 1
Chain     == 1 .. WrapUp
Fallbacks == {-k : k \in Devices}
Jobs      == Chain \cup Fallbacks

\* The device a job schedules.
Device(j) == IF j < 0 THEN -j ELSE j

VARIABLES
    status,     \* status of each job
    queue,      \* the list rq:queue:scheduling
    registry,   \* deferred_job_registry
    waiting,    \* k: job k is in the dependents of job k - 1
    next,       \* the web process: next job of the chain to be enqueued
    worker,     \* control state of each worker
    planned,    \* devices with a schedule in the database
    late,       \* history: a job was deferred when its predecessor's fallback
                \* had been started already
    crashes     \* number of processes killed so far

rqVars == <<status, queue, registry, waiting>>
vars == <<rqVars, next, worker, planned, late, crashes>>

Idle == [pc |-> "idle", job |-> 0]

Init ==
    /\ status = [j \in Jobs |-> "absent"]
    /\ queue = <<>>
    /\ registry = {}
    /\ waiting = {}
    /\ next = 1
    /\ worker = [w \in Workers |-> Idle]
    /\ planned = {}
    /\ late = FALSE
    /\ crashes = 0

-----------------------------------------------------------------------------
(* The web process enqueues the chain job by job.                          *)

\* Mutant: the job that wraps up is created without depends_on.
UnmetDevice(k) == k \in Devices /\ k > 1 /\ status[k - 1] # "finished"

\* The job the chain's job k depends on has not finished.
Unmet(k) == k > 1 /\ status[k - 1] # "finished"

\* A job is created, as one no chain has had before, and Queue.enqueue_job puts it in
\* the queue, or defers it and registers it as a dependent.
EnqueueNext ==
    /\ next \in Chain
    /\ \/ /\ ~Unmet(next)
          /\ status' = [status EXCEPT ![next] = "queued"]
          /\ queue' = Append(queue, next)
          /\ UNCHANGED <<registry, waiting, late>>
       \/ /\ Unmet(next)
          /\ status' = [status EXCEPT ![next] = "deferred"]
          /\ registry' = registry \cup {next}
          /\ waiting' = waiting \cup {next}
          /\ late' = (late \/ status[1 - next] \in {"started", "finished", "failed"})
          /\ UNCHANGED queue
    /\ next' = next + 1
    /\ UNCHANGED <<worker, planned, crashes>>

\* A later device's flex-model does not deserialize: the earlier jobs stay.
RejectDevice ==
    /\ next \in Devices
    /\ next' = 0
    /\ UNCHANGED <<rqVars, worker, planned, late, crashes>>

KillWeb ==
    /\ next \in Chain
    /\ crashes < MaxCrashes
    /\ crashes' = crashes + 1
    /\ next' = 0
    /\ UNCHANGED <<rqVars, worker, planned, late>>

-----------------------------------------------------------------------------
(* Workers.                                                                *)

Move(w, label) == worker' = [worker EXCEPT ![w].pc = label]

Dequeue(w) ==
    /\ worker[w].pc = "idle"
    /\ queue # <<>>
    /\ queue' = Tail(queue)
    /\ status' = [status EXCEPT ![Head(queue)] = "started"]
    /\ worker' = [worker EXCEPT ![w] = [pc |-> "compute", job |-> Head(queue)]]
    /\ UNCHANGED <<registry, waiting, next, planned, late, crashes>>

\* make_schedule commits; cb_done_sequential_scheduling_job does nothing.
SaveSchedule(w) ==
    /\ worker[w].pc = "compute"
    /\ IF worker[w].job = WrapUp
       THEN UNCHANGED planned
       ELSE planned' = planned \cup {Device(worker[w].job)}
    /\ Move(w, IF worker[w].job < 0 THEN "callback" ELSE "finish")
    /\ UNCHANGED <<rqVars, next, late, crashes>>

\* trigger_optional_fallback: the fallback job has no dependencies.
ComputeInfeasible(w) ==
    LET j == worker[w].job IN
    /\ worker[w].pc = "compute"
    /\ j \in Devices
    /\ status' = [status EXCEPT ![-j] = "queued"]
    /\ queue' = Append(queue, -j)
    /\ Move(w, "fail")
    /\ UNCHANGED <<registry, waiting, next, planned, late, crashes>>

\* Any other exception, or an infeasible fallback, which has none of its own.
ComputeFails(w) ==
    /\ worker[w].pc = "compute"
    /\ worker[w].job # WrapUp
    /\ Move(w, "fail")
    /\ UNCHANGED <<rqVars, next, planned, late, crashes>>

\* original_job.dependent_ids
Dependents(k) == waiting \cap {k + 1}

\* Mutant: the callback looks at the dependents of the fallback job itself.
SuccessCallbackOwn(w) ==
    /\ worker[w].pc = "callback"
    /\ Move(w, "finish")
    /\ UNCHANGED <<rqVars, next, planned, late, crashes>>

\* Mutant: the callback releases one more job than waits for the original.
SuccessCallbackMore(w) ==
    LET k == Device(worker[w].job) IN
    /\ worker[w].pc = "callback"
    /\ {k + 1, k + 2} \subseteq registry
    /\ registry' = registry \ {k + 1, k + 2}
    /\ status' = [status EXCEPT ![k + 1] = "queued", ![k + 2] = "queued"]
    /\ queue' = queue \o <<k + 1, k + 2>>
    /\ Move(w, "finish")
    /\ UNCHANGED <<waiting, next, planned, late, crashes>>

\* success_callback: deferred_job_registry.requeue of every dependent of the
\* original, whose own dependencies are not looked at. Requeueing a job that is
\* not in the registry raises, and the fallback job is then failed.
SuccessCallback(w) ==
    LET k == Device(worker[w].job) IN
    /\ worker[w].pc = "callback"
    /\ \/ /\ Dependents(k) = {}
          /\ Move(w, "finish")
          /\ UNCHANGED <<status, queue, registry>>
       \/ /\ Dependents(k) # {} /\ k + 1 \in registry
          /\ registry' = registry \ {k + 1}
          /\ status' = [status EXCEPT ![k + 1] = "queued"]
          /\ queue' = Append(queue, k + 1)
          /\ Move(w, "finish")
       \/ /\ Dependents(k) # {} /\ k + 1 \notin registry
          /\ Move(w, "fail")
          /\ UNCHANGED <<status, queue, registry>>
    /\ UNCHANGED <<waiting, next, planned, late, crashes>>

\* RQ marks the job finished and enqueues its dependents in one transaction.
FinishJob(w) ==
    LET j == worker[w].job IN
    /\ worker[w].pc = "finish"
    /\ \/ /\ j > 0 /\ Dependents(j) # {}
          /\ status' = [status EXCEPT ![j] = "finished", ![j + 1] = "queued"]
          /\ queue' = Append(queue, j + 1)
          /\ registry' = registry \ {j + 1}
          /\ waiting' = waiting \ {j + 1}
       \/ /\ j < 0 \/ Dependents(j) = {}
          /\ status' = [status EXCEPT ![j] = "finished"]
          /\ UNCHANGED <<queue, registry, waiting>>
    /\ worker' = [worker EXCEPT ![w] = Idle]
    /\ UNCHANGED <<next, planned, late, crashes>>

\* Mutant: dependents are released when the job fails, too.
FailJobReleases(w) ==
    LET j == worker[w].job IN
    /\ worker[w].pc = "fail"
    /\ j + 1 \in registry
    /\ status' = [status EXCEPT ![j] = "failed", ![j + 1] = "queued"]
    /\ queue' = Append(queue, j + 1)
    /\ registry' = registry \ {j + 1}
    /\ worker' = [worker EXCEPT ![w] = Idle]
    /\ UNCHANGED <<waiting, next, planned, late, crashes>>

\* RQ marks the job failed; its dependents stay deferred.
FailJob(w) ==
    /\ worker[w].pc = "fail"
    /\ status' = [status EXCEPT ![worker[w].job] = "failed"]
    /\ worker' = [worker EXCEPT ![w] = Idle]
    /\ UNCHANGED <<queue, registry, waiting, next, planned, late, crashes>>

KillWorker(w) ==
    /\ worker[w].pc # "idle"
    /\ crashes < MaxCrashes
    /\ crashes' = crashes + 1
    /\ worker' = [worker EXCEPT ![w] = Idle]
    /\ UNCHANGED <<rqVars, next, planned, late>>

WorkerStep(w) ==
    \/ Dequeue(w) \/ SaveSchedule(w) \/ ComputeInfeasible(w) \/ ComputeFails(w)
    \/ SuccessCallback(w) \/ FinishJob(w) \/ FailJob(w)

-----------------------------------------------------------------------------
\* RQ's registry maintenance fails a started job that nobody runs any more.
AbandonJob(j) ==
    /\ status[j] = "started"
    /\ \A w \in Workers : worker[w].job # j
    /\ status' = [status EXCEPT ![j] = "failed"]
    /\ UNCHANGED <<queue, registry, waiting, next, worker, planned, late,
                   crashes>>

\* flexmeasures jobs clear-queue --deferred: empties the registry, the jobs stay.
ClearDeferred ==
    /\ Clears
    /\ registry # {}
    /\ registry' = {}
    /\ UNCHANGED <<status, queue, waiting, next, worker, planned, late, crashes>>

\* The chain has come to rest, finished or not.
AtRest ==
    /\ next \notin Chain
    /\ queue = <<>>
    /\ \A w \in Workers : worker[w].pc = "idle"
    /\ \A j \in Jobs : status[j] # "started"
    /\ UNCHANGED vars

Next ==
    \/ EnqueueNext \/ RejectDevice \/ KillWeb \/ ClearDeferred \/ AtRest
    \/ \E w \in Workers : WorkerStep(w) \/ KillWorker(w)
    \/ \E j \in Jobs : AbandonJob(j)

Spec == Init /\ [][Next]_vars

\* A started request, working workers and registry maintenance carry on.
Fairness ==
    /\ WF_vars(EnqueueNext)
    /\ \A w \in Workers : WF_vars(WorkerStep(w))
    /\ \A j \in Jobs : WF_vars(AbandonJob(j))

FairSpec == Spec /\ Fairness

-----------------------------------------------------------------------------
Statuses == {"absent", "queued", "deferred", "started", "finished", "failed"}

WorkerState == [pc : {"idle", "compute", "callback", "finish", "fail"},
                job : Jobs \cup {0}]

\* The type invariant.
TypeOK ==
    /\ status \in [Jobs -> Statuses]
    /\ queue \in Seq(Jobs)
    /\ registry \subseteq Chain
    /\ waiting \subseteq Chain \ {1}
    /\ next \in 0 .. (WrapUp + 1)
    /\ worker \in [Workers -> WorkerState]
    /\ planned \subseteq Devices
    /\ late \in BOOLEAN
    /\ crashes \in Nat

\* The job has been given to the workers.
Released(j) == status[j] \notin {"absent", "deferred"}

\* A device is only scheduled once every device before it in the chain has a
\* schedule in the database, from its own job or from its fallback: the schedule
\* of a device takes the earlier ones as given, and a chain that lost a device
\* without a fallback goes no further.
InOrder ==
    \A j \in Jobs : Released(j) =>
        \A i \in Devices : i < Device(j) => i \in planned

\* The job that wraps up only finishes when every device has a schedule.
WrapUpIsComplete == status[WrapUp] = "finished" => planned = Devices

\* No job of the chain is in the queue twice, or in the queue and with a worker:
\* RQ and success_callback both release deferred jobs, but never the same one.
ReleasedOnce ==
    /\ \A i, k \in 1 .. Len(queue) : queue[i] = queue[k] => i = k
    /\ \A w \in Workers, i \in 1 .. Len(queue) : worker[w].job # queue[i]
    /\ \A v, w \in Workers :
         worker[v].job = worker[w].job /\ worker[v].job # 0 => v = w

\* A job that ran is never put back in front of the workers.
NeverRerun ==
    [][\A j \in Jobs : status[j] \in {"started", "finished", "failed"} =>
         status'[j] \notin {"queued", "deferred"}]_vars

\* Something the chain is not built to survive has happened: a device failed and
\* its fallback, if any, did not finish, the request ended halfway, the deferred
\* registry was cleared, or a job was deferred after the fallback that was to
\* release it had been started.
Spoiled ==
    \/ late
    \/ next = 0
    \/ status[WrapUp] = "failed"
    \/ \E k \in Devices : status[k] = "failed" /\ status[-k] \in {"absent", "failed"}
    \/ \E k \in waiting : status[k] = "deferred" /\ k \notin registry

\* Otherwise the whole chain is carried out to the end, through any number of
\* fallbacks.
ChainCompletes == <>(status[WrapUp] = "finished" \/ Spoiled)

\* What success_callback is commented to do: when a fallback job has finished and
\* the chain is created, the job that waits for the original is no longer deferred.
FallbackReleases ==
    \A k \in Devices :
        status[-k] = "finished" /\ next = WrapUp + 1 ~>
            status[k + 1] # "deferred"

=============================================================================
