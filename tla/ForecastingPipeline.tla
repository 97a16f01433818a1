------------------------- MODULE ForecastingPipeline -------------------------
(***************************************************************************)
(* A forecasting request carried out as jobs (TrainPredictPipeline.run     *)
(* with as_job): the schema resolves the timing parameters, the web        *)
(* process lays out train-predict cycles and enqueues a job for each, and  *)
(* a job that depends on all of them wraps up. Workers run the cycles in   *)
(* any order, each saving the forecasts of all its viewpoints, while       *)
(* clients poll GET /sensors/<id>/forecasts/<uuid>.                        *)
(*                                                                         *)
(* Time is counted from predict_start, which is 0. Forecasts are for one   *)
(* sensor and from one data source. Job k > 0 runs cycle k; job 0 wraps up.*)
(***************************************************************************)
EXTENDS Integers, Sequences

CONSTANTS
    Hour,           \* units of time in an hour
    Requests,       \* the triggers a client may send
    Workers,        \* RQ workers on the forecasting queue
    Expires,        \* whether FLEXMEASURES_JOB_TTL or _PLANNING_TTL may run out
    MaxCycles,      \* bound: cycles of a request
    MaxCrashes      \* bound: processes killed in a behaviour

\* A timing parameter the client leaves out.
Unset == 0

\* The sensor's resolution and the timing parameters: the end of the period, given
\* as such or by a duration, and the durations that may be left out. The
\* retrain-frequency defaults to the planning horizon and is at least an hour.
RequestType ==
    [resolution : Nat \ {0}, end : Nat \ {0}, byDuration : BOOLEAN,
     horizon : Nat, frequency : Nat, retrain : Nat \ {0}]

ASSUME ForecastAssumption ==
    /\ Hour \in Nat \ {0}
    /\ Requests \subseteq RequestType
    /\ Expires \in BOOLEAN
    /\ MaxCycles \in Nat
    /\ MaxCrashes \in Nat

WrapUp == 0
Jobs   == 0 .. MaxCycles

VARIABLES
    request,    \* the request being carried out
    web,        \* control state of the web process
    cursor,     \* train_end, predict_start and predict_end in the loop of run
    cycles,     \* cycles_job_params: the windows laid out so far
    enqueued,   \* number of cycle jobs handed to RQ
    status,     \* status of each job
    queue,      \* the list rq:queue:forecasting
    worker,     \* control state of each worker
    saved,      \* cycles whose forecasts are in the database
    refused,    \* history: cycles whose forecasts the database refused
    crashes     \* number of processes killed so far

rqVars  == <<status, queue>>
webVars == <<request, web, cursor, cycles, enqueued>>
vars == <<webVars, rqVars, worker, saved, refused, crashes>>

-----------------------------------------------------------------------------
(* Timing parameters: ForecasterParametersSchema.resolve_config.           *)

Smaller(a, b) == IF a < b THEN a ELSE b
Larger(a, b)  == IF a > b THEN a ELSE b

\* The combinations that are answered with 422.
Rejected(r) ==
    \/ r.horizon % r.resolution # 0
    \/ r.frequency % r.resolution # 0
    \/ r.byDuration /\ r.horizon # Unset /\ r.horizon < r.end
    \/ r.horizon > r.end

\* max_forecast_horizon
Horizon(r) == IF r.horizon = Unset THEN r.end ELSE r.horizon

\* predict_period: cut down to an explicit horizon, unless the frequency is
\* explicit, too.
Period(r) == IF r.frequency = Unset THEN Horizon(r) ELSE r.end

\* forecast_frequency
Frequency(r) ==
    IF r.frequency = Unset THEN Smaller(Horizon(r), Period(r)) ELSE r.frequency

\* predict_period_in_hours
Hours(r) == Period(r) \div Hour

-----------------------------------------------------------------------------
(* Cycles: TrainPredictPipeline.run and run_cycle.                         *)

CycleFrequency(r) == Larger(r.retrain, Frequency(r))

\* Mutant: a cycle for a rest of the period, too.
NCyclesUp(r) == Larger((Hours(r) * Hour) \div CycleFrequency(r) + 1, 1)

NCycles(r) == Larger((Hours(r) * Hour) \div CycleFrequency(r), 1)

\* Mutant: each cycle predicts for the length of its own window.
StepsOfCycle(r) == Smaller(CycleFrequency(r), Hours(r) * Hour) \div r.resolution

\* n_steps_to_predict: each cycle predicts for the length of the whole period.
Steps(r) == Hours(r) * (Hour \div r.resolution)

FrequencySteps(r) == Frequency(r) \div r.resolution
HorizonSteps(r)   == Horizon(r) \div r.resolution

\* Otherwise there are no viewpoints to split the data by, and prediction raises.
Feasible(r) == Steps(r) > 0 /\ FrequencySteps(r) > 0 /\ HorizonSteps(r) > 0

\* range(0, n_steps_to_predict, forecast_frequency)
Viewpoints(r) == {i \in 0 .. (Steps(r) - 1) : i % FrequencySteps(r) = 0}

\* Mutant: the step at the horizon is not predicted.
ForecastsShort(r, c) ==
    {<<c.start + (i + h) * r.resolution, i>> :
        i \in Viewpoints(r), h \in 0 .. (HorizonSteps(r) - 2)}

\* The beliefs a cycle with window c saves: the start of the event, and the belief
\* time, which counts from the save_belief_time of the request in every cycle.
Forecasts(r, c) ==
    {<<c.start + (i + h) * r.resolution, i>> :
        i \in Viewpoints(r), h \in 0 .. (HorizonSteps(r) - 1)}

\* Saving replaces a belief another cycle saved, which the database refuses.
Collides(k) ==
    \E j \in saved :
        Forecasts(request, cycles[j]) \cap Forecasts(request, cycles[k]) # {}

-----------------------------------------------------------------------------
Idle == [pc |-> "idle", job |-> 0]

\* predict_end is one cycle beyond predict_start; training ends where prediction
\* starts. (The start of the training window is left out.)
FirstCursor(r) == [trainEnd |-> 0, start |-> 0, end |-> CycleFrequency(r)]

Init ==
    /\ request \in Requests
    /\ web = "resolve"
    /\ cursor = FirstCursor(request)
    /\ cycles = <<>>
    /\ enqueued = 0
    /\ status = [j \in Jobs |-> "absent"]
    /\ queue = <<>>
    /\ worker = [w \in Workers |-> Idle]
    /\ saved = {}
    /\ refused = {}
    /\ crashes = 0

-----------------------------------------------------------------------------
(* The web process.                                                        *)

\* The request's parameters are validated. (MaxCycles bounds the requests.)
Resolve ==
    /\ web = "resolve"
    /\ \/ Rejected(request) /\ web' = "rejected"
       \/ ~Rejected(request) /\ NCycles(request) <= MaxCycles /\ web' = "plan"
    /\ UNCHANGED <<request, cursor, cycles, enqueued, rqVars, worker, saved,
                   refused, crashes>>

\* Mutant: predict_start is not moved along.
PlanCycleInPlace ==
    LET end == Smaller(cursor.end, request.end)
        cf  == CycleFrequency(request)
    IN  /\ web = "plan"
        /\ Len(cycles) < NCycles(request)
        /\ cycles' = Append(cycles, [trainEnd |-> cursor.trainEnd,
                                     start |-> cursor.start, end |-> end])
        /\ cursor' = [cursor EXCEPT !.trainEnd = @ + cf, !.end = end + cf]
        /\ UNCHANGED <<request, web, enqueued, rqVars, worker, saved, refused,
                       crashes>>

\* One turn of the loop over n_cycles.
PlanCycle ==
    LET end == Smaller(cursor.end, request.end)
        cf  == CycleFrequency(request)
    IN  /\ web = "plan"
        /\ Len(cycles) < NCycles(request)
        /\ cycles' = Append(cycles, [trainEnd |-> cursor.trainEnd,
                                     start |-> cursor.start, end |-> end])
        /\ cursor' = [trainEnd |-> cursor.trainEnd + cf,
                      start |-> cursor.start + cf, end |-> end + cf]
        /\ UNCHANGED <<request, web, enqueued, rqVars, worker, saved, refused,
                       crashes>>

\* The loop ends; the data source is committed before any job may look for it.
CommitSource ==
    /\ web = "plan"
    /\ Len(cycles) = NCycles(request)
    /\ web' = "enqueue"
    /\ UNCHANGED <<request, cursor, cycles, enqueued, rqVars, worker, saved,
                   refused, crashes>>

\* Queue.enqueue_job for the next cycle.
EnqueueCycle ==
    LET k == enqueued + 1 IN
    /\ web = "enqueue"
    /\ enqueued < Len(cycles)
    /\ enqueued' = k
    /\ status' = [status EXCEPT ![k] = "queued"]
    /\ queue' = Append(queue, k)
    /\ UNCHANGED <<request, web, cursor, cycles, worker, saved, refused, crashes>>

\* RQ holds a job back for the cycles in S that still exist and have not finished.
Unmet(S) == {k \in S : status[k] \notin {"finished", "gone"}}

\* The wrap-up job depends on every cycle; the client gets a job id.
EnqueueWrapUp ==
    /\ web = "enqueue"
    /\ enqueued = Len(cycles)
    /\ web' = "answered"
    /\ \/ /\ Unmet(1 .. enqueued) = {}
          /\ status' = [status EXCEPT ![WrapUp] = "queued"]
          /\ queue' = Append(queue, WrapUp)
       \/ /\ Unmet(1 .. enqueued) # {}
          /\ status' = [status EXCEPT ![WrapUp] = "deferred"]
          /\ UNCHANGED queue
    /\ UNCHANGED <<request, cursor, cycles, enqueued, worker, saved, refused,
                   crashes>>

KillWeb ==
    /\ web \in {"plan", "enqueue"}
    /\ crashes < MaxCrashes
    /\ crashes' = crashes + 1
    /\ web' = "dead"
    /\ UNCHANGED <<request, cursor, cycles, enqueued, rqVars, worker, saved,
                   refused>>

-----------------------------------------------------------------------------
(* Workers.                                                                *)

Move(w, label) == worker' = [worker EXCEPT ![w].pc = label]

\* RQ passes over a job that expired in the queue.
Dequeue(w) ==
    /\ worker[w].pc = "idle"
    /\ queue # <<>>
    /\ queue' = Tail(queue)
    /\ \/ status[Head(queue)] = "gone" /\ UNCHANGED <<status, worker>>
       \/ /\ status[Head(queue)] = "queued"
          /\ status' = [status EXCEPT ![Head(queue)] = "started"]
          /\ worker' = [worker EXCEPT ![w] = [pc |-> "compute", job |-> Head(queue)]]
    /\ UNCHANGED <<webVars, saved, refused, crashes>>

\* Mutant: the forecasts saved before are thrown away.
SaveForecastsAnew(w) ==
    LET k == worker[w].job IN
    /\ worker[w].pc = "compute" /\ k # WrapUp
    /\ Feasible(request)
    /\ saved' = {k}
    /\ Move(w, "finish")
    /\ UNCHANGED <<webVars, rqVars, refused, crashes>>

\* run_cycle: the model is trained and the forecasts of all viewpoints are saved
\* in one transaction.
SaveForecasts(w) ==
    LET k == worker[w].job IN
    /\ worker[w].pc = "compute" /\ k # WrapUp
    /\ Feasible(request)
    /\ ~Collides(k)
    /\ saved' = saved \cup {k}
    /\ Move(w, "finish")
    /\ UNCHANGED <<webVars, rqVars, refused, crashes>>

\* The insert raises an IntegrityError, and nothing of the cycle is saved.
RefuseForecasts(w) ==
    LET k == worker[w].job IN
    /\ worker[w].pc = "compute" /\ k # WrapUp
    /\ Feasible(request)
    /\ Collides(k)
    /\ refused' = refused \cup {k}
    /\ Move(w, "fail")
    /\ UNCHANGED <<webVars, rqVars, saved, crashes>>

\* Too little data, a time-out, or no viewpoints.
ComputeFails(w) ==
    /\ worker[w].pc = "compute" /\ worker[w].job # WrapUp
    /\ Move(w, "fail")
    /\ UNCHANGED <<webVars, rqVars, saved, refused, crashes>>

\* run_train_predict_wrap_up_job: Job.fetch raises if a cycle's job is gone.
RunWrapUp(w) ==
    /\ worker[w].pc = "compute" /\ worker[w].job = WrapUp
    /\ \/ /\ \A k \in 1 .. enqueued : status[k] # "gone"
          /\ Move(w, "finish")
       \/ /\ \E k \in 1 .. enqueued : status[k] = "gone"
          /\ Move(w, "fail")
    /\ UNCHANGED <<webVars, rqVars, saved, refused, crashes>>

\* Mutant: the wrap-up job is released as soon as one cycle has finished.
FinishJobAny(w) ==
    LET j == worker[w].job
        releases == status[WrapUp] = "deferred"
    IN  /\ worker[w].pc = "finish"
        /\ status' = [status EXCEPT ![j] = "finished",
                                    ![WrapUp] = IF releases THEN "queued" ELSE @]
        /\ queue' = IF releases THEN Append(queue, WrapUp) ELSE queue
        /\ worker' = [worker EXCEPT ![w] = Idle]
        /\ UNCHANGED <<webVars, saved, refused, crashes>>

\* Mutant: the dependents are looked at before the job is marked finished.
FinishJobLate(w) ==
    LET j == worker[w].job
        releases == status[WrapUp] = "deferred" /\ Unmet(1 .. enqueued) = {}
    IN  /\ worker[w].pc = "finish"
        /\ status' = [status EXCEPT ![j] = "finished",
                                    ![WrapUp] = IF releases THEN "queued" ELSE @]
        /\ queue' = IF releases THEN Append(queue, WrapUp) ELSE queue
        /\ worker' = [worker EXCEPT ![w] = Idle]
        /\ UNCHANGED <<webVars, saved, refused, crashes>>

\* RQ marks the job finished, and enqueues the wrap-up job if it waits for no
\* other cycle, in one transaction.
FinishJob(w) ==
    LET j == worker[w].job
        releases == status[WrapUp] = "deferred" /\ Unmet(1 .. enqueued) = {j}
    IN  /\ worker[w].pc = "finish"
        /\ \/ /\ releases
              /\ status' = [status EXCEPT ![j] = "finished", ![WrapUp] = "queued"]
              /\ queue' = Append(queue, WrapUp)
           \/ /\ ~releases
              /\ status' = [status EXCEPT ![j] = "finished"]
              /\ UNCHANGED queue
        /\ worker' = [worker EXCEPT ![w] = Idle]
        /\ UNCHANGED <<webVars, saved, refused, crashes>>

\* RQ marks the job failed, and handle_forecasting_exception notes the exception
\* in its meta data; the wrap-up job stays deferred.
FailJob(w) ==
    /\ worker[w].pc = "fail"
    /\ status' = [status EXCEPT ![worker[w].job] = "failed"]
    /\ worker' = [worker EXCEPT ![w] = Idle]
    /\ UNCHANGED <<webVars, queue, saved, refused, crashes>>

KillWorker(w) ==
    /\ worker[w].pc # "idle"
    /\ crashes < MaxCrashes
    /\ crashes' = crashes + 1
    /\ worker' = [worker EXCEPT ![w] = Idle]
    /\ UNCHANGED <<webVars, rqVars, saved, refused>>

WorkerStep(w) ==
    \/ Dequeue(w) \/ SaveForecasts(w) \/ RefuseForecasts(w) \/ ComputeFails(w)
    \/ RunWrapUp(w) \/ FinishJob(w) \/ FailJob(w)

-----------------------------------------------------------------------------
\* Some worker has the job in hand.
InHand(j) == \E w \in Workers : worker[w].pc # "idle" /\ worker[w].job = j

\* RQ's registry maintenance fails a started job that nobody runs any more.
AbandonJob(j) ==
    /\ status[j] = "started"
    /\ ~InHand(j)
    /\ status' = [status EXCEPT ![j] = "failed"]
    /\ UNCHANGED <<webVars, queue, worker, saved, refused, crashes>>

\* FLEXMEASURES_JOB_TTL runs out for a job that waits, _PLANNING_TTL for the
\* result of one that finished: Redis deletes it.
Expire(j) ==
    /\ Expires
    /\ status[j] \in {"queued", "deferred", "finished"}
    /\ status' = [status EXCEPT ![j] = "gone"]
    /\ UNCHANGED <<webVars, queue, worker, saved, refused, crashes>>

\* The request has come to rest, carried out or not.
AtRest ==
    /\ web \in {"answered", "rejected", "dead"}
    /\ queue = <<>>
    /\ \A w \in Workers : worker[w].pc = "idle"
    /\ \A j \in Jobs : status[j] # "started"
    /\ UNCHANGED vars

WebStep == Resolve \/ PlanCycle \/ CommitSource \/ EnqueueCycle \/ EnqueueWrapUp

Next ==
    \/ WebStep \/ KillWeb \/ AtRest
    \/ \E w \in Workers : WorkerStep(w) \/ KillWorker(w)
    \/ \E j \in Jobs : AbandonJob(j) \/ Expire(j)

Spec == Init /\ [][Next]_vars

\* A request that is let in, working workers and registry maintenance carry on.
Fairness ==
    /\ WF_vars(WebStep)
    /\ \A w \in Workers : WF_vars(WorkerStep(w))
    /\ \A j \in Jobs : WF_vars(AbandonJob(j))

FairSpec == Spec /\ Fairness

-----------------------------------------------------------------------------
(* GET /sensors/<id>/forecasts/<uuid>.                                     *)

\* The job id the client was given.
AnsweredId == IF Len(cycles) > 1 THEN WrapUp ELSE 1

\* The beliefs in the database.
Beliefs == UNION {Forecasts(request, cycles[k]) : k \in saved}

\* search_beliefs for the period in the job's meta data, which every job of the
\* request shares.
Events == {b[1] : b \in {c \in Beliefs : c[1] + request.resolution <= request.end}}

\* get_forecast: what a client that asks for job j is told. The wrap-up job has
\* dependencies, and is answered with their ids whatever its status.
Answer(j) ==
    CASE status[j] \in {"absent", "gone"} -> [code |-> "not found", of |-> {}]
      [] status[j] \notin {"absent", "gone"} /\ j = WrapUp ->
             [code |-> "jobs", of |-> 1 .. enqueued]
      [] status[j] = "finished" /\ j # WrapUp ->
             [code |-> IF Events = {} THEN "unknown forecast" ELSE "values", of |-> Events]
      [] status[j] = "failed" /\ j # WrapUp -> [code |-> "failed", of |-> {}]
      [] OTHER -> [code |-> "pending", of |-> {}]

-----------------------------------------------------------------------------
Statuses ==
    {"absent", "queued", "deferred", "started", "finished", "failed", "gone"}

WebStates == {"resolve", "plan", "enqueue", "answered", "rejected", "dead"}

WorkerState == [pc : {"idle", "compute", "finish", "fail"}, job : Jobs]

Window == [trainEnd : Nat, start : Nat, end : Nat]

\* The type invariant.
TypeOK ==
    /\ request \in Requests
    /\ web \in WebStates
    /\ cursor \in Window
    /\ cycles \in Seq(Window)
    /\ Len(cycles) <= MaxCycles
    /\ enqueued \in 0 .. Len(cycles)
    /\ status \in [Jobs -> Statuses]
    /\ queue \in Seq(Jobs)
    /\ worker \in [Workers -> WorkerState]
    /\ saved \subseteq 1 .. Len(cycles)
    /\ refused \subseteq 1 .. Len(cycles)
    /\ crashes \in Nat

\* The windows of the cycles follow each other without a gap or an overlap from
\* the start of the period, are never empty and do not run past its end, and no
\* model is trained on data from the window it predicts.
WindowsTile ==
    \A k \in 1 .. Len(cycles) :
        /\ cycles[k].trainEnd = cycles[k].start
        /\ cycles[k].start = (IF k = 1 THEN 0 ELSE cycles[k - 1].end)
        /\ cycles[k].start < cycles[k].end
        /\ cycles[k].end <= request.end

\* The database refuses the forecasts of a cycle only if the client asked for a
\* horizon longer than the time between cycles, so that the forecasts of the first
\* viewpoint of a cycle run into those of the next one.
RefusedForOverlap == refused # {} => Horizon(request) > CycleFrequency(request)

\* The wrap-up job finishes only when the forecasts of every cycle are in the
\* database, even if jobs expire or are abandoned meanwhile.
WrapUpIsComplete ==
    status[WrapUp] = "finished" => saved = 1 .. NCycles(request)

\* Forecasts are given as a start, a duration and a list of values, so the events
\* must be contiguous. They are, whichever cycles have been saved so far, and
\* include the window of every cycle that has finished, unless the client asked
\* for viewpoints further apart than the horizon, or for cycles that start off the
\* sensor's resolution, or an hour is not a whole number of the sensor's steps: the
\* steps to predict are counted by the hour, and rounded down.
AnswersWhole ==
    LET res == request.resolution
        last(c) == Smaller(c.end, c.start + Hours(request) * Hour)
        Foreseen(c) == {c.start + i * res : i \in 0 .. ((last(c) - c.start) \div res - 1)}
    IN  /\ Frequency(request) <= Horizon(request)
        /\ CycleFrequency(request) % res = 0
        /\ Hour % res = 0
        =>
            /\ \A d, e \in Events : d < e => d + res \in Events
            /\ \A k \in 1 .. enqueued :
                 status[k] = "finished" => Foreseen(cycles[k]) \subseteq Events

\* Once a client has been given forecasts for a job, it is not given fewer when it
\* asks again, until the job expires.
AnswersGrow ==
    [][\A j \in Jobs : Answer(j).code = "values" =>
         \/ Answer(j)'.code = "values" /\ Answer(j).of \subseteq Answer(j)'.of
         \/ Answer(j)'.code = "not found"]_vars

\* Something a request is not built to survive has happened to one of its cycles.
Spoiled == \E k \in 1 .. enqueued : status[k] \in {"failed", "gone"}

\* A request that is accepted is carried out to the end, the wrap-up job included,
\* unless one of its cycles failed or expired.
RunSettles ==
    web = "answered" ~> (status[WrapUp] \in {"finished", "failed", "gone"} \/ Spoiled)

\* What the documentation says of cycles: once all have been carried out, the most
\* recent forecast of an event is based on the data up to the cycle it belongs to.
LatestFromOwnCycle ==
    status[WrapUp] = "finished" =>
        \A k \in 1 .. Len(cycles), e \in Events :
            cycles[k].start <= e /\ e < cycles[k].end =>
                \E b \in Forecasts(request, cycles[k]) :
                    b[1] = e /\ \A c \in Beliefs : c[1] = e => c[2] <= b[2]

=============================================================================
