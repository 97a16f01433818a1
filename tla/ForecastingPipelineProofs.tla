---------------------- MODULE ForecastingPipelineProofs ----------------------
(***************************************************************************)
(* Proofs about ForecastingPipeline, for any set of requests, any number   *)
(* of cycles and workers, expiring jobs and processes killed at any time.  *)
(***************************************************************************)
EXTENDS ForecastingPipeline, TLAPS

\* Multiples of a frequency that fit into a period fit into it one by one.
LEMMA Multiples ==
  ASSUME NEW a \in Nat, NEW b \in Nat \ {0}, NEW k \in Nat, k <= a \div b
  PROVE  k * b <= a
<1>1. a \div b \in Nat /\ b * (a \div b) <= a
  OBVIOUS
<1>2. k * b <= (a \div b) * b
  BY <1>1
<1> QED
  BY <1>1, <1>2

\* What every request's timing parameters come down to.
LEMMA Timing ==
  ASSUME NEW r \in Requests
  PROVE  /\ r.end \in Nat \ {0} /\ r.resolution \in Nat \ {0}
         /\ Horizon(r) \in Nat /\ Period(r) \in Nat /\ Frequency(r) \in Nat
         /\ Hours(r) \in Nat /\ Hours(r) * Hour \in Nat
         /\ Hours(r) * Hour <= Period(r)
         /\ CycleFrequency(r) \in Nat \ {0}
         /\ NCycles(r) \in Nat \ {0}
<1>1. /\ r.end \in Nat \ {0} /\ r.resolution \in Nat \ {0} /\ r.horizon \in Nat
      /\ r.frequency \in Nat /\ r.retrain \in Nat \ {0} /\ Hour \in Nat \ {0}
  BY ForecastAssumption DEF RequestType
<1>2. Horizon(r) \in Nat /\ Period(r) \in Nat
  BY <1>1 DEF Horizon, Period, Unset
<1>3. Frequency(r) \in Nat
  BY <1>1, <1>2 DEF Frequency, Smaller, Unset
<1>4. Hours(r) \in Nat /\ Hours(r) * Hour <= Period(r)
  BY <1>1, <1>2 DEF Hours
<1>5. Hours(r) * Hour \in Nat
  BY <1>1, <1>4
<1>6. CycleFrequency(r) \in Nat \ {0}
  BY <1>1, <1>3 DEF CycleFrequency, Larger
<1>7. (Hours(r) * Hour) \div CycleFrequency(r) \in Nat
  BY <1>5, <1>6
<1>8. NCycles(r) \in Nat \ {0}
  BY <1>7 DEF NCycles, Larger
<1> QED
  BY <1>1, <1>2, <1>3, <1>4, <1>5, <1>6, <1>8

\* The cycles of a request that is let in start within its period, and if there
\* are several they end within it, too.
LEMMA CyclesFit ==
  ASSUME NEW r \in Requests, ~Rejected(r), NEW k \in 1 .. NCycles(r)
  PROVE  /\ (k - 1) * CycleFrequency(r) \in Nat
         /\ (k - 1) * CycleFrequency(r) < r.end
         /\ k * CycleFrequency(r) = (k - 1) * CycleFrequency(r) + CycleFrequency(r)
         /\ k * CycleFrequency(r) \in Nat \ {0}
         /\ NCycles(r) # 1 => k * CycleFrequency(r) <= Hours(r) * Hour
         /\ NCycles(r) # 1 => k * CycleFrequency(r) <= r.end
<1> DEFINE cf == CycleFrequency(r)
           length == Hours(r) * Hour
<1>1. cf \in Nat \ {0} /\ length \in Nat /\ r.end \in Nat \ {0} /\ NCycles(r) \in Nat
  BY Timing
<1>2. length <= r.end
  <2>1. Horizon(r) <= r.end
    BY Timing, ForecastAssumption DEF Rejected, Horizon, RequestType, Unset
  <2>2. Period(r) <= r.end
    BY <2>1, Timing DEF Period
  <2> QED
    BY <2>2, Timing
<1>3. NCycles(r) = IF length \div cf > 1 THEN length \div cf ELSE 1
  BY DEF NCycles, Larger
<1> HIDE DEF cf, length
<1>4. k \in Nat \ {0} /\ k <= NCycles(r)
  BY <1>1
<1>5. NCycles(r) # 1 => k * cf <= length
  <2> SUFFICES ASSUME NCycles(r) # 1 PROVE k * cf <= length
    OBVIOUS
  <2>1. k <= length \div cf
    BY <1>1, <1>3, <1>4
  <2> QED
    BY <1>1, <1>4, <2>1, Multiples
<1>6. k * cf = (k - 1) * cf + cf /\ (k - 1) * cf \in Nat /\ k * cf \in Nat \ {0}
  BY <1>1, <1>4
<1>7. (k - 1) * cf < r.end
  <2>1. CASE NCycles(r) = 1
    <3>1. k = 1
      BY <1>4, <2>1
    <3> QED
      BY <1>1, <3>1
  <2>2. CASE NCycles(r) # 1
    BY <1>1, <1>2, <1>5, <1>6, <2>2
  <2> QED
    BY <2>1, <2>2
<1> QED
  BY <1>1, <1>2, <1>5, <1>6, <1>7 DEF cf, length

-----------------------------------------------------------------------------
\* How far the web process is.
PlanInv ==
    /\ web \in {"resolve", "rejected"} => cycles = <<>>
    /\ web \notin {"resolve", "rejected"} =>
         ~Rejected(request) /\ NCycles(request) <= MaxCycles
    /\ web \in {"resolve", "rejected", "plan"} => enqueued = 0
    /\ Len(cycles) <= NCycles(request)
    /\ web \in {"enqueue", "answered"} => Len(cycles) = NCycles(request)
    /\ web = "answered" => enqueued = Len(cycles)

\* Where the cycles laid out so far lie, and where the next one will.
WindowInv ==
    LET cf == CycleFrequency(request)
        n  == Len(cycles)
    IN  /\ cursor.trainEnd = n * cf
        /\ cursor.start = n * cf
        /\ n < NCycles(request) => cursor.end = (n + 1) * cf
        /\ \A k \in 1 .. n :
             /\ cycles[k].trainEnd = (k - 1) * cf
             /\ cycles[k].start = (k - 1) * cf
             /\ cycles[k].end = Smaller(k * cf, request.end)

\* Which jobs there are, and who works on them.
JobInv ==
    /\ \A j \in Jobs : j > enqueued => status[j] = "absent"
    /\ status[WrapUp] # "absent" => web = "answered"
    /\ \A w \in Workers : worker[w].pc # "idle" => status[worker[w].job] = "started"
    /\ \A v, w \in Workers :
         worker[v].pc # "idle" /\ worker[w].pc # "idle"
         /\ worker[v].job = worker[w].job => v = w

\* How the forecasts in the database relate to the jobs.
SavedInv ==
    /\ \A k \in saved : status[k] \notin {"absent", "queued", "deferred"}
    /\ \A w \in Workers : worker[w].pc = "compute" => worker[w].job \notin saved
    /\ \A w \in Workers :
         worker[w].pc = "finish" /\ worker[w].job # WrapUp => worker[w].job \in saved
    /\ \A k \in Jobs : k # WrapUp /\ status[k] = "finished" => k \in saved

\* Why the wrap-up job may be worked on.
WrapInv ==
    /\ status[WrapUp] \in {"queued", "started"} =>
         \A k \in 1 .. enqueued : status[k] \in {"finished", "gone"}
    /\ \A w \in Workers :
         worker[w].pc = "finish" /\ worker[w].job = WrapUp =>
             saved = 1 .. NCycles(request)
    /\ WrapUpIsComplete

-----------------------------------------------------------------------------
\* A worker goes on to its next step with the same job.
LEMMA WorkerMove ==
  ASSUME worker \in [Workers -> WorkerState], NEW w \in Workers,
         NEW l \in {"finish", "fail"}, Move(w, l)
  PROVE  /\ worker' \in [Workers -> WorkerState]
         /\ worker'[w].pc = l /\ worker'[w].job = worker[w].job
         /\ \A v \in Workers \ {w} : worker'[v] = worker[v]
BY DEF WorkerState, Move

\* A worker becomes idle.
LEMMA WorkerStops ==
  ASSUME worker \in [Workers -> WorkerState], NEW w \in Workers,
         worker' = [worker EXCEPT ![w] = Idle]
  PROVE  /\ worker' \in [Workers -> WorkerState]
         /\ worker'[w].pc = "idle"
         /\ \A v \in Workers \ {w} : worker'[v] = worker[v]
<1>1. Idle \in WorkerState /\ Idle.pc = "idle"
  BY ForecastAssumption DEF Idle, WorkerState, Jobs
<1> QED
  BY <1>1

\* A worker takes a job from the queue.
LEMMA WorkerTakes ==
  ASSUME worker \in [Workers -> WorkerState], NEW w \in Workers, NEW j \in Jobs,
         worker' = [worker EXCEPT ![w] = [pc |-> "compute", job |-> j]]
  PROVE  /\ worker' \in [Workers -> WorkerState]
         /\ worker'[w].pc = "compute" /\ worker'[w].job = j
         /\ \A v \in Workers \ {w} : worker'[v] = worker[v]
<1>1. [pc |-> "compute", job |-> j] \in WorkerState
  BY DEF WorkerState
<1> QED
  BY <1>1

\* Jobs are numbered from 0, the wrap-up job.
LEMMA JobNumbers ==
  /\ WrapUp = 0 /\ WrapUp \in Jobs /\ MaxCycles \in Nat
  /\ \A j \in Jobs : j \in Nat /\ j <= MaxCycles
  /\ \A j \in Nat : j <= MaxCycles => j \in Jobs
BY ForecastAssumption DEF WrapUp, Jobs

Inv0 == TypeOK /\ PlanInv /\ JobInv

LEMMA Inv0Init == Init => Inv0
<1> SUFFICES ASSUME Init PROVE Inv0
  OBVIOUS
<1>1. request \in Requests /\ cursor = FirstCursor(request)
  BY DEF Init
<1>2. cursor \in Window
  BY <1>1, Timing DEF FirstCursor, Window
<1>3. Idle \in WorkerState /\ Idle.pc = "idle"
  BY JobNumbers DEF Idle, WorkerState
<1>4. NCycles(request) \in Nat
  BY <1>1, Timing
<1>5. TypeOK
  BY <1>2, <1>3, JobNumbers DEF Init, TypeOK, Statuses, WebStates
<1>6. PlanInv
  BY <1>4 DEF Init, PlanInv
<1>7. JobInv
  BY <1>3, JobNumbers DEF Init, JobInv
<1> QED
  BY <1>5, <1>6, <1>7 DEF Inv0

\* The steps of the web process.
LEMMA WebKeeps == Inv0 /\ (WebStep \/ KillWeb) => Inv0'
<1> SUFFICES ASSUME Inv0, WebStep \/ KillWeb PROVE Inv0'
  OBVIOUS
<1> USE DEF Inv0
<1>1. /\ request \in Requests /\ NCycles(request) \in Nat \ {0}
      /\ CycleFrequency(request) \in Nat \ {0} /\ request.end \in Nat \ {0}
  BY Timing DEF TypeOK
<1>2. CASE Resolve
  <2>1. TypeOK'
    BY <1>2 DEF Resolve, TypeOK, WebStates, rqVars
  <2>2. PlanInv'
    BY <1>2 DEF Resolve, PlanInv
  <2>3. JobInv'
    BY <1>2 DEF Resolve, JobInv, rqVars
  <2> QED
    BY <2>1, <2>2, <2>3
<1>3. CASE PlanCycle
  <2> DEFINE c == [trainEnd |-> cursor.trainEnd, start |-> cursor.start,
                   end |-> Smaller(cursor.end, request.end)]
  <2>1. Smaller(cursor.end, request.end) \in Nat
    BY <1>1 DEF TypeOK, Window, Smaller
  <2>2. c \in Window
    BY <2>1 DEF TypeOK, Window
  <2>3. cursor' \in Window
    BY SMTT(30), <1>1, <1>3, <2>1 DEF PlanCycle, TypeOK, Window
  <2>4. cycles' = Append(cycles, c)
    BY <1>3 DEF PlanCycle
  <2> HIDE DEF c
  <2>5. cycles' \in Seq(Window) /\ Len(cycles') = Len(cycles) + 1
    BY <2>2, <2>4 DEF TypeOK
  <2>6. Len(cycles') <= NCycles(request) /\ NCycles(request) <= MaxCycles
    BY <1>1, <1>3, <2>5 DEF PlanCycle, PlanInv, TypeOK
  <2>7. TypeOK'
    BY <1>1, <1>3, <2>3, <2>5, <2>6, JobNumbers DEF PlanCycle, TypeOK, rqVars
  <2>8. PlanInv'
    BY <1>1, <1>3, <2>5, <2>6 DEF PlanCycle, PlanInv
  <2>9. JobInv'
    BY <1>3 DEF PlanCycle, JobInv, rqVars
  <2> QED
    BY <2>7, <2>8, <2>9
<1>4. CASE CommitSource
  <2>1. TypeOK'
    BY <1>4 DEF CommitSource, TypeOK, WebStates, rqVars
  <2>2. PlanInv'
    BY <1>4 DEF CommitSource, PlanInv
  <2>3. JobInv'
    BY <1>4 DEF CommitSource, JobInv, rqVars
  <2> QED
    BY <2>1, <2>2, <2>3
<1>5. CASE EnqueueCycle
  <2> DEFINE k == enqueued + 1
  <2>1. k \in Jobs /\ k # WrapUp /\ k <= Len(cycles) /\ k \in Nat /\ enqueued \in Nat
    BY <1>5, JobNumbers DEF EnqueueCycle, TypeOK
  <2>2. status[k] = "absent"
    BY <2>1 DEF JobInv
  <2>3. /\ status' = [status EXCEPT ![k] = "queued"]
        /\ queue' = Append(queue, k)
        /\ enqueued' = k
        /\ web = "enqueue"
        /\ UNCHANGED <<request, web, cursor, cycles, worker, saved, refused, crashes>>
    BY <1>5 DEF EnqueueCycle
  <2> HIDE DEF k
  <2>4. TypeOK'
    BY <2>1, <2>3 DEF TypeOK, Statuses
  <2>5. PlanInv'
    BY <2>1, <2>3 DEF PlanInv
  <2>6. \A j \in Jobs : j # k => status'[j] = status[j]
    BY <2>3 DEF TypeOK
  <2>7. \A j \in Jobs : j > k => j > enqueued
    BY <2>1, JobNumbers DEF k
  <2>8. \A w \in Workers : worker[w].job \in Jobs
    BY DEF TypeOK, WorkerState
  <2>9. JobInv'
    BY <2>1, <2>2, <2>3, <2>6, <2>7, <2>8, JobNumbers DEF JobInv, TypeOK
  <2> QED
    BY <2>4, <2>5, <2>9
<1>6. CASE EnqueueWrapUp
  <2>1. PICK s \in {"queued", "deferred"} :
          /\ status' = [status EXCEPT ![WrapUp] = s]
          /\ queue' = Append(queue, WrapUp) \/ queue' = queue
    BY <1>6 DEF EnqueueWrapUp
  <2>2. /\ web = "enqueue" /\ web' = "answered" /\ enqueued = Len(cycles)
        /\ UNCHANGED <<request, cursor, cycles, enqueued, worker, saved, refused,
                       crashes>>
    BY <1>6 DEF EnqueueWrapUp
  <2>3. TypeOK'
    <3>1. status' \in [Jobs -> Statuses]
      BY <2>1, JobNumbers DEF TypeOK, Statuses
    <3>2. queue' \in Seq(Jobs)
      BY <2>1, JobNumbers DEF TypeOK
    <3> QED
      BY <2>2, <3>1, <3>2 DEF TypeOK, WebStates
  <2>4. PlanInv'
    BY <2>2 DEF PlanInv
  <2>5. status[WrapUp] = "absent" /\ ~(WrapUp > enqueued)
    BY <2>2, JobNumbers DEF JobInv, TypeOK
  <2>6. \A w \in Workers : worker[w].job \in Jobs
    BY DEF TypeOK, WorkerState
  <2>7. JobInv'
    BY <2>1, <2>2, <2>5, <2>6, JobNumbers DEF JobInv, TypeOK
  <2> QED
    BY <2>3, <2>4, <2>7
<1>7. CASE KillWeb
  <2>1. TypeOK'
    BY <1>7 DEF KillWeb, TypeOK, WebStates, rqVars
  <2>2. PlanInv'
    BY <1>7 DEF KillWeb, PlanInv
  <2>3. JobInv'
    BY <1>7 DEF KillWeb, JobInv, rqVars
  <2> QED
    BY <2>1, <2>2, <2>3
<1> QED
  BY <1>2, <1>3, <1>4, <1>5, <1>6, <1>7 DEF WebStep

\* What a worker has in hand is started, and is a job that was enqueued.
LEMMA JobInHand ==
  ASSUME Inv0, NEW w \in Workers, worker[w].pc # "idle"
  PROVE  /\ worker[w].job \in Jobs /\ worker[w].job \in 0 .. enqueued
         /\ status[worker[w].job] = "started"
         /\ worker[w].job # WrapUp => worker[w].job \in 1 .. Len(cycles)
         /\ \A v \in Workers \ {w} :
              worker[v].pc # "idle" => worker[v].job # worker[w].job
<1>1. worker[w].job \in Jobs /\ status[worker[w].job] = "started"
  BY DEF Inv0, TypeOK, WorkerState, JobInv
<1>2. ~(worker[w].job > enqueued) /\ enqueued \in Nat
  BY <1>1 DEF Inv0, TypeOK, JobInv
<1>3. enqueued <= Len(cycles) /\ Len(cycles) \in Nat
  BY DEF Inv0, TypeOK
<1>4. worker[w].job \in 0 .. enqueued
  <2>1. worker[w].job \in Nat
    BY <1>1, JobNumbers
  <2> QED
    BY <1>2, <2>1
<1>5. worker[w].job # WrapUp => worker[w].job \in 1 .. Len(cycles)
  BY <1>2, <1>3, <1>4, JobNumbers
<1>6. \A v \in Workers \ {w} : worker[v].pc # "idle" => worker[v].job # worker[w].job
  BY DEF Inv0, JobInv
<1> QED
  BY <1>1, <1>4, <1>5, <1>6

\* The steps of a worker.
LEMMA WorkerKeeps ==
  ASSUME Inv0, NEW w \in Workers, WorkerStep(w) \/ KillWorker(w)
  PROVE  Inv0'
<1> USE DEF Inv0
<1>1. PlanInv'
  BY DEF PlanInv, WorkerStep, KillWorker, Dequeue, SaveForecasts, RefuseForecasts,
         ComputeFails, RunWrapUp, FinishJob, FailJob, webVars
<1>2. CASE Dequeue(w)
  <2>1. queue \in Seq(Jobs) /\ queue # <<>>
    BY <1>2 DEF Dequeue, TypeOK
  <2>2. Head(queue) \in Jobs /\ Tail(queue) \in Seq(Jobs)
    BY <2>1
  <2>3. CASE UNCHANGED <<status, worker>>
    <3>1. TypeOK'
      BY <1>2, <2>2, <2>3 DEF Dequeue, TypeOK, webVars
    <3>2. JobInv'
      BY <1>2, <2>3 DEF Dequeue, JobInv, webVars
    <3> QED
      BY <1>1, <3>1, <3>2
  <2>4. CASE /\ status[Head(queue)] = "queued"
             /\ status' = [status EXCEPT ![Head(queue)] = "started"]
             /\ worker' = [worker EXCEPT ![w] = [pc |-> "compute", job |-> Head(queue)]]
    <3> DEFINE j == Head(queue)
    <3>1. /\ worker' \in [Workers -> WorkerState]
          /\ worker'[w].pc = "compute" /\ worker'[w].job = j
          /\ \A v \in Workers \ {w} : worker'[v] = worker[v]
      BY <2>2, <2>4, WorkerTakes DEF TypeOK
    <3>2. TypeOK'
      BY <1>2, <2>2, <2>4, <3>1 DEF Dequeue, TypeOK, webVars, Statuses
    <3>3. \A v \in Workers : worker[v].pc # "idle" => worker[v].job # j
      BY <2>4 DEF JobInv
    <3>4. \A i \in Jobs : status'[i] = IF i = j THEN "started" ELSE status[i]
      BY <2>4 DEF TypeOK
    <3>5. \A v \in Workers : worker'[v].job \in Jobs
      BY <3>1 DEF WorkerState
    <3>6. UNCHANGED webVars
      BY <1>2 DEF Dequeue
    <3>7. status[j] = "queued" /\ j \in Jobs
      BY <2>2, <2>4
    <3> HIDE DEF j
    <3>8. /\ \A i \in Jobs : i > enqueued => status'[i] = "absent"
          /\ status'[WrapUp] # "absent" => web = "answered"
      BY <3>4, <3>7, JobNumbers DEF JobInv
    <3>9. \A v \in Workers : worker'[v].pc # "idle" => status'[worker'[v].job] = "started"
      BY <3>1, <3>3, <3>4, <3>5 DEF JobInv
    <3>10. \A u, v \in Workers :
             worker'[u].pc # "idle" /\ worker'[v].pc # "idle"
             /\ worker'[u].job = worker'[v].job => u = v
      BY <3>1, <3>3 DEF JobInv
    <3>11. JobInv'
      BY <3>6, <3>8, <3>9, <3>10 DEF JobInv, webVars
    <3> QED
      BY <1>1, <3>2, <3>11
  <2> QED
    BY <1>2, <2>3, <2>4 DEF Dequeue
<1>3. ASSUME NEW l \in {"finish", "fail"}, Move(w, l), worker[w].pc = "compute",
             UNCHANGED <<webVars, rqVars, crashes>>,
             saved' \subseteq 1 .. Len(cycles), refused' \subseteq 1 .. Len(cycles)
      PROVE  Inv0'
  <2>1. /\ worker' \in [Workers -> WorkerState]
        /\ worker'[w].pc = l /\ worker'[w].job = worker[w].job
        /\ \A v \in Workers \ {w} : worker'[v] = worker[v]
    BY <1>3, WorkerMove DEF TypeOK
  <2>2. TypeOK'
    BY <1>3, <2>1 DEF TypeOK, webVars, rqVars
  <2>3. \A v \in Workers : /\ worker'[v].job = worker[v].job
                           /\ worker'[v].pc # "idle" => worker[v].pc # "idle"
    BY <1>3, <2>1
  <2>4. UNCHANGED <<status, enqueued, web>>
    BY <1>3 DEF webVars, rqVars
  <2>5. JobInv'
    BY <2>3, <2>4 DEF JobInv
  <2> QED
    BY <1>1, <2>2, <2>5
<1>4. CASE SaveForecasts(w)
  <2>1. saved' \subseteq 1 .. Len(cycles) /\ refused' \subseteq 1 .. Len(cycles)
    BY <1>4, JobInHand DEF SaveForecasts, TypeOK
  <2> QED
    BY <1>3, <1>4, <2>1 DEF SaveForecasts
<1>5. CASE RefuseForecasts(w)
  <2>1. saved' \subseteq 1 .. Len(cycles) /\ refused' \subseteq 1 .. Len(cycles)
    BY <1>5, JobInHand DEF RefuseForecasts, TypeOK
  <2> QED
    BY <1>3, <1>5, <2>1 DEF RefuseForecasts
<1>6. CASE ComputeFails(w)
  BY <1>3, <1>6 DEF ComputeFails, TypeOK
<1>7. CASE RunWrapUp(w)
  BY <1>3, <1>7 DEF RunWrapUp, TypeOK
<1>8. ASSUME NEW s \in {"started", "finished", "failed"}, NEW r \in BOOLEAN,
             worker[w].pc # "idle", worker' = [worker EXCEPT ![w] = Idle],
             status' = IF r THEN [status EXCEPT ![worker[w].job] = s, ![WrapUp] = "queued"]
                            ELSE [status EXCEPT ![worker[w].job] = s],
             r => status[WrapUp] = "deferred",
             queue' = IF r THEN Append(queue, WrapUp) ELSE queue,
             UNCHANGED <<webVars, saved, refused>>, crashes' \in Nat
      PROVE  Inv0'
  <2> DEFINE j == worker[w].job
  <2>1. /\ worker' \in [Workers -> WorkerState] /\ worker'[w].pc = "idle"
        /\ \A v \in Workers \ {w} : worker'[v] = worker[v]
    BY <1>8, WorkerStops DEF TypeOK
  <2>2. /\ j \in Jobs /\ j \in 0 .. enqueued /\ status[j] = "started"
        /\ \A v \in Workers \ {w} : worker[v].pc # "idle" => worker[v].job # j
    BY <1>8, JobInHand
  <2>3. TypeOK'
    <3>1. status' \in [Jobs -> Statuses]
      BY <1>8, JobNumbers DEF TypeOK, Statuses
    <3>2. queue' \in Seq(Jobs)
      BY <1>8, JobNumbers DEF TypeOK
    <3> QED
      BY <1>8, <2>1, <3>1, <3>2 DEF TypeOK, webVars
  <2>4. \A i \in Jobs : i # j /\ ~(r /\ i = WrapUp) => status'[i] = status[i]
    BY <1>8 DEF TypeOK
  <2>5. \A v \in Workers : worker'[v].pc # "idle" =>
           v # w /\ worker[v].pc # "idle" /\ worker'[v] = worker[v]
           /\ worker[v].job \in Jobs /\ worker[v].job # j
           /\ status[worker[v].job] = "started"
    BY <2>1, <2>2 DEF JobInv, TypeOK, WorkerState
  <2>6. UNCHANGED <<web, enqueued>>
    BY <1>8 DEF webVars
  <2> HIDE DEF j
  <2>7. \A v \in Workers : worker'[v].pc # "idle" => status'[worker'[v].job] = "started"
    <3> SUFFICES ASSUME NEW v \in Workers, worker'[v].pc # "idle"
                 PROVE  status'[worker'[v].job] = "started"
      OBVIOUS
    <3>1. /\ worker'[v] = worker[v] /\ worker[v].job \in Jobs /\ worker[v].job # j
          /\ status[worker[v].job] = "started"
      BY <2>5
    <3>2. r => worker[v].job # WrapUp
      BY <1>8, <3>1
    <3> QED
      BY <2>4, <3>1, <3>2
  <2>8. \A i \in Jobs : i > enqueued => status'[i] = "absent"
    BY <1>8, <2>2, <2>4, JobNumbers DEF JobInv, TypeOK
  <2>9. status'[WrapUp] # "absent" => web = "answered"
    BY <1>8, <2>2, <2>4, JobNumbers DEF JobInv
  <2>10. JobInv'
    BY <2>5, <2>6, <2>7, <2>8, <2>9 DEF JobInv
  <2> QED
    BY <1>1, <2>3, <2>10
<1>9. CASE FinishJob(w)
  <2> DEFINE r == status[WrapUp] = "deferred" /\ Unmet(1 .. enqueued) = {worker[w].job}
  <2>1. /\ r \in BOOLEAN /\ worker[w].pc # "idle"
        /\ worker' = [worker EXCEPT ![w] = Idle]
        /\ status' = IF r THEN [status EXCEPT ![worker[w].job] = "finished", ![WrapUp] = "queued"]
                          ELSE [status EXCEPT ![worker[w].job] = "finished"]
        /\ r => status[WrapUp] = "deferred"
        /\ queue' = IF r THEN Append(queue, WrapUp) ELSE queue
        /\ UNCHANGED <<webVars, saved, refused, crashes>>
    BY <1>9 DEF FinishJob
  <2>2. crashes' \in Nat
    BY <2>1 DEF TypeOK
  <2> HIDE DEF r
  <2> QED
    BY <1>8, <2>1, <2>2
<1>10. CASE FailJob(w)
  <2>1. crashes' \in Nat
    BY <1>10 DEF FailJob, TypeOK
  <2> QED
    BY <1>8, <1>10, <2>1 DEF FailJob
<1>11. CASE KillWorker(w)
  <2>1. status[worker[w].job] = "started" /\ worker[w].pc # "idle"
    BY <1>11, JobInHand DEF KillWorker
  <2>2. status' = [status EXCEPT ![worker[w].job] = "started"]
    BY <1>11, <2>1 DEF KillWorker, rqVars, TypeOK
  <2>3. crashes' \in Nat
    BY <1>11 DEF KillWorker, TypeOK
  <2> QED
    BY <1>8, <1>11, <2>1, <2>2, <2>3 DEF KillWorker, rqVars
<1> QED
  BY <1>2, <1>4, <1>5, <1>6, <1>7, <1>9, <1>10, <1>11 DEF WorkerStep

\* A job that no worker has in hand fails or expires.
LEMMA OtherKeeps ==
  ASSUME Inv0, NEW j \in Jobs, AbandonJob(j) \/ Expire(j)
  PROVE  Inv0'
<1>1. PICK s \in {"failed", "gone"} : status' = [status EXCEPT ![j] = s]
  BY DEF AbandonJob, Expire
<1>2. UNCHANGED <<webVars, queue, worker, saved, refused, crashes>>
  BY DEF AbandonJob, Expire
<1>3. TypeOK'
  BY <1>1, <1>2 DEF Inv0, TypeOK, webVars, Statuses
<1>4. PlanInv'
  BY <1>2 DEF Inv0, PlanInv, webVars
<1>5. \A w \in Workers : worker[w].pc # "idle" => worker[w].job # j
  BY DEF AbandonJob, Expire, InHand, Inv0, JobInv
<1>6. status[j] # "absent"
  BY DEF AbandonJob, Expire
<1>7. \A w \in Workers : worker[w].job \in Jobs
  BY DEF Inv0, TypeOK, WorkerState
<1>8. JobInv'
  BY <1>1, <1>2, <1>5, <1>6, <1>7, JobNumbers DEF Inv0, JobInv, TypeOK, webVars
<1> QED
  BY <1>3, <1>4, <1>8 DEF Inv0

LEMMA Inv0Next == Inv0 /\ [Next]_vars => Inv0'
<1> SUFFICES ASSUME Inv0, [Next]_vars PROVE Inv0'
  OBVIOUS
<1>1. CASE UNCHANGED vars
  BY <1>1 DEF vars, webVars, rqVars, Inv0, TypeOK, PlanInv, JobInv
<1>2. CASE AtRest
  BY <1>1, <1>2 DEF AtRest
<1> QED
  BY <1>1, <1>2, WebKeeps, WorkerKeeps, OtherKeeps DEF Next

\* Types, for any requests and workers.
THEOREM TypeCorrect == Spec => []TypeOK
<1>1. Inv0 => TypeOK
  BY DEF Inv0
<1> QED
  BY <1>1, Inv0Init, Inv0Next, PTL DEF Spec

-----------------------------------------------------------------------------
\* The windows.

LEMMA WindowInit == Init => WindowInv
<1> SUFFICES ASSUME Init PROVE WindowInv
  OBVIOUS
<1>1. CycleFrequency(request) \in Nat
  BY Timing DEF Init
<1> QED
  BY <1>1 DEF Init, WindowInv, FirstCursor

LEMMA WindowNext == Inv0 /\ WindowInv /\ [Next]_vars => WindowInv'
<1> SUFFICES ASSUME Inv0, WindowInv, [Next]_vars PROVE WindowInv'
  OBVIOUS
<1>1. CASE UNCHANGED <<request, cursor, cycles>>
  BY <1>1 DEF WindowInv
<1>2. CASE PlanCycle
  <2> DEFINE cf == CycleFrequency(request)
             n  == Len(cycles)
             c  == [trainEnd |-> cursor.trainEnd, start |-> cursor.start,
                    end |-> Smaller(cursor.end, request.end)]
  <2>1. /\ request \in Requests /\ ~Rejected(request)
        /\ n \in Nat /\ n < NCycles(request) /\ NCycles(request) \in Nat
        /\ cf \in Nat \ {0} /\ request.end \in Nat
    BY <1>2, Timing DEF Inv0, TypeOK, PlanInv, PlanCycle
  <2>2. /\ cursor.trainEnd = n * cf /\ cursor.start = n * cf
        /\ cursor.end = (n + 1) * cf
    BY <2>1 DEF WindowInv
  <2>3. n + 1 \in 1 .. NCycles(request)
    BY <2>1
  <2>4. /\ n * cf \in Nat /\ (n + 1) * cf = n * cf + cf
        /\ NCycles(request) # 1 => (n + 1) * cf <= request.end
    BY <2>1, <2>3, CyclesFit
  <2>5. cycles' = Append(cycles, c) /\ request' = request
    BY <1>2 DEF PlanCycle
  <2>6. cursor' = [trainEnd |-> cursor.trainEnd + cf, start |-> cursor.start + cf,
                   end |-> Smaller(cursor.end, request.end) + cf]
    BY <1>2 DEF PlanCycle
  <2>7. c.trainEnd = n * cf /\ c.start = n * cf /\ c.end = Smaller((n + 1) * cf, request.end)
    BY <2>2
  <2>8. /\ Len(cycles') = n + 1 /\ cycles'[n + 1] = c
        /\ \A k \in 1 .. n : cycles'[k] = cycles[k]
    BY <2>5 DEF Inv0, TypeOK
  <2>9. cursor'.trainEnd = (n + 1) * cf /\ cursor'.start = (n + 1) * cf
    BY <2>2, <2>4, <2>6
  <2>10. n + 1 < NCycles(request) => cursor'.end = (n + 1 + 1) * cf
    <3> SUFFICES ASSUME n + 1 < NCycles(request) PROVE cursor'.end = (n + 1 + 1) * cf
      OBVIOUS
    <3>1. n + 2 \in 1 .. NCycles(request) /\ NCycles(request) # 1
      BY <2>1
    <3>2. (n + 2) * cf = (n + 1) * cf + cf
      BY <2>1
    <3>3. Smaller(cursor.end, request.end) = (n + 1) * cf
      BY <2>1, <2>2, <2>4, <3>1 DEF Smaller
    <3>4. n + 1 + 1 = n + 2
      BY <2>1
    <3> QED
      BY <2>6, <3>2, <3>3, <3>4
  <2>11. \A k \in 1 .. n : /\ cycles[k].trainEnd = (k - 1) * cf
                            /\ cycles[k].start = (k - 1) * cf
                            /\ cycles[k].end = Smaller(k * cf, request.end)
    BY DEF WindowInv
  <2>12. \A k \in 1 .. (n + 1) : k \in 1 .. n \/ (k = n + 1 /\ k - 1 = n)
    BY <2>1
  <2>13. CycleFrequency(request') = cf
    BY <2>5
  <2> HIDE DEF c, cf, n
  <2>14. \A k \in 1 .. (n + 1) : /\ cycles'[k].trainEnd = (k - 1) * cf
                                  /\ cycles'[k].start = (k - 1) * cf
                                  /\ cycles'[k].end = Smaller(k * cf, request.end)
    BY <2>7, <2>8, <2>11, <2>12
  <2> QED
    BY <2>5, <2>8, <2>9, <2>10, <2>13, <2>14 DEF WindowInv
<1>3. CASE ~PlanCycle
  <2>1. UNCHANGED <<request, cursor, cycles>>
    BY <1>3 DEF Next, WebStep, Resolve, CommitSource, EnqueueCycle, EnqueueWrapUp,
       KillWeb, AtRest, WorkerStep, KillWorker, Dequeue, SaveForecasts,
       RefuseForecasts, ComputeFails, RunWrapUp, FinishJob, FailJob, AbandonJob,
       Expire, vars, webVars
  <2> QED
    BY <1>1, <2>1
<1> QED
  BY <1>2, <1>3

\* The closed form of the windows gives the property.
LEMMA WindowsTileInv == Inv0 /\ WindowInv => WindowsTile
<1> SUFFICES ASSUME Inv0, WindowInv, NEW k \in 1 .. Len(cycles)
             PROVE  /\ cycles[k].trainEnd = cycles[k].start
                    /\ cycles[k].start = (IF k = 1 THEN 0 ELSE cycles[k - 1].end)
                    /\ cycles[k].start < cycles[k].end
                    /\ cycles[k].end <= request.end
  BY DEF WindowsTile
<1> DEFINE cf == CycleFrequency(request)
<1>1. /\ request \in Requests /\ ~Rejected(request) /\ Len(cycles) \in Nat
      /\ Len(cycles) <= NCycles(request) /\ NCycles(request) \in Nat
      /\ cf \in Nat \ {0} /\ request.end \in Nat \ {0}
  BY Timing DEF Inv0, TypeOK, PlanInv
<1>2. /\ cycles[k].trainEnd = (k - 1) * cf /\ cycles[k].start = (k - 1) * cf
      /\ cycles[k].end = Smaller(k * cf, request.end)
  BY DEF WindowInv
<1>3. k \in 1 .. NCycles(request)
  BY <1>1
<1>4. /\ (k - 1) * cf \in Nat /\ (k - 1) * cf < request.end
      /\ k * cf = (k - 1) * cf + cf /\ k * cf \in Nat
  BY <1>1, <1>3, CyclesFit
<1>5. CASE k = 1
  BY <1>1, <1>2, <1>4, <1>5 DEF Smaller
<1>6. CASE k # 1
  <2>1. k - 1 \in 1 .. Len(cycles) /\ k - 1 \in 1 .. NCycles(request) /\ NCycles(request) # 1
    BY <1>1, <1>3, <1>6
  <2>2. cycles[k - 1].end = Smaller((k - 1) * cf, request.end)
    BY <2>1 DEF WindowInv
  <2>3. Smaller((k - 1) * cf, request.end) = (k - 1) * cf
    BY <1>1, <1>4 DEF Smaller
  <2> QED
    BY SMTT(30), <1>1, <1>2, <1>4, <1>6, <2>2, <2>3 DEF Smaller
<1> QED
  BY <1>5, <1>6

\* The windows tile the period, for any timing parameters that are accepted.
THEOREM WindowsTileThePeriod == Spec => []WindowsTile
<1>1. Init => Inv0 /\ WindowInv
  BY Inv0Init, WindowInit
<1>2. Inv0 /\ WindowInv /\ [Next]_vars => (Inv0 /\ WindowInv)'
  BY Inv0Next, WindowNext
<1> QED
  BY <1>1, <1>2, WindowsTileInv, PTL DEF Spec

-----------------------------------------------------------------------------
\* Saved and refused forecasts.

\* Two forecasts of one event from the same viewpoint of different cycles are as far
\* apart, in steps of the horizon, as the cycles are.
LEMMA StepsApart ==
  ASSUME NEW res \in Nat \ {0}, NEW cf \in Nat \ {0}, NEW horizon \in Nat,
         NEW j \in Nat \ {0}, NEW k \in Nat \ {0}, j < k,
         NEW i \in Nat, NEW g \in 0 .. (horizon \div res - 1),
         NEW h \in 0 .. (horizon \div res - 1),
         (j - 1) * cf + (i + g) * res = (k - 1) * cf + (i + h) * res
  PROVE  horizon > cf
<1>1. horizon \div res \in Nat /\ res * (horizon \div res) <= horizon
  OBVIOUS
<1> DEFINE steps == horizon \div res
<1>2. steps \in Nat /\ steps * res <= horizon
  BY <1>1
<1>3. g \in Nat /\ h \in Nat /\ g <= steps - 1
  BY <1>1
<1> HIDE DEF steps
<1>4. PICK d \in Nat \ {0} : k = j + d
  <2>1. k - j \in Nat \ {0} /\ k = j + (k - j)
    OBVIOUS
  <2> QED
    BY <2>1
<1>5. (k - 1) * cf = (j - 1) * cf + d * cf
  BY <1>4
<1>6. (i + g) * res = i * res + g * res /\ (i + h) * res = i * res + h * res
  BY <1>3
<1>7. g * res = d * cf + h * res
  <2>1. /\ (j - 1) * cf \in Int /\ d * cf \in Int /\ i * res \in Int
        /\ g * res \in Int /\ h * res \in Int
    BY <1>3, <1>4
  <2> QED
    BY <1>5, <1>6, <2>1
<1>8. d * cf >= cf /\ h * res >= 0
  BY <1>3, <1>4
<1>9. g * res <= (steps - 1) * res
  BY <1>2, <1>3
<1>10. (steps - 1) * res = steps * res - res
  BY <1>2
<1>11. d * cf \in Nat /\ h * res \in Nat /\ g * res \in Nat /\ steps * res \in Nat
  BY <1>2, <1>3, <1>4
<1> QED
  BY <1>2, <1>7, <1>8, <1>9, <1>10, <1>11

\* Two cycles share a forecast only if one sees past the start of the next.
LEMMA OverlapNeedsHorizon ==
  ASSUME Inv0, WindowInv, NEW j \in 1 .. Len(cycles), NEW k \in 1 .. Len(cycles),
         j # k,
         Forecasts(request, cycles[j]) \cap Forecasts(request, cycles[k]) # {}
  PROVE  Horizon(request) > CycleFrequency(request)
<1> DEFINE cf == CycleFrequency(request)
           res == request.resolution
<1>1. /\ cf \in Nat \ {0} /\ res \in Nat \ {0} /\ Horizon(request) \in Nat
      /\ j \in Nat \ {0} /\ k \in Nat \ {0}
  BY Timing DEF Inv0, TypeOK
<1>2. cycles[j].start = (j - 1) * cf /\ cycles[k].start = (k - 1) * cf
  BY DEF WindowInv
<1>3. PICK b : b \in Forecasts(request, cycles[j]) /\ b \in Forecasts(request, cycles[k])
  OBVIOUS
<1>4. PICK i \in Viewpoints(request), g \in 0 .. (HorizonSteps(request) - 1) :
        b = <<cycles[j].start + (i + g) * res, i>>
  BY <1>3 DEF Forecasts
<1>5. PICK i2 \in Viewpoints(request), h \in 0 .. (HorizonSteps(request) - 1) :
        b = <<cycles[k].start + (i2 + h) * res, i2>>
  BY <1>3 DEF Forecasts
<1>6. i2 = i /\ (j - 1) * cf + (i + g) * res = (k - 1) * cf + (i + h) * res
  BY <1>2, <1>4, <1>5
<1>7. i \in Nat
  BY DEF Viewpoints
<1>8. /\ g \in 0 .. (Horizon(request) \div res - 1)
      /\ h \in 0 .. (Horizon(request) \div res - 1)
  BY DEF HorizonSteps
<1> HIDE DEF cf, res
<1>9. CASE j < k
  BY ZenonT(30), <1>1, <1>6, <1>7, <1>8, <1>9, StepsApart DEF cf
<1>10. CASE k < j
  <2>1. (k - 1) * cf + (i + h) * res = (j - 1) * cf + (i + g) * res
    BY <1>6
  <2> QED
    BY ZenonT(30), <1>1, <1>7, <1>8, <1>10, <2>1, StepsApart DEF cf
<1> QED
  BY <1>1, <1>9, <1>10

LEMMA SavedInit == Init => SavedInv /\ RefusedForOverlap
BY DEF Init, SavedInv, RefusedForOverlap, Idle

\* What the proofs about saved forecasts rest on.
Inv1 == Inv0 /\ WindowInv /\ SavedInv /\ RefusedForOverlap

\* A job's status changes without its forecasts, and no worker begins or goes on.
LEMMA SavedFrame ==
  ASSUME Inv1, UNCHANGED saved,
         \A k \in saved : status'[k] \notin {"absent", "queued", "deferred"},
         \A k \in Jobs : k # WrapUp /\ status'[k] = "finished" => k \in saved,
         \A w \in Workers : worker'[w] = worker[w] \/ worker'[w].pc = "idle"
  PROVE  SavedInv'
BY DEF Inv1, SavedInv

LEMMA SavedNext == Inv1 /\ [Next]_vars => SavedInv' /\ RefusedForOverlap'
<1> SUFFICES ASSUME Inv1, [Next]_vars PROVE SavedInv' /\ RefusedForOverlap'
  OBVIOUS
<1>a. /\ saved \subseteq Jobs /\ WrapUp \notin saved
      /\ \A k \in saved : k \in 1 .. Len(cycles)
  BY JobNumbers DEF Inv1, Inv0, TypeOK
<1>b. request' = request
  BY DEF Next, WebStep, Resolve, PlanCycle, CommitSource, EnqueueCycle, EnqueueWrapUp,
     KillWeb, AtRest, WorkerStep, KillWorker, Dequeue, SaveForecasts,
     RefuseForecasts, ComputeFails, RunWrapUp, FinishJob, FailJob, AbandonJob,
     Expire, vars, webVars
<1>c. UNCHANGED refused => RefusedForOverlap'
  BY <1>b DEF Inv1, RefusedForOverlap
<1>1. CASE UNCHANGED <<status, worker, saved, refused>>
  BY <1>1, <1>c, SavedFrame DEF Inv1, SavedInv
<1>2. CASE EnqueueCycle
  <2>1. enqueued + 1 \in Jobs /\ status[enqueued + 1] = "absent"
    BY <1>2, JobNumbers DEF EnqueueCycle, Inv1, Inv0, TypeOK, JobInv
  <2>2. enqueued + 1 \notin saved
    BY <2>1 DEF Inv1, SavedInv
  <2>3. /\ status' = [status EXCEPT ![enqueued + 1] = "queued"]
        /\ UNCHANGED <<worker, saved, refused>>
    BY <1>2 DEF EnqueueCycle
  <2> QED
    BY <1>a, <1>c, <2>1, <2>2, <2>3, SavedFrame DEF Inv1, SavedInv, Inv0, TypeOK
<1>3. CASE EnqueueWrapUp
  <2>1. \A k \in Jobs : k # WrapUp => status'[k] = status[k]
    BY <1>3 DEF EnqueueWrapUp, Inv1, Inv0, TypeOK
  <2>2. UNCHANGED <<worker, saved, refused>>
    BY <1>3 DEF EnqueueWrapUp
  <2> QED
    BY <1>a, <1>c, <2>1, <2>2, SavedFrame DEF Inv1, SavedInv
<1>4. ASSUME NEW w \in Workers, Dequeue(w)
      PROVE  SavedInv' /\ RefusedForOverlap'
  <2>1. CASE UNCHANGED <<status, worker>>
    BY <1>1, <1>4, <2>1 DEF Dequeue
  <2>2. CASE /\ status[Head(queue)] = "queued"
             /\ status' = [status EXCEPT ![Head(queue)] = "started"]
             /\ worker' = [worker EXCEPT ![w] = [pc |-> "compute", job |-> Head(queue)]]
    <3>1. Head(queue) \in Jobs
      BY <1>4 DEF Dequeue, Inv1, Inv0, TypeOK
    <3>2. /\ worker'[w].pc = "compute" /\ worker'[w].job = Head(queue)
          /\ \A v \in Workers \ {w} : worker'[v] = worker[v]
      BY <2>2, <3>1, WorkerTakes DEF Inv1, Inv0, TypeOK
    <3>3. \A k \in Jobs : status'[k] = IF k = Head(queue) THEN "started" ELSE status[k]
      BY <2>2 DEF Inv1, Inv0, TypeOK
    <3>4. Head(queue) \notin saved
      BY <2>2 DEF Inv1, SavedInv
    <3>5. UNCHANGED <<saved, refused>>
      BY <1>4 DEF Dequeue
    <3>6. SavedInv'
      BY <1>a, <3>1, <3>2, <3>3, <3>4, <3>5 DEF Inv1, SavedInv
    <3> QED
      BY <1>c, <3>5, <3>6
  <2> QED
    BY <1>4, <2>1, <2>2 DEF Dequeue
<1>5. ASSUME NEW w \in Workers, SaveForecasts(w)
      PROVE  SavedInv' /\ RefusedForOverlap'
  <2>1. /\ worker[w].pc = "compute" /\ worker[w].job # WrapUp /\ Move(w, "finish")
        /\ saved' = saved \cup {worker[w].job}
        /\ UNCHANGED <<status, refused>>
    BY <1>5 DEF SaveForecasts, rqVars
  <2>2. /\ status[worker[w].job] = "started"
        /\ \A v \in Workers \ {w} :
             worker[v].pc # "idle" => worker[v].job # worker[w].job
    BY <2>1, JobInHand DEF Inv1
  <2>3. /\ worker'[w].pc = "finish" /\ worker'[w].job = worker[w].job
        /\ \A v \in Workers \ {w} : worker'[v] = worker[v]
    BY <2>1, WorkerMove DEF Inv1, Inv0, TypeOK
  <2>4. SavedInv'
    BY <2>1, <2>2, <2>3 DEF Inv1, SavedInv
  <2> QED
    BY <1>c, <2>1, <2>4
<1>6. ASSUME NEW w \in Workers, worker[w].pc = "compute", Move(w, "fail"),
             UNCHANGED <<status, saved>>
      PROVE  SavedInv'
  <2>1. /\ worker'[w].pc = "fail" /\ worker'[w].job = worker[w].job
        /\ \A v \in Workers \ {w} : worker'[v] = worker[v]
    BY <1>6, WorkerMove DEF Inv1, Inv0, TypeOK
  <2> QED
    BY <1>6, <2>1 DEF Inv1, SavedInv
<1>7. ASSUME NEW w \in Workers, RefuseForecasts(w)
      PROVE  SavedInv' /\ RefusedForOverlap'
  <2> DEFINE k == worker[w].job
  <2>1. worker[w].pc = "compute" /\ k # WrapUp /\ k \notin saved /\ Collides(k)
    BY <1>7 DEF RefuseForecasts, Inv1, SavedInv
  <2>2. k \in 1 .. Len(cycles)
    BY <2>1, JobInHand DEF Inv1
  <2>3. PICK j \in saved :
          Forecasts(request, cycles[j]) \cap Forecasts(request, cycles[k]) # {}
    BY <2>1 DEF Collides
  <2>4. j \in 1 .. Len(cycles) /\ j # k
    BY <1>a, <2>1, <2>3
  <2>5. Horizon(request) > CycleFrequency(request)
    BY <2>2, <2>3, <2>4, OverlapNeedsHorizon DEF Inv1
  <2>6. SavedInv'
    BY <1>6, <1>7 DEF RefuseForecasts, rqVars
  <2> QED
    BY <1>b, <2>5, <2>6 DEF RefusedForOverlap
<1>8. ASSUME NEW w \in Workers, ComputeFails(w)
      PROVE  SavedInv' /\ RefusedForOverlap'
  BY <1>6, <1>8, <1>c DEF ComputeFails, rqVars
<1>9. ASSUME NEW w \in Workers, RunWrapUp(w)
      PROVE  SavedInv' /\ RefusedForOverlap'
  <2>1. /\ worker[w].job = WrapUp /\ worker[w].pc = "compute"
        /\ UNCHANGED <<status, saved, refused>>
    BY <1>9 DEF RunWrapUp, rqVars
  <2>2. PICK l \in {"finish", "fail"} : Move(w, l)
    BY <1>9 DEF RunWrapUp
  <2>3. /\ worker'[w].pc = l /\ worker'[w].job = WrapUp
        /\ \A v \in Workers \ {w} : worker'[v] = worker[v]
    BY <2>1, <2>2, WorkerMove DEF Inv1, Inv0, TypeOK
  <2>4. SavedInv'
    BY <2>1, <2>3 DEF Inv1, SavedInv
  <2> QED
    BY <1>c, <2>1, <2>4
<1>10. ASSUME NEW w \in Workers, FinishJob(w)
       PROVE  SavedInv' /\ RefusedForOverlap'
  <2> DEFINE j == worker[w].job
  <2>1. /\ worker[w].pc = "finish" /\ worker' = [worker EXCEPT ![w] = Idle]
        /\ UNCHANGED <<saved, refused>>
    BY <1>10 DEF FinishJob
  <2>2. j \in Jobs /\ (j # WrapUp => j \in saved)
    BY <2>1, JobInHand DEF Inv1, SavedInv
  <2>3. \A k \in Jobs : k # WrapUp =>
           status'[k] = IF k = j THEN "finished" ELSE status[k]
    BY <1>10, <2>2 DEF FinishJob, Inv1, Inv0, TypeOK
  <2>4. worker'[w].pc = "idle" /\ \A v \in Workers \ {w} : worker'[v] = worker[v]
    BY <2>1, WorkerStops DEF Inv1, Inv0, TypeOK
  <2> HIDE DEF j
  <2>5. \A k \in saved : status'[k] \notin {"absent", "queued", "deferred"}
    BY <1>a, <2>3 DEF Inv1, SavedInv
  <2>6. \A k \in Jobs : k # WrapUp /\ status'[k] = "finished" => k \in saved
    BY <2>2, <2>3 DEF Inv1, SavedInv
  <2> QED
    BY <1>c, <2>1, <2>4, <2>5, <2>6, SavedFrame
<1>11. ASSUME NEW w \in Workers, FailJob(w) \/ KillWorker(w)
       PROVE  SavedInv' /\ RefusedForOverlap'
  <2>1. /\ worker' = [worker EXCEPT ![w] = Idle]
        /\ UNCHANGED <<saved, refused>>
        /\ status' = [status EXCEPT ![worker[w].job] = "failed"] \/ status' = status
    BY <1>11 DEF FailJob, KillWorker, rqVars
  <2>2. \A k \in Jobs : status'[k] = status[k] \/ status'[k] = "failed"
    BY <2>1 DEF Inv1, Inv0, TypeOK
  <2>3. worker'[w].pc = "idle" /\ \A v \in Workers \ {w} : worker'[v] = worker[v]
    BY <2>1, WorkerStops DEF Inv1, Inv0, TypeOK
  <2>4. /\ \A k \in saved : status'[k] \notin {"absent", "queued", "deferred"}
        /\ \A k \in Jobs : k # WrapUp /\ status'[k] = "finished" => k \in saved
    BY <1>a, <2>2 DEF Inv1, SavedInv
  <2> QED
    BY <1>c, <2>1, <2>3, <2>4, SavedFrame
<1>12. ASSUME NEW j \in Jobs, AbandonJob(j) \/ Expire(j)
       PROVE  SavedInv' /\ RefusedForOverlap'
  <2>1. /\ UNCHANGED <<worker, saved, refused>>
        /\ \/ status' = [status EXCEPT ![j] = "failed"]
           \/ status' = [status EXCEPT ![j] = "gone"]
    BY <1>12 DEF AbandonJob, Expire
  <2>2. \A k \in Jobs : status'[k] = status[k] \/ status'[k] \in {"failed", "gone"}
    BY <2>1 DEF Inv1, Inv0, TypeOK
  <2>3. /\ \A k \in saved : status'[k] \notin {"absent", "queued", "deferred"}
        /\ \A k \in Jobs : k # WrapUp /\ status'[k] = "finished" => k \in saved
    BY <1>a, <2>2 DEF Inv1, SavedInv
  <2> QED
    BY <1>c, <2>1, <2>3, SavedFrame
<1>13. CASE Resolve \/ PlanCycle \/ CommitSource \/ KillWeb \/ AtRest \/ UNCHANGED vars
  BY <1>1, <1>13 DEF Resolve, PlanCycle, CommitSource, KillWeb, AtRest, vars, rqVars
<1> QED
  BY <1>2, <1>3, <1>4, <1>5, <1>7, <1>8, <1>9, <1>10, <1>11, <1>12, <1>13
  DEF Next, WebStep, WorkerStep

LEMMA Inv1Init == Init => Inv1
BY Inv0Init, WindowInit, SavedInit DEF Inv1

LEMMA Inv1Next == Inv1 /\ [Next]_vars => Inv1'
BY Inv0Next, WindowNext, SavedNext DEF Inv1

\* Forecasts are refused only if the horizon is longer than the time between cycles.
THEOREM RefusalsAreOverlaps == Spec => []RefusedForOverlap
<1>1. Inv1 => RefusedForOverlap
  BY DEF Inv1
<1> QED
  BY <1>1, Inv1Init, Inv1Next, PTL DEF Spec

-----------------------------------------------------------------------------
\* The wrap-up job.

LEMMA WrapInit == Init => WrapInv
BY JobNumbers DEF Init, WrapInv, WrapUpIsComplete, Idle

\* The wrap-up job does not start to run or finish by the step, no worker reaches its
\* end, and the cycles that have ended stay so.
LEMMA WrapFrame ==
  ASSUME Inv1, Inv1', WrapInv, request' = request, saved \subseteq saved',
         status'[WrapUp] \in {"queued", "started"} =>
            /\ status[WrapUp] \in {"queued", "started"}
            /\ enqueued' = enqueued
            /\ \A k \in 1 .. enqueued :
                 status[k] \in {"finished", "gone"} => status'[k] \in {"finished", "gone"},
         status'[WrapUp] = "finished" => status[WrapUp] = "finished",
         \A w \in Workers :
            worker'[w].pc = "finish" /\ worker'[w].job = WrapUp =>
                worker[w].pc = "finish" /\ worker[w].job = WrapUp
  PROVE  WrapInv'
<1>1. /\ saved' \subseteq 1 .. Len(cycles') /\ Len(cycles') <= NCycles(request)
      /\ Len(cycles') \in Nat /\ NCycles(request) \in Nat
  BY Timing DEF Inv1, Inv0, TypeOK, PlanInv
<1>2. saved' \subseteq 1 .. NCycles(request)
  BY <1>1
<1>3. saved = 1 .. NCycles(request) => saved' = 1 .. NCycles(request')
  BY <1>2
<1> QED
  BY <1>3 DEF WrapInv, WrapUpIsComplete

LEMMA WrapNext == Inv1 /\ Inv1' /\ WrapInv /\ [Next]_vars => WrapInv'
<1> SUFFICES ASSUME Inv1, Inv1', WrapInv, [Next]_vars PROVE WrapInv'
  OBVIOUS
<1>a. request' = request
  BY DEF Next, WebStep, Resolve, PlanCycle, CommitSource, EnqueueCycle, EnqueueWrapUp,
     KillWeb, AtRest, WorkerStep, KillWorker, Dequeue, SaveForecasts,
     RefuseForecasts, ComputeFails, RunWrapUp, FinishJob, FailJob, AbandonJob,
     Expire, vars, webVars
<1>b. /\ enqueued \in Nat /\ enqueued <= Len(cycles) /\ Len(cycles) <= MaxCycles
      /\ Len(cycles) \in Nat
      /\ \A k \in 1 .. enqueued : k \in Jobs /\ k # WrapUp
  BY JobNumbers DEF Inv1, Inv0, TypeOK
<1>c. status[WrapUp] # "absent" => web = "answered" /\ enqueued = NCycles(request)
  BY DEF Inv1, Inv0, JobInv, PlanInv
<1>1. CASE UNCHANGED <<status, worker, saved, enqueued>>
  BY <1>a, <1>1, WrapFrame
<1>2. CASE EnqueueCycle
  <2>1. /\ status' = [status EXCEPT ![enqueued + 1] = "queued"]
        /\ web = "enqueue" /\ enqueued + 1 # WrapUp
        /\ UNCHANGED <<worker, saved>>
    BY <1>2, <1>b, JobNumbers DEF EnqueueCycle
  <2>2. status'[WrapUp] = "absent"
    BY <1>c, <2>1, JobNumbers DEF Inv1, Inv0, TypeOK
  <2> QED
    BY <1>a, <2>1, <2>2, WrapFrame
<1>3. CASE EnqueueWrapUp
  <2>1. UNCHANGED <<enqueued, worker, saved>>
    BY <1>3 DEF EnqueueWrapUp
  <2>2. \A k \in Jobs : k # WrapUp => status'[k] = status[k]
    BY <1>3 DEF EnqueueWrapUp, Inv1, Inv0, TypeOK
  <2>3. /\ status'[WrapUp] \in {"queued", "deferred"}
        /\ status'[WrapUp] = "queued" => Unmet(1 .. enqueued) = {}
    BY <1>3, JobNumbers DEF EnqueueWrapUp, Inv1, Inv0, TypeOK
  <2>4. status'[WrapUp] = "queued" =>
          \A k \in 1 .. enqueued : status'[k] \in {"finished", "gone"}
    BY <1>b, <2>2, <2>3 DEF Unmet
  <2> QED
    BY <1>a, <2>1, <2>3, <2>4 DEF WrapInv, WrapUpIsComplete
<1>4. ASSUME NEW w \in Workers, Dequeue(w)
      PROVE  WrapInv'
  <2>1. UNCHANGED <<enqueued, saved>>
    BY <1>4 DEF Dequeue, webVars
  <2>2. CASE UNCHANGED <<status, worker>>
    BY <1>1, <2>1, <2>2
  <2>3. CASE /\ status[Head(queue)] = "queued"
             /\ status' = [status EXCEPT ![Head(queue)] = "started"]
             /\ worker' = [worker EXCEPT ![w] = [pc |-> "compute", job |-> Head(queue)]]
    <3>1. Head(queue) \in Jobs
      BY <1>4 DEF Dequeue, Inv1, Inv0, TypeOK
    <3>2. /\ worker'[w].pc = "compute"
          /\ \A v \in Workers \ {w} : worker'[v] = worker[v]
      BY <2>3, <3>1, WorkerTakes DEF Inv1, Inv0, TypeOK
    <3>3. \A k \in Jobs : status'[k] = IF k = Head(queue) THEN "started" ELSE status[k]
      BY <2>3 DEF Inv1, Inv0, TypeOK
    <3> QED
      BY <1>a, <1>b, <2>1, <2>3, <3>1, <3>2, <3>3, JobNumbers, WrapFrame
  <2> QED
    BY <1>4, <2>2, <2>3 DEF Dequeue
<1>5. ASSUME NEW w \in Workers, NEW l \in {"finish", "fail"}, Move(w, l),
             worker[w].job # WrapUp, saved \subseteq saved',
             UNCHANGED <<status, enqueued>>
      PROVE  WrapInv'
  <2>1. /\ worker'[w].job # WrapUp
        /\ \A v \in Workers \ {w} : worker'[v] = worker[v]
    BY <1>5, WorkerMove DEF Inv1, Inv0, TypeOK
  <2> QED
    BY <1>5, <1>a, <2>1, WrapFrame
<1>6. ASSUME NEW w \in Workers, SaveForecasts(w) \/ RefuseForecasts(w) \/ ComputeFails(w)
      PROVE  WrapInv'
  BY <1>5, <1>6 DEF SaveForecasts, RefuseForecasts, ComputeFails, rqVars, webVars
<1>7. ASSUME NEW w \in Workers, RunWrapUp(w)
      PROVE  WrapInv'
  <2>1. /\ worker[w].pc = "compute" /\ worker[w].job = WrapUp
        /\ UNCHANGED <<status, enqueued, saved>>
    BY <1>7 DEF RunWrapUp, rqVars, webVars
  <2>2. status[WrapUp] = "started"
    BY <2>1, JobInHand DEF Inv1
  <2>3. \A k \in 1 .. enqueued : status[k] \in {"finished", "gone"}
    BY <2>2 DEF WrapInv
  <2>4. CASE (\A k \in 1 .. enqueued : status[k] # "gone") /\ Move(w, "finish")
    <3>1. \A k \in 1 .. enqueued : k \in saved
      BY <1>b, <2>3, <2>4 DEF Inv1, SavedInv
    <3>2. saved \subseteq 1 .. Len(cycles) /\ Len(cycles) = enqueued
      BY <1>c, <2>2 DEF Inv1, Inv0, TypeOK, PlanInv
    <3>3. saved = 1 .. NCycles(request)
      BY <1>c, <2>2, <3>1, <3>2
    <3>4. \A v \in Workers \ {w} : worker'[v] = worker[v]
      BY <2>4, WorkerMove DEF Inv1, Inv0, TypeOK
    <3> QED
      BY <1>a, <2>1, <3>3, <3>4 DEF WrapInv, WrapUpIsComplete
  <2>5. CASE Move(w, "fail")
    <3>1. /\ worker'[w].pc = "fail"
          /\ \A v \in Workers \ {w} : worker'[v] = worker[v]
      BY <2>5, WorkerMove DEF Inv1, Inv0, TypeOK
    <3> QED
      BY <1>a, <2>1, <3>1, WrapFrame
  <2> QED
    BY <1>7, <2>4, <2>5 DEF RunWrapUp
<1>8. ASSUME NEW w \in Workers, FinishJob(w)
      PROVE  WrapInv'
  <2> DEFINE j == worker[w].job
             releases == status[WrapUp] = "deferred" /\ Unmet(1 .. enqueued) = {j}
  <2>1. /\ worker[w].pc = "finish" /\ worker' = [worker EXCEPT ![w] = Idle]
        /\ UNCHANGED <<saved, enqueued>>
    BY <1>8 DEF FinishJob, webVars
  <2>2. j \in Jobs /\ status[j] = "started"
    BY <2>1, JobInHand DEF Inv1
  <2>3. worker'[w].pc = "idle" /\ \A v \in Workers \ {w} : worker'[v] = worker[v]
    BY <2>1, WorkerStops DEF Inv1, Inv0, TypeOK
  <2>4. CASE releases
    <3>1. /\ j # WrapUp
          /\ \A k \in Jobs : k # WrapUp => status'[k] = IF k = j THEN "finished" ELSE status[k]
      BY <1>8, <2>2, <2>4 DEF FinishJob, Inv1, Inv0, TypeOK
    <3>2. status'[WrapUp] = "queued"
      BY <1>8, <2>4, JobNumbers DEF FinishJob, Inv1, Inv0, TypeOK
    <3>3. \A k \in 1 .. enqueued : k # j => status[k] \in {"finished", "gone"}
      BY <2>4 DEF Unmet
    <3>4. \A k \in 1 .. enqueued : status'[k] \in {"finished", "gone"}
      BY <1>b, <3>1, <3>3
    <3> HIDE DEF j, releases
    <3> QED
      BY <1>a, <2>1, <2>3, <3>2, <3>4 DEF WrapInv, WrapUpIsComplete
  <2>5. CASE ~releases
    <3>1. \A k \in Jobs : status'[k] = IF k = j THEN "finished" ELSE status[k]
      BY <1>8, <2>2, <2>5 DEF FinishJob, Inv1, Inv0, TypeOK
    <3>2. CASE j # WrapUp
      BY <1>a, <1>b, <2>1, <2>3, <3>1, <3>2, JobNumbers, WrapFrame
    <3>3. CASE j = WrapUp
      <4>1. saved = 1 .. NCycles(request) /\ status'[WrapUp] = "finished"
        BY <2>1, <2>2, <3>1, <3>3 DEF WrapInv
      <4> QED
        BY <1>a, <2>1, <2>3, <4>1 DEF WrapInv, WrapUpIsComplete
    <3> QED
      BY <3>2, <3>3
  <2> QED
    BY <2>4, <2>5
<1>9. ASSUME NEW w \in Workers, FailJob(w) \/ KillWorker(w)
      PROVE  WrapInv'
  <2>1. /\ worker' = [worker EXCEPT ![w] = Idle] /\ worker[w].pc # "idle"
        /\ UNCHANGED <<saved, enqueued>>
        /\ status' = [status EXCEPT ![worker[w].job] = "failed"] \/ status' = status
    BY <1>9 DEF FailJob, KillWorker, rqVars, webVars
  <2>2. /\ status[worker[w].job] = "started" /\ worker[w].job \in Jobs
    BY <2>1, JobInHand DEF Inv1
  <2>3. worker'[w].pc = "idle" /\ \A v \in Workers \ {w} : worker'[v] = worker[v]
    BY <2>1, WorkerStops DEF Inv1, Inv0, TypeOK
  <2>4. \A k \in Jobs : status'[k] = status[k]
                         \/ (status[k] = "started" /\ status'[k] = "failed")
    BY <2>1, <2>2 DEF Inv1, Inv0, TypeOK
  <2> QED
    BY <1>a, <1>b, <2>1, <2>3, <2>4, JobNumbers, WrapFrame
<1>10. ASSUME NEW j \in Jobs, AbandonJob(j) \/ Expire(j)
       PROVE  WrapInv'
  <2>1. /\ UNCHANGED <<worker, saved, enqueued>>
        /\ \/ status[j] = "started" /\ status' = [status EXCEPT ![j] = "failed"]
           \/ status' = [status EXCEPT ![j] = "gone"]
    BY <1>10 DEF AbandonJob, Expire, webVars
  <2>2. \A k \in Jobs : \/ status'[k] = status[k]
                        \/ status[k] = "started" /\ status'[k] = "failed"
                        \/ status'[k] = "gone"
    BY <2>1 DEF Inv1, Inv0, TypeOK
  <2> QED
    BY <1>a, <1>b, <2>1, <2>2, JobNumbers, WrapFrame
<1>11. CASE Resolve \/ PlanCycle \/ CommitSource \/ KillWeb \/ AtRest \/ UNCHANGED vars
  BY <1>1, <1>11 DEF Resolve, PlanCycle, CommitSource, KillWeb, AtRest, vars, rqVars, webVars
<1> QED
  BY <1>2, <1>3, <1>4, <1>6, <1>7, <1>8, <1>9, <1>10, <1>11
  DEF Next, WebStep, WorkerStep

Inv2 == Inv1 /\ WrapInv

LEMMA Inv2Init == Init => Inv2
BY Inv1Init, WrapInit DEF Inv2

LEMMA Inv2Next == Inv2 /\ [Next]_vars => Inv2'
BY Inv1Next, WrapNext DEF Inv2

\* A finished wrap-up job means that the forecasts of all cycles are saved.
THEOREM WrapUpMeansComplete == Spec => []WrapUpIsComplete
<1>1. Inv2 => WrapUpIsComplete
  BY DEF Inv2, WrapInv
<1> QED
  BY <1>1, Inv2Init, Inv2Next, PTL DEF Spec

-----------------------------------------------------------------------------
\* Answers.

\* Forecasts that are in the database stay there, as they are.
LEMMA ForecastsStay ==
  ASSUME Inv1, [Next]_vars
  PROVE  /\ request' = request /\ saved \subseteq saved'
         /\ \A k \in saved : cycles'[k] = cycles[k]
<1>1. saved \subseteq 1 .. Len(cycles) /\ cycles \in Seq(Window)
  BY DEF Inv1, Inv0, TypeOK
<1>2. CASE PlanCycle
  <2>1. /\ UNCHANGED <<request, saved>>
        /\ \E c : cycles' = Append(cycles, c)
    BY <1>2 DEF PlanCycle
  <2>2. PICK c : cycles' = Append(cycles, c)
    BY <2>1
  <2>3. \A k \in 1 .. Len(cycles) : cycles'[k] = cycles[k]
    BY <1>1, <2>2
  <2> QED
    BY <1>1, <2>1, <2>3
<1>3. CASE ~PlanCycle
  BY <1>3 DEF Next, WebStep, Resolve, CommitSource, EnqueueCycle, EnqueueWrapUp,
     KillWeb, AtRest, WorkerStep, KillWorker, Dequeue, SaveForecasts,
     RefuseForecasts, ComputeFails, RunWrapUp, FinishJob, FailJob, AbandonJob,
     Expire, vars, webVars
<1> QED
  BY <1>2, <1>3

\* A job that finished stays so until it expires.
LEMMA FinishedStays ==
  ASSUME Inv1, [Next]_vars, NEW j \in Jobs, status[j] = "finished"
  PROVE  status'[j] \in {"finished", "gone"}
<1>1. CASE UNCHANGED status
  BY <1>1
<1>2. CASE EnqueueCycle
  <2>1. enqueued + 1 \in Jobs /\ status[enqueued + 1] = "absent"
    BY <1>2, JobNumbers DEF EnqueueCycle, Inv1, Inv0, TypeOK, JobInv
  <2> QED
    BY <1>2, <2>1 DEF EnqueueCycle, Inv1, Inv0, TypeOK
<1>3. CASE EnqueueWrapUp
  <2>1. status[WrapUp] = "absent"
    BY <1>3 DEF EnqueueWrapUp, Inv1, Inv0, JobInv
  <2> QED
    BY <1>3, <2>1 DEF EnqueueWrapUp, Inv1, Inv0, TypeOK
<1>4. ASSUME NEW w \in Workers, Dequeue(w)
      PROVE  status'[j] \in {"finished", "gone"}
  BY <1>4 DEF Dequeue, Inv1, Inv0, TypeOK
<1>5. ASSUME NEW w \in Workers, FinishJob(w)
      PROVE  status'[j] \in {"finished", "gone"}
  <2>1. worker[w].job \in Jobs /\ status[worker[w].job] = "started"
    BY <1>5, JobInHand DEF FinishJob, Inv1
  <2> QED
    BY <1>5, <2>1 DEF FinishJob, Inv1, Inv0, TypeOK
<1>6. ASSUME NEW w \in Workers, FailJob(w)
      PROVE  status'[j] \in {"finished", "gone"}
  <2>1. worker[w].job \in Jobs /\ status[worker[w].job] = "started"
    BY <1>6, JobInHand DEF FailJob, Inv1
  <2> QED
    BY <1>6, <2>1 DEF FailJob, Inv1, Inv0, TypeOK
<1>7. ASSUME NEW i \in Jobs, AbandonJob(i) \/ Expire(i)
      PROVE  status'[j] \in {"finished", "gone"}
  BY <1>7 DEF AbandonJob, Expire, Inv1, Inv0, TypeOK
<1>8. CASE Resolve \/ PlanCycle \/ CommitSource \/ KillWeb \/ AtRest \/ UNCHANGED vars
  BY <1>1, <1>8 DEF Resolve, PlanCycle, CommitSource, KillWeb, AtRest, vars, rqVars
<1>9. ASSUME NEW w \in Workers,
             \/ SaveForecasts(w) \/ RefuseForecasts(w) \/ ComputeFails(w)
             \/ RunWrapUp(w) \/ KillWorker(w)
      PROVE  status'[j] \in {"finished", "gone"}
  BY <1>1, <1>9 DEF SaveForecasts, RefuseForecasts, ComputeFails, RunWrapUp,
     KillWorker, rqVars
<1> QED
  BY <1>2, <1>3, <1>4, <1>5, <1>6, <1>7, <1>8, <1>9 DEF Next, WebStep, WorkerStep

\* What has been given to a client for a job only grows, until the job expires.
THEOREM AnswersOnlyGrow == Spec => AnswersGrow
<1> DEFINE Grows == \A j \in Jobs : Answer(j).code = "values" =>
                       \/ Answer(j)'.code = "values" /\ Answer(j).of \subseteq Answer(j)'.of
                       \/ Answer(j)'.code = "not found"
<1>1. Inv1 /\ [Next]_vars => Grows
  <2> SUFFICES ASSUME Inv1, [Next]_vars, NEW j \in Jobs, Answer(j).code = "values"
               PROVE  \/ Answer(j)'.code = "values" /\ Answer(j).of \subseteq Answer(j)'.of
                      \/ Answer(j)'.code = "not found"
    OBVIOUS
  <2>1. /\ status[j] = "finished" /\ j # WrapUp
        /\ Answer(j).of = Events /\ Events # {}
    BY DEF Answer, Inv1, Inv0, TypeOK, Statuses
  <2>2. status'[j] \in {"finished", "gone"}
    BY <2>1, FinishedStays
  <2>3. /\ request' = request /\ saved \subseteq saved'
        /\ \A k \in saved : cycles'[k] = cycles[k]
    BY ForecastsStay
  <2>4. Beliefs \subseteq Beliefs'
    BY <2>3 DEF Beliefs, Forecasts
  <2>5. Events \subseteq Events'
    BY <2>3, <2>4 DEF Events
  <2>6. CASE status'[j] = "gone"
    BY <2>6 DEF Answer
  <2>7. CASE status'[j] = "finished"
    <3>1. Events' # {}
      BY <2>1, <2>5
    <3>2. Answer(j)' = [code |-> "values", of |-> Events']
      BY <2>1, <2>7, <3>1 DEF Answer
    <3> QED
      BY <2>1, <2>5, <3>2
  <2> QED
    BY <2>2, <2>6, <2>7
<1>2. Inv1 /\ [Next]_vars => [Grows]_vars
  BY <1>1
<1> QED
  BY <1>2, Inv1Init, Inv1Next, PTL DEF Spec, AnswersGrow

-----------------------------------------------------------------------------
\* What clients are answered.

\* Multiples of a step are in the order of the multipliers.
LEMMA Cancel ==
  ASSUME NEW a \in Nat, NEW b \in Nat, NEW r \in Nat \ {0}
  PROVE  /\ a * r \in Nat /\ (a + 1) * r = a * r + r
         /\ a * r <= b * r <=> a <= b
         /\ a * r < b * r <=> a < b
<1>1. a * r \in Nat /\ b * r \in Nat /\ (a + 1) * r = a * r + r /\ (b + 1) * r = b * r + r
  OBVIOUS
<1>2. a <= b => a * r <= b * r
  OBVIOUS
<1>3. a + 1 <= b => (a + 1) * r <= b * r
  OBVIOUS
<1>4. b + 1 <= a => (b + 1) * r <= a * r
  OBVIOUS
<1>5. b <= a => b * r <= a * r
  OBVIOUS
<1> QED
  BY <1>1, <1>2, <1>3, <1>4, <1>5

\* A multiple leaves no rest.
LEMMA NoRest ==
  ASSUME NEW d \in Nat \ {0}, NEW q \in Nat
  PROVE  (d * q) % d = 0
<1> DEFINE x == d * q
           y == x \div d
           r == x % d
<1>1. x \in Nat
  OBVIOUS
<1>2. y \in Nat /\ x = d * y + r /\ r \in 0 .. d - 1
  BY <1>1
<1>3. d * q = d * y + r
  BY <1>2
<1> HIDE DEF x, y, r
<1>4. CASE q <= y
  <2>1. d * q <= d * y /\ d * q \in Nat /\ d * y \in Nat
    BY <1>2, <1>4
  <2>2. r = 0
    BY <1>2, <1>3, <2>1
  <2> QED
    BY <2>2 DEF r, x
<1>5. CASE y + 1 <= q
  <2>1. d * (y + 1) <= d * q /\ d * (y + 1) = d * y + d
    BY <1>2, <1>5
  <2>2. d * q \in Nat /\ d * y \in Nat
    BY <1>2
  <2> QED
    BY <1>2, <1>3, <2>1, <2>2
<1> QED
  BY <1>2, <1>4, <1>5

\* A division with a rest.
LEMMA Rest ==
  ASSUME NEW n \in Nat, NEW d \in Nat \ {0}
  PROVE  /\ n \div d \in Nat /\ n % d \in 0 .. d - 1
         /\ n = d * (n \div d) + (n % d)
         /\ d * (n \div d) \in Nat /\ d * (n \div d) <= n
         /\ n < d * (n \div d) + d
         /\ n % d = 0 => n = d * (n \div d)
<1> DEFINE q == n \div d
           r == n % d
<1>1. q \in Nat /\ n = d * q + r /\ r \in 0 .. d - 1
  OBVIOUS
<1> HIDE DEF q, r
<1>2. /\ d * q \in Nat /\ d * q <= n /\ n < d * q + d
      /\ r = 0 => n = d * q
  BY <1>1
<1> QED
  BY <1>1, <1>2, Zenon DEF q, r

\* The steps below some number that are a multiple of the frequency.
EachOf(freq, steps) == {i \in 0 .. (steps - 1) : i % freq = 0}

\* Viewpoints one frequency apart, each of which looks at least that far ahead, see
\* every step up to the horizon of the last one, which is beyond the period.
LEMMA ViewpointsSee ==
  ASSUME NEW steps \in Nat \ {0}, NEW freq \in Nat \ {0}, NEW ahead \in Nat,
         freq <= ahead
  PROVE  \E reach \in Nat :
            /\ steps <= reach
            /\ \A n \in Nat :
                 n < reach <=> \E i \in EachOf(freq, steps), h \in 0 .. (ahead - 1) : n = i + h
<1> DEFINE last == freq * ((steps - 1) \div freq)
           seen == {i \in 0 .. (steps - 1) : i % freq = 0}
<1>1. /\ last \in Nat /\ last <= steps - 1 /\ steps - 1 < last + freq
  <2> DEFINE m == steps - 1
  <2>1. m \in Nat
    OBVIOUS
  <2> HIDE DEF m
  <2>2. /\ freq * (m \div freq) \in Nat /\ freq * (m \div freq) <= m
        /\ m < freq * (m \div freq) + freq
    BY <2>1, Rest
  <2> QED
    BY <2>2 DEF m
<1>2. last \in seen
  <2>1. (steps - 1) \div freq \in Nat
    BY Rest
  <2>2. last % freq = 0
    BY <2>1, NoRest
  <2> QED
    BY <1>1, <2>2
<1>3. \A i \in seen : i <= last
  <2> SUFFICES ASSUME NEW i \in seen PROVE i <= last
    OBVIOUS
  <2> DEFINE q == i \div freq
             b == (steps - 1) \div freq
  <2>1. i \in Nat /\ i % freq = 0 /\ q \in Nat /\ i = freq * q /\ i <= steps - 1
    BY Rest
  <2>2. b \in Nat /\ last = freq * b
    BY Rest
  <2> HIDE DEF q, b, last
  <2>3. CASE b + 1 <= q
    <3>1. freq * (b + 1) <= freq * q /\ freq * (b + 1) = freq * b + freq
      BY <2>1, <2>2, <2>3
    <3> QED
      BY <1>1, <2>1, <2>2, <3>1
  <2>4. CASE q <= b
    BY <2>1, <2>2, <2>4
  <2> QED
    BY <2>1, <2>2, <2>3, <2>4
<1> DEFINE reach == last + ahead
<1>4. reach \in Nat /\ steps <= reach
  BY <1>1
<1>5. ASSUME NEW n \in Nat, n < reach
      PROVE  \E i \in seen, h \in 0 .. (ahead - 1) : n = i + h
  <2>1. CASE last <= n
    <3>1. n - last \in 0 .. (ahead - 1) /\ n = last + (n - last)
      BY <1>1, <1>5, <2>1
    <3> QED
      BY <1>2, <3>1
  <2>2. CASE n < last
    <3> DEFINE i == freq * (n \div freq)
               h == n % freq
    <3>1. n \div freq \in Nat /\ h \in 0 .. freq - 1 /\ n = i + h /\ i \in Nat /\ i <= n
      BY Rest
    <3>2. i % freq = 0
      BY <3>1, NoRest
    <3> HIDE DEF i, h, last
    <3>3. i \in 0 .. (steps - 1) /\ h \in 0 .. (ahead - 1)
      BY <1>1, <2>2, <3>1
    <3> QED
      BY <3>1, <3>2, <3>3
  <2> QED
    BY <1>1, <2>1, <2>2
<1>6. ASSUME NEW i \in seen, NEW h \in 0 .. (ahead - 1)
      PROVE  i + h < reach
  <2>1. i \in Nat /\ i <= last
    BY <1>3
  <2> HIDE DEF seen, last
  <2> QED
    BY <1>1, <2>1
<1>7. \A n \in Nat : n < reach <=> \E i \in seen, h \in 0 .. (ahead - 1) : n = i + h
  <2> HIDE DEF reach
  <2> QED
    BY <1>5, <1>6
<1> HIDE DEF reach
<1> QED
  BY <1>4, <1>7 DEF EachOf

\* The events of the forecasts a cycle saves.
Seen(k) == {b[1] : b \in Forecasts(request, cycles[k])}

\* Forecasts are saved of a request that has viewpoints.
FeasibleInv == saved # {} => Feasible(request)

\* Parameters change when they are resolved only, and then they are feasible.
LEMMA FeasibleNext == FeasibleInv /\ [Next]_vars => FeasibleInv'
<1> SUFFICES ASSUME FeasibleInv, [Next]_vars PROVE FeasibleInv'
  OBVIOUS
<1>1. request' = request
  BY DEF Next, WebStep, Resolve, PlanCycle, CommitSource, EnqueueCycle, EnqueueWrapUp,
     KillWeb, AtRest, WorkerStep, KillWorker, Dequeue, SaveForecasts,
     RefuseForecasts, ComputeFails, RunWrapUp, FinishJob, FailJob, AbandonJob,
     Expire, vars, webVars
<1>2. saved' = saved \/ Feasible(request)
  BY DEF Next, WebStep, Resolve, PlanCycle, CommitSource, EnqueueCycle, EnqueueWrapUp,
     KillWeb, AtRest, WorkerStep, KillWorker, Dequeue, SaveForecasts,
     RefuseForecasts, ComputeFails, RunWrapUp, FinishJob, FailJob, AbandonJob,
     Expire, vars
<1> QED
  BY <1>1, <1>2 DEF FeasibleInv

\* The clock of a request whose cycles and hours are whole numbers of steps: each saved
\* cycle k saw the slots (k - 1) * pace + 0, 1, ... up to a reach that is no shorter
\* than the period, in which all cycles start.
LEMMA CyclesSee ==
  ASSUME Inv1, FeasibleInv, saved # {},
         Frequency(request) <= Horizon(request),
         CycleFrequency(request) % request.resolution = 0,
         Hour % request.resolution = 0
  PROVE  \E reach \in Nat, pace \in Nat \ {0} :
            /\ CycleFrequency(request) = pace * request.resolution
            /\ Steps(request) \in Nat
            /\ Hours(request) * Hour = Steps(request) * request.resolution
            /\ Steps(request) <= reach
            /\ \A k \in saved :
                 /\ k \in Nat \ {0}
                 /\ (k - 1) * pace <= reach
                 /\ Seen(k) = {((k - 1) * pace + n) * request.resolution :
                                  n \in {n \in Nat : n < reach}}
<1> DEFINE res == request.resolution
           cf == CycleFrequency(request)
           pace == cf \div res
           steps == Steps(request)
           freq == FrequencySteps(request)
           ahead == HorizonSteps(request)
<1>1. /\ request \in Requests /\ res \in Nat \ {0} /\ cf \in Nat \ {0}
      /\ Hour \in Nat \ {0} /\ Hours(request) \in Nat
      /\ Frequency(request) \in Nat /\ Horizon(request) \in Nat
  BY Timing, ForecastAssumption DEF Inv1, Inv0, TypeOK
<1>2. pace \in Nat \ {0} /\ cf = pace * res
  <2>1. pace \in Nat /\ cf = res * pace
    BY <1>1, Rest
  <2> HIDE DEF pace, res, cf
  <2> QED
    BY <1>1, <2>1
<1>3. /\ steps \in Nat \ {0} /\ freq \in Nat \ {0} /\ ahead \in Nat
      /\ Hours(request) * Hour = steps * res
  <2> DEFINE perHour == Hour \div res
  <2>1. perHour \in Nat /\ Hour = res * perHour
    BY <1>1, Rest
  <2>2. steps = Hours(request) * perHour
    BY DEF Steps
  <2>3. freq \in Nat /\ ahead \in Nat
    BY <1>1, Rest DEF FrequencySteps, HorizonSteps
  <2>4. steps > 0 /\ freq > 0
    BY DEF FeasibleInv, Feasible
  <2> HIDE DEF perHour, res, steps, freq, ahead
  <2>5. steps \in Nat
    BY <1>1, <2>1, <2>2
  <2>6. Hours(request) * Hour = steps * res
    BY <1>1, <2>1, <2>2
  <2> QED
    BY <2>3, <2>4, <2>5, <2>6
<1>4. freq <= ahead
  <2> DEFINE f == Frequency(request)
             h == Horizon(request)
  <2>1. /\ freq \in Nat /\ res * freq <= f /\ ahead \in Nat /\ h = res * ahead + (h % res)
        /\ h % res \in 0 .. res - 1
    BY <1>1, Rest DEF FrequencySteps, HorizonSteps
  <2> HIDE DEF f, h, res, freq, ahead
  <2>2. CASE ahead + 1 <= freq
    <3>1. res * (ahead + 1) <= res * freq /\ res * (ahead + 1) = res * ahead + res
      BY <1>1, <2>1, <2>2
    <3>2. f <= h /\ f \in Nat /\ h \in Nat
      BY <1>1 DEF f, h
    <3>3. res * freq \in Nat /\ res * ahead \in Nat
      BY <1>1, <2>1
    <3> QED
      BY <1>1, <2>1, <3>1, <3>2, <3>3
  <2> QED
    BY <2>1, <2>2
<1>5. Viewpoints(request) = EachOf(freq, steps)
  BY DEF Viewpoints, EachOf
<1>6. PICK reach \in Nat :
          /\ steps <= reach
          /\ \A n \in Nat :
               n < reach <=>
                  \E i \in Viewpoints(request), h \in 0 .. (ahead - 1) : n = i + h
  <2> HIDE DEF steps, freq, ahead
  <2>1. \E reach \in Nat :
            /\ steps <= reach
            /\ \A n \in Nat :
                 n < reach <=> \E i \in EachOf(freq, steps), h \in 0 .. (ahead - 1) : n = i + h
    <3>1. \A s, f \in Nat \ {0}, a \in Nat : f <= a =>
             \E reach \in Nat :
                /\ s <= reach
                /\ \A n \in Nat :
                     n < reach <=> \E i \in EachOf(f, s), h \in 0 .. (a - 1) : n = i + h
      BY ViewpointsSee
    <3>2. steps \in Nat \ {0} /\ freq \in Nat \ {0} /\ ahead \in Nat /\ freq <= ahead
      BY <1>3, <1>4
    <3> DEFINE Q(s, f, a) == \E reach \in Nat :
                /\ s <= reach
                /\ \A n \in Nat :
                     n < reach <=> \E i \in EachOf(f, s), h \in 0 .. (a - 1) : n = i + h
    <3>3. \A s, f \in Nat \ {0}, a \in Nat : f <= a => Q(s, f, a)
      BY <3>1
    <3> HIDE DEF Q
    <3>4. Q(steps, freq, ahead)
      BY <3>2, <3>3
    <3> QED
      BY <3>4, Zenon DEF Q
  <2> QED
    BY <1>5, <2>1
<1>7. ASSUME NEW k \in saved
      PROVE  /\ k \in Nat \ {0}
             /\ (k - 1) * pace <= reach
             /\ Seen(k) = {((k - 1) * pace + n) * res : n \in {n \in Nat : n < reach}}
  <2>1. /\ k \in 1 .. Len(cycles) /\ k \in 1 .. NCycles(request) /\ k \in Nat \ {0}
        /\ ~Rejected(request)
    <3>1. Len(cycles) \in Nat /\ k \in 1 .. Len(cycles) /\ NCycles(request) \in Nat
      BY Timing DEF Inv1, Inv0, TypeOK
    <3>2. Len(cycles) <= NCycles(request) /\ cycles # <<>>
      BY <3>1 DEF Inv1, Inv0, PlanInv
    <3> QED
      BY <3>1, <3>2 DEF Inv1, Inv0, PlanInv
  <2>2. cycles[k].start = (k - 1) * cf
    BY <2>1 DEF Inv1, WindowInv
  <2>3. (k - 1) * cf = ((k - 1) * pace) * res
    <3> HIDE DEF pace, cf, res
    <3> QED
      BY <1>1, <1>2, <2>1
  <2>4. (k - 1) * pace <= reach
    <3>1. CASE NCycles(request) = 1
      <4>1. k = 1
        BY <2>1, <3>1
      <4> QED
        BY <1>2, <4>1
    <3>2. CASE NCycles(request) # 1
      <4>1. k * cf <= Hours(request) * Hour /\ k * cf = (k - 1) * cf + cf
        BY <1>1, <2>1, <3>2, CyclesFit
      <4> HIDE DEF cf, res, pace, steps
      <4> DEFINE a == (k - 1) * pace
      <4>2. k - 1 \in Nat /\ a \in Nat
        BY <1>2, <2>1
      <4>3. (k - 1) * cf = a * res /\ (k - 1) * cf \in Nat
        BY <1>1, <2>1, <2>3
      <4>4. steps * res \in Nat
        BY <1>1, <1>3
      <4> HIDE DEF a
      <4>5. a * res <= steps * res
        BY <1>1, <1>3, <4>1, <4>3, <4>4
      <4>6. a <= steps
        BY <1>1, <1>3, <4>2, <4>5, Cancel
      <4> QED
        BY <1>3, <1>6, <4>2, <4>6 DEF a
    <3> QED
      BY <3>1, <3>2
  <2> DEFINE a == (k - 1) * pace
  <2>5. a \in Nat
    BY <1>2, <2>1
  <2>0. cycles[k].start = a * res
    BY <2>2, <2>3
  <2>6. Seen(k) = {a * res + (i + h) * res : i \in Viewpoints(request), h \in 0 .. (ahead - 1)}
    <3> HIDE DEF a
    <3>1. Forecasts(request, cycles[k]) =
             {<<a * res + (i + h) * res, i>> :
                 i \in Viewpoints(request), h \in 0 .. (ahead - 1)}
      BY <2>0 DEF Forecasts
    <3> DEFINE F == Forecasts(request, cycles[k])
    <3>2. F = {<<a * res + (i + h) * res, i>> :
                  i \in Viewpoints(request), h \in 0 .. (ahead - 1)}
      BY <3>1
    <3>3. Seen(k) = {b[1] : b \in F}
      BY DEF Seen
    <3> HIDE DEF res, ahead, F
    <3>4. ASSUME NEW x \in Seen(k)
          PROVE  \E i \in Viewpoints(request), h \in 0 .. (ahead - 1) :
                     x = a * res + (i + h) * res
      BY <3>2, <3>3
    <3>5. ASSUME NEW i \in Viewpoints(request), NEW h \in 0 .. (ahead - 1)
          PROVE  a * res + (i + h) * res \in Seen(k)
      <4> DEFINE b == <<a * res + (i + h) * res, i>>
      <4>1. b \in F /\ b[1] = a * res + (i + h) * res
        BY <3>2
      <4> QED
        BY <3>3, <4>1
    <3> QED
      BY <3>4, <3>5
  <2>7. \A n \in Nat : (a + n) * res = a * res + n * res
    <3> HIDE DEF a, res
    <3> QED
      BY <1>1, <2>5
  <2>8. \A i \in Viewpoints(request), h \in 0 .. (ahead - 1) : i + h \in Nat
    BY <1>3 DEF Viewpoints
  <2>9. \A n \in Nat :
          n < reach <=> \E i \in Viewpoints(request), h \in 0 .. (ahead - 1) : n = i + h
    BY <1>6
  <2> HIDE DEF a, res, ahead, steps, freq, pace, cf
  <2>10. \A x \in Seen(k) : \E n \in Nat : n < reach /\ x = (a + n) * res
    BY <2>6, <2>7, <2>8, <2>9
  <2>11. \A n \in Nat : n < reach => (a + n) * res \in Seen(k)
    BY <2>6, <2>7, <2>9
  <2>12. Seen(k) = {(a + n) * res : n \in {n \in Nat : n < reach}}
    BY <2>10, <2>11
  <2> QED
    BY <2>1, <2>4, <2>12 DEF a
<1> QED
  BY <1>2, <1>3, <1>6, <1>7

\* What is answered has no gap, and the window of a finished cycle is in it.
LEMMA WholeAnswers ==
  ASSUME Inv1, FeasibleInv
  PROVE  AnswersWhole
<1> DEFINE res == request.resolution
           last(c) == Smaller(c.end, c.start + Hours(request) * Hour)
<1>1. SUFFICES ASSUME Frequency(request) <= Horizon(request),
                      CycleFrequency(request) % res = 0, Hour % res = 0,
                      saved # {}
               PROVE  /\ \A d, e \in Events : d < e => d + res \in Events
                      /\ \A k \in 1 .. enqueued : status[k] = "finished" =>
                           \A i \in 0 .. ((last(cycles[k]) - cycles[k].start) \div res - 1) :
                               cycles[k].start + i * res \in Events
  <2>1. saved = {} => Events = {}
    BY DEF Events, Beliefs
  <2>2. saved = {} => \A k \in 1 .. enqueued : status[k] # "finished"
    <3> SUFFICES ASSUME saved = {}, NEW k \in 1 .. enqueued PROVE status[k] # "finished"
      OBVIOUS
    <3>1. k \in Jobs /\ k # WrapUp
      BY JobNumbers DEF Inv1, Inv0, TypeOK
    <3> QED
      BY <3>1 DEF Inv1, SavedInv
  <2> QED
    BY <2>1, <2>2 DEF AnswersWhole
<1>2. /\ request \in Requests /\ res \in Nat \ {0} /\ request.end \in Nat
      /\ cycles \in Seq(Window) /\ Len(cycles) \in Nat /\ enqueued \in 0 .. Len(cycles)
  BY Timing DEF Inv1, Inv0, TypeOK
<1>3. PICK reach \in Nat, pace \in Nat \ {0} :
          /\ CycleFrequency(request) = pace * res
          /\ Steps(request) \in Nat
          /\ Hours(request) * Hour = Steps(request) * res
          /\ Steps(request) <= reach
          /\ \A k \in saved :
               /\ k \in Nat \ {0}
               /\ (k - 1) * pace <= reach
               /\ Seen(k) = {((k - 1) * pace + n) * res : n \in {n \in Nat : n < reach}}
  BY <1>1, CyclesSee
<1>4. \A x : x \in Events <=> \E k \in saved : x \in Seen(k) /\ x + res <= request.end
  BY DEF Events, Beliefs, Seen
<1>5. \A k \in saved : (k - 1) * pace \in Nat
  <2> TAKE k \in saved
  <2>1. k - 1 \in Nat
    BY <1>3
  <2> QED
    BY <1>3, <2>1
<1>6. ASSUME NEW d \in Events, NEW e \in Events, d < e
      PROVE  d + res \in Events
  <2>1. PICK k \in saved : d \in Seen(k)
    BY <1>4
  <2>2. PICK j \in saved : e \in Seen(j) /\ e + res <= request.end
    BY <1>4
  <2> DEFINE a == (k - 1) * pace
             b == (j - 1) * pace
  <2>3. a \in Nat /\ b \in Nat /\ a <= reach /\ b <= reach
    BY <1>3, <1>5
  <2>4. PICK n \in Nat : n < reach /\ d = (a + n) * res
    BY <1>3, <2>1
  <2>5. PICK m \in Nat : m < reach /\ e = (b + m) * res
    BY <1>3, <2>2
  <2>6. \A i \in Nat : i < reach => (a + i) * res \in Seen(k) /\ (b + i) * res \in Seen(j)
    BY <1>3
  <2> HIDE DEF a, b, res, last
  <2>7. /\ a + n \in Nat /\ b + m \in Nat /\ a + n < b + m
        /\ (a + n + 1) * res = d + res
    <3> DEFINE s == a + n
               t == b + m
    <3>1. s \in Nat /\ t \in Nat /\ d = s * res /\ e = t * res
      BY <2>3, <2>4, <2>5
    <3> HIDE DEF s, t
    <3>2. s < t /\ (s + 1) * res = d + res
      BY <1>2, <1>6, <3>1, Cancel
    <3> QED
      BY <3>1, <3>2 DEF s, t
  <2>8. d + res + res <= request.end
    <3> DEFINE s == a + n + 1
               t == b + m
    <3>1. s \in Nat /\ t \in Nat /\ s <= t /\ d + res = s * res /\ e = t * res
      BY <2>3, <2>5, <2>7
    <3> HIDE DEF s, t
    <3>2. s * res <= t * res /\ s * res \in Nat /\ t * res \in Nat
      BY <1>2, <3>1, Cancel
    <3> QED
      BY <1>2, <2>2, <3>1, <3>2
  <2>9. \E i \in saved : d + res \in Seen(i)
    <3>1. CASE n + 1 < reach
      <4>1. (a + (n + 1)) * res \in Seen(k)
        BY <2>6, <3>1
      <4>2. a + (n + 1) = a + n + 1
        BY <2>3
      <4> QED
        BY <2>7, <4>1, <4>2
    <3>2. CASE n + 1 = reach
      <4> DEFINE i == a + n + 1 - b
      <4>1. i \in Nat /\ i < reach /\ b + i = a + n + 1
        BY <2>3, <2>5, <2>7, <3>2
      <4> HIDE DEF i
      <4>2. (b + i) * res \in Seen(j)
        BY <2>6, <4>1
      <4> QED
        BY <2>7, <4>1, <4>2
    <3> QED
      BY <2>4, <3>1, <3>2
  <2> QED
    BY <1>4, <2>8, <2>9
<1>7. ASSUME NEW k \in 1 .. enqueued, status[k] = "finished",
             NEW i \in 0 .. ((last(cycles[k]) - cycles[k].start) \div res - 1)
      PROVE  cycles[k].start + i * res \in Events
  <2> DEFINE start == cycles[k].start
             end == cycles[k].end
             upto == last(cycles[k])
             a == (k - 1) * pace
  <2>1. k \in Jobs /\ k # WrapUp /\ k \in 1 .. Len(cycles)
    BY <1>2, JobNumbers DEF Inv1, Inv0, TypeOK
  <2>2. k \in saved
    BY <1>7, <2>1 DEF Inv1, SavedInv
  <2>3. start < end /\ end <= request.end /\ start \in Nat /\ end \in Nat
    <3>1. WindowsTile
      BY WindowsTileInv DEF Inv1
    <3>2. cycles[k] \in Window
      BY <1>2, <2>1
    <3> QED
      BY <2>1, <3>1, <3>2 DEF WindowsTile, Window
  <2>4. start = a * res /\ a \in Nat
    <3>1. start = (k - 1) * CycleFrequency(request)
      BY <2>1 DEF Inv1, WindowInv
    <3>2. k - 1 \in Nat
      BY <2>1, <1>2
    <3>3. (k - 1) * (pace * res) = ((k - 1) * pace) * res
      BY <1>2, <1>3, <3>2
    <3> QED
      BY <1>3, <1>5, <2>2, <3>1, <3>3
  <2>5. /\ upto \in Nat /\ start < upto /\ upto <= end
        /\ upto - start <= Steps(request) * res
    <3>1. Steps(request) * res \in Nat /\ Hours(request) * Hour = Steps(request) * res
      BY <1>2, <1>3
    <3>2. upto = IF end < start + Steps(request) * res THEN end
                 ELSE start + Steps(request) * res
      BY <3>1 DEF Smaller
    <3>3. Steps(request) * res # 0
      <4>1. Steps(request) > 0
        BY <1>1 DEF FeasibleInv, Feasible
      <4> QED
        BY <1>2, <1>3, <4>1
    <3> QED
      BY <2>3, <3>1, <3>2, <3>3
  <2> DEFINE m == (upto - start) \div res
  <2> HIDE DEF start, end, upto, a, res, last
  <2>6. m \in Nat /\ m * res <= upto - start
    <3> DEFINE x == upto - start
    <3>1. x \in Nat
      BY <2>3, <2>5
    <3> HIDE DEF x
    <3>2. x \div res \in Nat /\ res * (x \div res) <= x
      BY <1>2, <3>1, Rest
    <3>3. m = x \div res
      BY DEF x
    <3> HIDE DEF m
    <3>4. m * res = res * m
      BY <1>2, <3>2, <3>3
    <3>5. m \in Nat /\ m * res <= x
      BY <3>2, <3>3, <3>4
    <3> QED
      BY <3>5 DEF x
  <2>7. i \in Nat /\ i + 1 <= m
    <3>1. i \in 0 .. (m - 1)
      BY DEF upto, start, res, last
    <3> HIDE DEF m
    <3> QED
      BY <2>6, <3>1
  <2> HIDE DEF m
  <2>8. (i + 1) * res <= upto - start /\ (i + 1) * res = i * res + res /\ i * res \in Nat
    <3>1. (i + 1) * res <= m * res /\ (i + 1) * res \in Nat /\ m * res \in Nat
      BY <1>2, <2>6, <2>7, Cancel
    <3> QED
      BY SMTT(30), <1>2, <2>3, <2>5, <2>6, <2>7, <3>1, Cancel
  <2>9. i < reach
    <3>1. (i + 1) * res <= Steps(request) * res
      BY SMTT(30), <1>2, <1>3, <2>3, <2>5, <2>7, <2>8
    <3> DEFINE n == i + 1
               steps == Steps(request)
    <3>0. n \in Nat /\ steps \in Nat /\ n * res <= steps * res
      BY <1>3, <2>7, <3>1
    <3> HIDE DEF n, steps
    <3>2. n <= steps
      BY <1>2, <3>0, Cancel
    <3> QED
      BY <1>3, <2>7, <3>2 DEF n, steps
  <2>10. (a + i) * res \in Seen(k)
    BY <1>3, <2>2, <2>7, <2>9 DEF a, res
  <2>11. (a + i) * res = start + i * res
    BY <1>2, <2>4, <2>7
  <2>12. start + i * res + res <= request.end
    <3> DEFINE x == i * res
    <3>1. x \in Nat /\ x + res <= upto - start
      BY <2>8
    <3> HIDE DEF x
    <3>2. start + x + res <= request.end
      BY <1>2, <2>3, <2>5, <3>1 DEF res
    <3> QED
      BY <3>2 DEF x
  <2> QED
    BY <1>4, <2>2, <2>10, <2>11, <2>12 DEF start, res
<1> QED
  BY <1>6, <1>7

\* The values of an answer follow each other without a gap, whichever cycles have been
\* saved, and include those of every cycle that finished.
THEOREM AnswersAreWhole == Spec => []AnswersWhole
<1>1. Init => FeasibleInv
  BY DEF Init, FeasibleInv
<1>2. Inv1 /\ FeasibleInv => AnswersWhole
  BY WholeAnswers
<1> QED
  BY <1>1, <1>2, Inv1Init, Inv1Next, FeasibleNext, PTL DEF Spec

=============================================================================
