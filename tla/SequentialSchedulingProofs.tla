---------------------- MODULE SequentialSchedulingProofs ----------------------
(***************************************************************************)
(* Proofs about SequentialScheduling, for chains of any length, any number *)
(* of workers, and processes killed at any time.                           *)
(***************************************************************************)
EXTENDS SequentialScheduling, TLAPS

\* The type invariant, and which jobs a worker can hold.
TypeInv ==
    /\ TypeOK
    /\ \A w \in Workers :
         /\ worker[w].pc = "idle" => worker[w].job = 0
         /\ worker[w].pc # "idle" => worker[w].job \in Jobs
         /\ worker[w].pc = "callback" => worker[w].job \in Fallbacks

\* The chain's jobs are positive, their fallbacks negative.
LEMMA JobNumbers ==
    /\ WrapUp = NDevices + 1 /\ WrapUp \in Nat /\ NDevices \in Nat \ {0}
    /\ \A k \in Chain : k \in Int
    /\ \A k \in Devices : k \in Int
    /\ \A k \in Int : k \in Chain <=> 1 <= k /\ k <= WrapUp
    /\ \A k \in Int : k \in Devices <=> 1 <= k /\ k <= NDevices
    /\ \A j \in Jobs : j \in Int /\ j # 0
    /\ \A k \in Chain : k \in Jobs /\ k > 0 /\ k <= NDevices + 1 /\ Device(k) = k
    /\ \A k \in Devices : k \in Chain /\ k + 1 \in Chain /\ k # WrapUp
    /\ \A k \in Devices : -k \in Fallbacks /\ -k \in Jobs /\ Device(-k) = k
    /\ \A j \in Fallbacks : j < 0 /\ Device(j) \in Devices /\ j = -Device(j)
    /\ \A j \in Jobs : j # WrapUp => Device(j) \in Devices
    /\ WrapUp \in Chain /\ Device(WrapUp) = NDevices + 1
    /\ \A j \in Jobs : j \in Devices \/ j = WrapUp \/ j \in Fallbacks
    /\ 0 \notin Jobs
BY SequentialAssumption DEF Jobs, Chain, Devices, Fallbacks, WrapUp, Device

\* A worker goes on to its next step with the same job.
LEMMA WorkerMove ==
  ASSUME worker \in [Workers -> WorkerState], NEW w \in Workers,
         NEW l \in {"callback", "finish", "fail"}, Move(w, l)
  PROVE  /\ worker' \in [Workers -> WorkerState]
         /\ worker'[w].pc = l /\ worker'[w].job = worker[w].job
         /\ \A v \in Workers \ {w} : worker'[v] = worker[v]
BY DEF WorkerState, Move

\* One worker's control state changes, the others' do not.
LEMMA WorkerSet ==
  ASSUME worker \in [Workers -> WorkerState], NEW w \in Workers,
         NEW s \in WorkerState, worker' = [worker EXCEPT ![w] = s]
  PROVE  /\ worker' \in [Workers -> WorkerState]
         /\ worker'[w] = s
         /\ \A v \in Workers \ {w} : worker'[v] = worker[v]
OBVIOUS

\* An idle worker.
LEMMA IdleState == Idle \in WorkerState /\ Idle.pc = "idle" /\ Idle.job = 0
BY DEF Idle, WorkerState

\* The type invariant holds initially.
LEMMA TypeInit == Init => TypeInv
<1>1. 1 \in 0 .. (WrapUp + 1)
  BY JobNumbers
<1> QED
  <2>1. Init => late \in BOOLEAN
    BY DEF Init
  <2>2. Init => /\ worker \in [Workers -> WorkerState]
                /\ \A w \in Workers : worker[w].pc = "idle" /\ worker[w].job = 0
    BY IdleState DEF Init
  <2> QED
    BY <1>1, <2>1, <2>2 DEF Init, TypeInv, TypeOK, Statuses

\* Every step keeps the type invariant: one case per action.
LEMMA TypeNext == TypeInv /\ [Next]_vars => TypeInv'
<1> SUFFICES ASSUME TypeInv, [Next]_vars PROVE TypeInv'
  OBVIOUS
<1> USE DEF TypeInv, TypeOK, Statuses, vars, rqVars
<1>1. CASE EnqueueNext
  <2>1. next \in Jobs /\ next + 1 \in 0 .. (WrapUp + 1)
    BY <1>1, JobNumbers DEF EnqueueNext
  <2>2. CASE ~Unmet(next)
    <3>1. /\ status' = [status EXCEPT ![next] = "queued"]
          /\ queue' = Append(queue, next)
          /\ next' = next + 1
          /\ UNCHANGED <<registry, waiting, worker, planned, late, crashes>>
      BY <1>1, <2>2 DEF EnqueueNext
    <3>2. status' \in [Jobs -> Statuses] /\ queue' \in Seq(Jobs)
      BY <2>1, <3>1
    <3> QED
      BY <2>1, <3>1, <3>2
  <2>3. CASE Unmet(next)
    <3>1. next # 1
      BY <2>3 DEF Unmet
    <3>2. late' \in BOOLEAN
      BY <1>1, <2>3 DEF EnqueueNext
    <3> QED
      BY <1>1, <2>1, <2>3, <3>1, <3>2 DEF EnqueueNext
  <2> QED
    BY <2>2, <2>3
<1>2. CASE RejectDevice
  BY <1>2, JobNumbers DEF RejectDevice
<1>3. CASE KillWeb
  BY <1>3, JobNumbers DEF KillWeb
<1>4. CASE ClearDeferred
  BY <1>4 DEF ClearDeferred
<1>5. ASSUME NEW w \in Workers, WorkerStep(w) \/ KillWorker(w)
      PROVE  TypeInv'
  <2>1. CASE Dequeue(w)
    <3>1. Head(queue) \in Jobs /\ Tail(queue) \in Seq(Jobs)
      BY <2>1 DEF Dequeue
    <3>2. [pc |-> "compute", job |-> Head(queue)] \in WorkerState
      BY <3>1 DEF WorkerState
    <3>3. /\ worker' \in [Workers -> WorkerState]
          /\ worker'[w] = [pc |-> "compute", job |-> Head(queue)]
          /\ \A v \in Workers \ {w} : worker'[v] = worker[v]
      BY <2>1, <3>2, WorkerSet DEF Dequeue
    <3> QED
      BY <2>1, <3>1, <3>3 DEF Dequeue
  <2>2. CASE SaveSchedule(w)
    <3> DEFINE l == IF worker[w].job < 0 THEN "callback" ELSE "finish"
    <3>1. worker[w].job \in Jobs
      BY <2>2 DEF SaveSchedule
    <3>2. planned' \subseteq Devices
      BY <2>2, <3>1, JobNumbers DEF SaveSchedule
    <3>3. Move(w, l) /\ l \in {"callback", "finish", "fail"}
      BY <2>2 DEF SaveSchedule
    <3>4. /\ worker' \in [Workers -> WorkerState]
          /\ worker'[w].pc = l /\ worker'[w].job = worker[w].job
          /\ \A v \in Workers \ {w} : worker'[v] = worker[v]
      BY <3>3, WorkerMove
    <3>5. l = "callback" => worker[w].job \in Fallbacks
      BY <3>1, JobNumbers
    <3> HIDE DEF l
    <3>6. UNCHANGED <<rqVars, next, late, crashes>>
      BY <2>2 DEF SaveSchedule
    <3> QED
      BY <3>1, <3>2, <3>3, <3>4, <3>5, <3>6
  <2>3. CASE ComputeInfeasible(w)
    <3>1. -worker[w].job \in Jobs
      BY <2>3, JobNumbers DEF ComputeInfeasible
    <3>2. /\ worker' \in [Workers -> WorkerState]
          /\ worker'[w].pc = "fail" /\ worker'[w].job = worker[w].job
          /\ \A v \in Workers \ {w} : worker'[v] = worker[v]
      BY <2>3, WorkerMove DEF ComputeInfeasible
    <3> QED
      BY <2>3, <3>1, <3>2 DEF ComputeInfeasible
  <2>4. CASE ComputeFails(w)
    <3>1. /\ worker' \in [Workers -> WorkerState]
          /\ worker'[w].pc = "fail" /\ worker'[w].job = worker[w].job
          /\ \A v \in Workers \ {w} : worker'[v] = worker[v]
      BY <2>4, WorkerMove DEF ComputeFails
    <3> QED
      BY <2>4, <3>1 DEF ComputeFails
  <2>5. CASE SuccessCallback(w)
    <3> DEFINE n == Device(worker[w].job) + 1
    <3>1. PICK l \in {"finish", "fail"} : Move(w, l)
      BY <2>5 DEF SuccessCallback
    <3>2. /\ worker' \in [Workers -> WorkerState]
          /\ worker'[w].pc = l /\ worker'[w].job = worker[w].job
          /\ \A v \in Workers \ {w} : worker'[v] = worker[v]
      BY <3>1, WorkerMove
    <3>3. worker[w].pc = "callback" /\ UNCHANGED <<waiting, next, planned, late, crashes>>
      BY <2>5 DEF SuccessCallback
    <3>4. n \in registry => n \in Jobs
      BY JobNumbers
    <3>5. \/ UNCHANGED <<status, queue, registry>>
          \/ /\ n \in registry
             /\ registry' = registry \ {n}
             /\ status' = [status EXCEPT ![n] = "queued"]
             /\ queue' = Append(queue, n)
      BY <2>5 DEF SuccessCallback
    <3> HIDE DEF n
    <3>6. CASE UNCHANGED <<status, queue, registry>>
      BY <3>2, <3>3, <3>6
    <3>7. CASE /\ n \in registry
               /\ registry' = registry \ {n}
               /\ status' = [status EXCEPT ![n] = "queued"]
               /\ queue' = Append(queue, n)
      BY <3>2, <3>3, <3>4, <3>7
    <3> QED
      BY <3>5, <3>6, <3>7
  <2>6. CASE FinishJob(w)
    <3> DEFINE j == worker[w].job
               n == worker[w].job + 1
    <3>1. /\ worker' \in [Workers -> WorkerState]
          /\ worker'[w] = Idle
          /\ \A v \in Workers \ {w} : worker'[v] = worker[v]
      BY <2>6, WorkerSet, IdleState DEF FinishJob
    <3>2. worker[w].pc = "finish" /\ UNCHANGED <<next, planned, late, crashes>>
      BY <2>6 DEF FinishJob
    <3>3. \/ /\ n \in waiting
             /\ status' = [status EXCEPT ![j] = "finished", ![n] = "queued"]
             /\ queue' = Append(queue, n)
             /\ registry' = registry \ {n}
             /\ waiting' = waiting \ {n}
          \/ /\ status' = [status EXCEPT ![j] = "finished"]
             /\ UNCHANGED <<queue, registry, waiting>>
      BY <2>6 DEF FinishJob, Dependents
    <3>4. n \in waiting => n \in Jobs
      BY JobNumbers
    <3> HIDE DEF j, n
    <3>5. /\ status' \in [Jobs -> Statuses]
          /\ queue' \in Seq(Jobs)
          /\ registry' \subseteq Chain
          /\ waiting' \subseteq Chain \ {1}
      <4>1. CASE UNCHANGED <<queue, registry, waiting>>
        BY <3>3, <4>1
      <4>2. CASE /\ n \in waiting
                 /\ status' = [status EXCEPT ![j] = "finished", ![n] = "queued"]
                 /\ queue' = Append(queue, n)
                 /\ registry' = registry \ {n}
                 /\ waiting' = waiting \ {n}
        BY <3>4, <4>2
      <4> QED
        BY <3>3, <4>1, <4>2
    <3> QED
      BY <3>1, <3>2, <3>5, IdleState
  <2>7. CASE FailJob(w)
    <3>1. /\ worker' \in [Workers -> WorkerState]
          /\ worker'[w] = Idle
          /\ \A v \in Workers \ {w} : worker'[v] = worker[v]
      BY <2>7, WorkerSet, IdleState DEF FailJob
    <3> QED
      BY <2>7, <3>1, IdleState DEF FailJob
  <2>8. CASE KillWorker(w)
    <3>1. /\ worker' \in [Workers -> WorkerState]
          /\ worker'[w] = Idle
          /\ \A v \in Workers \ {w} : worker'[v] = worker[v]
      BY <2>8, WorkerSet, IdleState DEF KillWorker
    <3> QED
      BY <2>8, <3>1, IdleState DEF KillWorker
  <2> QED
    BY <1>5, <2>1, <2>2, <2>3, <2>4, <2>5, <2>6, <2>7, <2>8 DEF WorkerStep
<1>6. CASE \E j \in Jobs : AbandonJob(j)
  BY <1>6 DEF AbandonJob
<1>7. CASE AtRest \/ UNCHANGED vars
  BY <1>7 DEF AtRest
<1> QED
  BY <1>1, <1>2, <1>3, <1>4, <1>5, <1>6, <1>7 DEF Next

\* The state is always of the declared type.
THEOREM Typing == Spec => []TypeInv
BY TypeInit, TypeNext, PTL DEF Spec

\* TypeOK: every value stays within its type, for chains of any length.
THEOREM TypeCorrect == Spec => []TypeOK
<1>1. TypeInv => TypeOK
  BY DEF TypeInv
<1> QED
  BY <1>1, Typing, PTL

-----------------------------------------------------------------------------
\* What the status of a job says about where its id is and what has happened to
\* the job before it.
QueuedOnly == \A i \in 1 .. Len(queue) : status[queue[i]] = "queued"

RunningStarted ==
    \A w \in Workers : worker[w].pc # "idle" => status[worker[w].job] = "started"

Unreached ==
    next # 0 => \A k \in Chain : k >= next => status[k] = "absent"

RegistryDeferred == \A k \in registry : status[k] = "deferred"

\* A dependent that was released early owes it to its predecessor's fallback.
WaitingDeferred ==
    \A k \in waiting : status[k] = "deferred" \/ status[-(k - 1)] # "absent"

\* A device that has a fallback job has failed, or is about to.
FallbackFollows ==
    \A k \in Devices : status[-k] # "absent" =>
        /\ status[k] \in {"started", "failed"}
        /\ \A w \in Workers : worker[w].job = k => worker[w].pc = "fail"

RunInv ==
    /\ ReleasedOnce
    /\ QueuedOnly
    /\ RunningStarted
    /\ Unreached
    /\ RegistryDeferred
    /\ WaitingDeferred
    /\ FallbackFollows

\* Putting a job in the queue that is neither there nor with a worker.
LEMMA ReleaseOnce ==
  ASSUME TypeInv, ReleasedOnce, QueuedOnly, RunningStarted,
         NEW j \in Jobs, status[j] \notin {"queued", "started"},
         queue' = Append(queue, j), status'[j] = "queued",
         \A x \in Jobs : status[x] = "queued" => status'[x] = "queued",
         \A w \in Workers : worker'[w].job \in {worker[w].job, 0}
  PROVE  ReleasedOnce' /\ QueuedOnly'
<1> USE DEF TypeInv, TypeOK, QueuedOnly, RunningStarted
<1>1. \A i \in 1 .. Len(queue) :
        queue[i] \in Jobs /\ queue[i] # j /\ status[queue[i]] = "queued"
  OBVIOUS
<1>2. /\ Len(queue') = Len(queue) + 1
      /\ \A i \in 1 .. Len(queue) : queue'[i] = queue[i]
      /\ queue'[Len(queue) + 1] = j
      /\ Len(queue) \in Nat
  OBVIOUS
<1>. j # 0 /\ \A x \in Jobs : x # 0
  BY JobNumbers
<1>3. \A w \in Workers : worker'[w].job # j
  OBVIOUS
<1>4. \A i, k \in 1 .. Len(queue') : queue'[i] = queue'[k] => i = k
  <2> SUFFICES ASSUME NEW i \in 1 .. Len(queue'), NEW k \in 1 .. Len(queue'),
                      queue'[i] = queue'[k]
               PROVE  i = k
    OBVIOUS
  <2>1. CASE i \in 1 .. Len(queue) /\ k \in 1 .. Len(queue)
    BY <1>2, <2>1 DEF ReleasedOnce
  <2>2. CASE i = Len(queue) + 1 \/ k = Len(queue) + 1
    BY <1>1, <1>2, <2>2
  <2> QED
    BY <1>2, <2>1, <2>2
<1>5. \A w \in Workers, i \in 1 .. Len(queue') : worker'[w].job # queue'[i]
  <2> SUFFICES ASSUME NEW w \in Workers, NEW i \in 1 .. Len(queue')
               PROVE  worker'[w].job # queue'[i]
    OBVIOUS
  <2>1. CASE i \in 1 .. Len(queue)
    BY <1>1, <1>2, <2>1 DEF ReleasedOnce
  <2>2. CASE i = Len(queue) + 1
    BY <1>2, <1>3, <2>2
  <2> QED
    BY <1>2, <2>1, <2>2
<1>6. \A v, w \in Workers :
        worker'[v].job = worker'[w].job /\ worker'[v].job # 0 => v = w
  BY DEF ReleasedOnce
<1>7. QueuedOnly'
  <2> SUFFICES ASSUME NEW i \in 1 .. Len(queue')
               PROVE  status'[queue'[i]] = "queued"
    OBVIOUS
  <2>1. CASE i \in 1 .. Len(queue)
    BY <1>1, <1>2, <2>1
  <2>2. CASE i = Len(queue) + 1
    BY <1>2, <2>2
  <2> QED
    BY <1>2, <2>1, <2>2
<1> QED
  BY <1>4, <1>5, <1>6, <1>7 DEF ReleasedOnce

\* Initially no job of the chain exists and nobody works.
LEMMA RunInit == Init => RunInv
<1> SUFFICES ASSUME Init PROVE RunInv
  OBVIOUS
<1>1. \A w \in Workers : worker[w].pc = "idle" /\ worker[w].job = 0
  BY IdleState DEF Init
<1>2. \A j \in Jobs : status[j] = "absent"
  BY DEF Init
<1>3. /\ \A k \in Chain : k \in Jobs
      /\ \A k \in Devices : -k \in Jobs
  BY JobNumbers
<1>4. queue = <<>> /\ registry = {} /\ waiting = {}
  BY DEF Init
<1> QED
  BY <1>1, <1>2, <1>3, <1>4
     DEF RunInv, ReleasedOnce, QueuedOnly, RunningStarted, Unreached,
         RegistryDeferred, WaitingDeferred, FallbackFollows

\* Every step keeps a job in at most one place: the queue, a registry, a worker.
LEMMA RunNext == TypeInv /\ RunInv /\ [Next]_vars => RunInv'
<1> SUFFICES ASSUME TypeInv, RunInv, [Next]_vars PROVE RunInv'
  OBVIOUS
<1> USE DEF TypeInv, TypeOK, RunInv, vars, rqVars
<1>1. CASE EnqueueNext
  <2>1. /\ next \in Chain /\ next \in Jobs /\ next \in Int /\ next # 0
        /\ next' = next + 1
        /\ UNCHANGED worker
    BY <1>1, JobNumbers DEF EnqueueNext
  <2>2. status[next] = "absent"
    BY <2>1 DEF Unreached
  <2>3. /\ \A k \in Devices : k \in Jobs /\ -k \in Jobs /\ -k # next
        /\ \A k \in Chain : k \in Jobs /\ k \in Int
        /\ \A k \in waiting : k - 1 \in Devices
    BY <2>1, JobNumbers
  <2>4. \A k \in Chain : k >= next' => k >= next /\ k # next
    BY <2>1, <2>3
  <2>5. CASE ~Unmet(next)
    <3>1. /\ status' = [status EXCEPT ![next] = "queued"]
          /\ queue' = Append(queue, next)
          /\ UNCHANGED <<registry, waiting>>
      BY <1>1, <2>5 DEF EnqueueNext
    <3>2. ReleasedOnce' /\ QueuedOnly'
      BY <2>1, <2>2, <3>1, ReleaseOnce
    <3>3. RunningStarted' /\ Unreached'
      BY <2>1, <2>2, <2>4, <3>1 DEF RunningStarted, Unreached
    <3>4. RegistryDeferred' /\ WaitingDeferred' /\ FallbackFollows'
      BY <2>1, <2>2, <2>3, <3>1
         DEF RegistryDeferred, WaitingDeferred, FallbackFollows
    <3> QED
      BY <3>2, <3>3, <3>4
  <2>6. CASE Unmet(next)
    <3>1. /\ status' = [status EXCEPT ![next] = "deferred"]
          /\ registry' = registry \cup {next}
          /\ waiting' = waiting \cup {next}
          /\ UNCHANGED queue
      BY <1>1, <2>6 DEF EnqueueNext
    <3>2. ReleasedOnce' /\ QueuedOnly'
      BY <2>1, <2>2, <3>1 DEF ReleasedOnce, QueuedOnly
    <3>3. RunningStarted' /\ Unreached'
      BY <2>1, <2>2, <2>4, <3>1 DEF RunningStarted, Unreached
    <3>4. RegistryDeferred' /\ WaitingDeferred' /\ FallbackFollows'
      BY <2>1, <2>2, <2>3, <3>1
         DEF RegistryDeferred, WaitingDeferred, FallbackFollows
    <3> QED
      BY <3>2, <3>3, <3>4
  <2> QED
    BY <2>5, <2>6
<1>2. CASE RejectDevice
  BY <1>2 DEF RejectDevice, ReleasedOnce, QueuedOnly,
     RunningStarted, Unreached, RegistryDeferred, WaitingDeferred, FallbackFollows
<1>3. CASE KillWeb
  BY <1>3 DEF KillWeb, ReleasedOnce, QueuedOnly,
     RunningStarted, Unreached, RegistryDeferred, WaitingDeferred, FallbackFollows
<1>4. CASE ClearDeferred
  BY <1>4 DEF ClearDeferred, ReleasedOnce, QueuedOnly,
     RunningStarted, Unreached, RegistryDeferred, WaitingDeferred, FallbackFollows
<1>5. ASSUME NEW w \in Workers, WorkerStep(w) \/ KillWorker(w)
      PROVE  RunInv'
  <2>1. CASE Dequeue(w)
    BY <2>1 DEF Dequeue, ReleasedOnce, QueuedOnly,
     RunningStarted, Unreached, RegistryDeferred, WaitingDeferred, FallbackFollows
  <2>2. CASE SaveSchedule(w)
    BY <2>2 DEF SaveSchedule, Move, ReleasedOnce, QueuedOnly,
     RunningStarted, Unreached, RegistryDeferred, WaitingDeferred, FallbackFollows
  <2>3. CASE ComputeInfeasible(w)
    <3> DEFINE j == worker[w].job
               f == -worker[w].job
    <3>1. /\ j \in Devices /\ j \in Jobs /\ f \in Jobs /\ f \notin Chain
          /\ f \notin Devices /\ j # f /\ j # 0
          /\ \A k \in Devices : -k = f => k = j
      BY <2>3, JobNumbers DEF ComputeInfeasible
    <3>2. /\ worker[w].pc = "compute"
          /\ status' = [status EXCEPT ![f] = "queued"]
          /\ queue' = Append(queue, f)
          /\ UNCHANGED <<registry, waiting, next>>
      BY <2>3 DEF ComputeInfeasible
    <3>3. /\ worker'[w].pc = "fail" /\ worker'[w].job = j
          /\ \A v \in Workers \ {w} : worker'[v] = worker[v]
      BY <2>3, WorkerMove DEF ComputeInfeasible
    <3>4. status[j] = "started" /\ status[f] = "absent"
      BY <3>1, <3>2 DEF RunningStarted, FallbackFollows
    <3>5. /\ \A k \in Devices : k \in Jobs /\ -k \in Jobs
          /\ \A k \in Chain : k \in Jobs
          /\ \A k \in waiting : k - 1 \in Devices
      BY JobNumbers
    <3>6. \A v \in Workers : v # w => worker[v].job # j
      BY <3>1 DEF ReleasedOnce
    <3> HIDE DEF j, f
    <3>7. ReleasedOnce' /\ QueuedOnly'
      BY <3>1, <3>2, <3>3, <3>4, ReleaseOnce DEF j
    <3>8. RunningStarted' /\ Unreached'
      BY SMTT(30), <3>1, <3>2, <3>3, <3>4, <3>5 DEF RunningStarted, Unreached
    <3>9. RegistryDeferred' /\ WaitingDeferred'
      BY <3>1, <3>2, <3>4, <3>5 DEF RegistryDeferred, WaitingDeferred
    <3>10. FallbackFollows'
      BY <3>1, <3>2, <3>3, <3>4, <3>5, <3>6 DEF FallbackFollows
    <3> QED
      BY <3>7, <3>8, <3>9, <3>10
  <2>4. CASE ComputeFails(w)
    BY <2>4 DEF ComputeFails, Move, ReleasedOnce, QueuedOnly,
     RunningStarted, Unreached, RegistryDeferred, WaitingDeferred, FallbackFollows
  <2>5. CASE SuccessCallback(w)
    <3> DEFINE j == worker[w].job
               k == Device(j)
               n == k + 1
    <3>1. PICK l \in {"finish", "fail"} : Move(w, l)
      BY <2>5 DEF SuccessCallback
    <3>2. /\ worker[w].pc = "callback" /\ UNCHANGED <<waiting, next>>
          /\ worker'[w].job = j /\ worker'[w].pc = l
          /\ \A v \in Workers \ {w} : worker'[v] = worker[v]
      BY <2>5, <3>1, WorkerMove DEF SuccessCallback
    <3>3. /\ k \in Devices /\ n \in Jobs /\ n \in Chain /\ j = -k
          /\ j \notin Devices /\ status[-k] = "started"
          /\ k = n - 1
      BY <3>2, JobNumbers DEF RunningStarted
    <3>4. /\ \A i \in Devices : i \in Jobs /\ -i \in Jobs /\ -i # n
          /\ \A i \in Chain : i \in Jobs /\ i \in Int
          /\ \A i \in waiting : i - 1 \in Devices
      <4>1. n > 0 /\ \A i \in Devices : i \in Int /\ i > 0
        BY <3>3, JobNumbers
      <4>2. \A i \in Devices : -i # n
        BY <3>3, <4>1
      <4> QED
        BY <4>2, JobNumbers
    <3>5. \/ UNCHANGED <<status, queue, registry>>
          \/ /\ n \in registry
             /\ registry' = registry \ {n}
             /\ status' = [status EXCEPT ![n] = "queued"]
             /\ queue' = Append(queue, n)
      BY <2>5 DEF SuccessCallback
    <3>6. \A v \in Workers :
            /\ worker'[v].job = worker[v].job
            /\ worker'[v].pc # "idle" => worker[v].pc # "idle"
            /\ worker[v].job \in Devices => worker'[v].pc = worker[v].pc
      BY <3>2, <3>3
    <3> HIDE DEF n, k, j
    <3>7. CASE UNCHANGED <<status, queue, registry>>
      BY <3>2, <3>6, <3>7 DEF ReleasedOnce, QueuedOnly,
         RunningStarted, Unreached, RegistryDeferred, WaitingDeferred,
         FallbackFollows
    <3>8. CASE /\ n \in registry
               /\ registry' = registry \ {n}
               /\ status' = [status EXCEPT ![n] = "queued"]
               /\ queue' = Append(queue, n)
      <4>1. status[n] = "deferred"
        BY <3>8 DEF RegistryDeferred
      <4>2. ReleasedOnce' /\ QueuedOnly'
        BY <3>3, <3>6, <3>8, <4>1, ReleaseOnce
      <4>3. RunningStarted' /\ Unreached'
        BY SMTT(30), <3>2, <3>4, <3>6, <3>8, <4>1 DEF RunningStarted, Unreached
      <4>4. RegistryDeferred'
        BY <3>4, <3>8 DEF RegistryDeferred
      <4>5. WaitingDeferred'
        <5> SUFFICES ASSUME NEW i \in waiting
                     PROVE  status'[i] = "deferred" \/ status'[-(i - 1)] # "absent"
          BY <3>2 DEF WaitingDeferred
        <5>1. CASE i = n
          <6>1. -(i - 1) = -k /\ -k \in Jobs /\ -k # n
            BY <3>3, <3>4, <5>1
          <6> QED
            BY <3>3, <3>8, <6>1
        <5>2. CASE i # n
          BY <3>4, <3>8, <5>2 DEF WaitingDeferred
        <5> QED
          BY <5>1, <5>2
      <4>6. FallbackFollows'
        BY <3>4, <3>6, <3>8, <4>1 DEF FallbackFollows
      <4> QED
        BY <4>2, <4>3, <4>4, <4>5, <4>6
    <3> QED
      BY <3>5, <3>7, <3>8
  <2>6. CASE FinishJob(w)
    <3> DEFINE j == worker[w].job
               n == j + 1
    <3>1. /\ worker[w].pc = "finish" /\ UNCHANGED next
          /\ worker' = [worker EXCEPT ![w] = Idle]
      BY <2>6 DEF FinishJob
    <3>2. /\ worker'[w].pc = "idle" /\ worker'[w].job = 0
          /\ \A v \in Workers \ {w} : worker'[v] = worker[v]
      BY <3>1, WorkerSet, IdleState
    <3>3. /\ j \in Jobs /\ j \in Int /\ status[j] = "started" /\ j # 0
          /\ j \in Devices => status[-j] = "absent"
      BY <3>1, JobNumbers DEF RunningStarted, FallbackFollows
    <3>4. \A v \in Workers : v # w => worker[v].job # j
      BY <3>3 DEF ReleasedOnce
    <3>5. /\ \A i \in Devices : i \in Jobs /\ -i \in Jobs
          /\ \A i \in Chain : i \in Jobs /\ i \in Int
          /\ \A i \in waiting : i - 1 \in Devices
          /\ 0 \notin Devices
      BY JobNumbers
    <3>6. \/ /\ status' = [status EXCEPT ![j] = "finished"]
             /\ UNCHANGED <<queue, registry, waiting>>
          \/ /\ n \in waiting
             /\ status' = [status EXCEPT ![j] = "finished", ![n] = "queued"]
             /\ queue' = Append(queue, n)
             /\ registry' = registry \ {n}
             /\ waiting' = waiting \ {n}
      BY <2>6 DEF FinishJob, Dependents
    <3>7. n \in waiting =>
            /\ n \in Jobs /\ n # j /\ status[n] = "deferred"
            /\ \A i \in Devices : -i # n
      <4>1. n \in waiting => j \in Devices /\ n - 1 = j /\ n # j
        BY <3>3, <3>5
      <4>2. n \in waiting => n \in Chain /\ n \in Jobs
        BY JobNumbers
      <4>3. n \in waiting => \A i \in Devices : -i # n
        BY <4>2, JobNumbers
      <4> QED
        BY <3>3, <4>1, <4>2, <4>3 DEF WaitingDeferred
    <3>8. \A v \in Workers :
            /\ worker'[v].job \in {worker[v].job, 0}
            /\ worker'[v].pc # "idle" =>
                 worker'[v] = worker[v] /\ worker[v].job # j
            /\ worker'[v].job # 0 => worker'[v] = worker[v]
      BY <3>2, <3>4
    <3> HIDE DEF j, n
    <3>9. \A k \in Devices : status[-k] # "absent" => k # j
      BY <3>3
    <3>10. CASE /\ status' = [status EXCEPT ![j] = "finished"]
                /\ UNCHANGED <<queue, registry, waiting>>
      <4>1. ReleasedOnce' /\ QueuedOnly'
        <5>1. \A i \in 1 .. Len(queue) :
                queue[i] \in Jobs /\ queue[i] # j /\ queue[i] # 0
          BY <3>3, JobNumbers DEF QueuedOnly
        <5> QED
          BY <3>3, <3>8, <3>10, <5>1 DEF ReleasedOnce, QueuedOnly
      <4>2. RunningStarted' /\ Unreached'
        BY <3>1, <3>3, <3>5, <3>8, <3>10 DEF RunningStarted, Unreached
      <4>3. RegistryDeferred' /\ WaitingDeferred'
        BY <3>3, <3>5, <3>10 DEF RegistryDeferred, WaitingDeferred
      <4>4. FallbackFollows'
        BY <3>3, <3>5, <3>8, <3>9, <3>10 DEF FallbackFollows
      <4> QED
        BY <4>1, <4>2, <4>3, <4>4
    <3>11. CASE /\ n \in waiting
                /\ status' = [status EXCEPT ![j] = "finished", ![n] = "queued"]
                /\ queue' = Append(queue, n)
                /\ registry' = registry \ {n}
                /\ waiting' = waiting \ {n}
      <4>1. ReleasedOnce' /\ QueuedOnly'
        BY <3>3, <3>7, <3>8, <3>11, ReleaseOnce
      <4>2. RunningStarted' /\ Unreached'
        BY ZenonT(30), <3>1, <3>3, <3>5, <3>7, <3>8, <3>11 DEF RunningStarted, Unreached
      <4>3. RegistryDeferred' /\ WaitingDeferred'
        BY <3>3, <3>5, <3>7, <3>11 DEF RegistryDeferred, WaitingDeferred
      <4>4. FallbackFollows'
        <5>1. \A k \in Devices : status'[-k] # "absent" => status[-k] # "absent"
          BY <3>3, <3>5, <3>7, <3>11
        <5>2. \A k \in Devices : status[-k] # "absent" =>
                k \in Jobs /\ k # j /\ k # n /\ status[k] \in {"started", "failed"}
          BY <3>5, <3>7, <3>9, <3>11 DEF FallbackFollows
        <5>3. \A k \in Devices : status[-k] # "absent" =>
                \A v \in Workers : worker'[v].job = k => worker'[v].pc = "fail"
          BY <3>5, <3>8 DEF FallbackFollows
        <5> QED
          BY <3>11, <5>1, <5>2, <5>3 DEF FallbackFollows
      <4> QED
        BY <4>1, <4>2, <4>3, <4>4
    <3> QED
      BY <3>6, <3>10, <3>11
  <2>7. CASE FailJob(w)
    <3> DEFINE j == worker[w].job
    <3>1. /\ status' = [status EXCEPT ![j] = "failed"]
          /\ UNCHANGED <<queue, registry, waiting, next>>
          /\ worker[w].pc # "idle"
      BY <2>7 DEF FailJob
    <3>2. /\ worker'[w].pc = "idle" /\ worker'[w].job = 0
          /\ \A v \in Workers \ {w} : worker'[v] = worker[v]
      BY <2>7, WorkerSet, IdleState DEF FailJob
    <3>3. j \in Jobs /\ j # 0 /\ status[j] = "started"
      BY <3>1, JobNumbers DEF RunningStarted
    <3>4. /\ \A i \in Devices : i \in Jobs /\ -i \in Jobs
          /\ \A i \in Chain : i \in Jobs
          /\ \A i \in waiting : i - 1 \in Devices
          /\ 0 \notin Devices
      BY JobNumbers
    <3>5. \A v \in Workers :
            /\ worker'[v].job # 0 => worker'[v] = worker[v]
            /\ worker'[v].pc # "idle" =>
                 worker'[v] = worker[v] /\ worker[v].job # j
      BY <3>2, <3>3 DEF ReleasedOnce
    <3>6. \A i \in 1 .. Len(queue) : worker'[w].job # queue[i]
      BY <3>2, JobNumbers
    <3> HIDE DEF j
    <3>7. ReleasedOnce' /\ QueuedOnly'
      BY <3>1, <3>2, <3>3, <3>5, <3>6 DEF ReleasedOnce, QueuedOnly
    <3>8. RunningStarted' /\ Unreached' /\ RegistryDeferred'
      BY <3>1, <3>3, <3>4, <3>5 DEF RunningStarted, Unreached, RegistryDeferred
    <3>9. WaitingDeferred'
      BY <3>1, <3>3, <3>4 DEF WaitingDeferred
    <3>10. FallbackFollows'
      BY <3>1, <3>3, <3>4, <3>5 DEF FallbackFollows
    <3> QED
      BY <3>7, <3>8, <3>9, <3>10
  <2>8. CASE KillWorker(w)
    <3> DEFINE j == worker[w].job
    <3>1. /\ UNCHANGED status
          /\ UNCHANGED <<queue, registry, waiting, next>>
          /\ worker[w].pc # "idle"
      BY <2>8 DEF KillWorker
    <3>2. /\ worker'[w].pc = "idle" /\ worker'[w].job = 0
          /\ \A v \in Workers \ {w} : worker'[v] = worker[v]
      BY <2>8, WorkerSet, IdleState DEF KillWorker
    <3>3. j \in Jobs /\ j # 0 /\ status[j] = "started"
      BY <3>1, JobNumbers DEF RunningStarted
    <3>4. /\ \A i \in Devices : i \in Jobs /\ -i \in Jobs
          /\ \A i \in Chain : i \in Jobs
          /\ \A i \in waiting : i - 1 \in Devices
          /\ 0 \notin Devices
      BY JobNumbers
    <3>5. \A v \in Workers :
            /\ worker'[v].job # 0 => worker'[v] = worker[v]
            /\ worker'[v].pc # "idle" =>
                 worker'[v] = worker[v] /\ worker[v].job # j
      BY <3>2, <3>3 DEF ReleasedOnce
    <3>6. \A i \in 1 .. Len(queue) : worker'[w].job # queue[i]
      BY <3>2, JobNumbers
    <3> HIDE DEF j
    <3>7. ReleasedOnce' /\ QueuedOnly'
      BY <3>1, <3>2, <3>3, <3>5, <3>6 DEF ReleasedOnce, QueuedOnly
    <3>8. RunningStarted' /\ Unreached' /\ RegistryDeferred'
      BY <3>1, <3>3, <3>4, <3>5 DEF RunningStarted, Unreached, RegistryDeferred
    <3>9. WaitingDeferred'
      BY <3>1, <3>3, <3>4 DEF WaitingDeferred
    <3>10. FallbackFollows'
      BY <3>1, <3>3, <3>4, <3>5 DEF FallbackFollows
    <3> QED
      BY <3>7, <3>8, <3>9, <3>10
  <2> QED
    BY <1>5, <2>1, <2>2, <2>3, <2>4, <2>5, <2>6, <2>7, <2>8 DEF WorkerStep
<1>6. CASE \E j \in Jobs : AbandonJob(j)
  BY <1>6 DEF AbandonJob, ReleasedOnce, QueuedOnly,
     RunningStarted, Unreached, RegistryDeferred, WaitingDeferred, FallbackFollows
<1>7. CASE AtRest \/ UNCHANGED vars
  BY <1>7 DEF AtRest, ReleasedOnce, QueuedOnly,
     RunningStarted, Unreached, RegistryDeferred, WaitingDeferred, FallbackFollows
<1> QED
  BY <1>1, <1>2, <1>3, <1>4, <1>5, <1>6, <1>7 DEF Next

\* What the status of each job says holds in every state.
LEMMA Running == Spec => []RunInv
BY Typing, RunInit, RunNext, PTL DEF Spec

\* No job of the chain is in the queue twice or with two workers.
THEOREM JobsReleasedOnce == Spec => []ReleasedOnce
<1>1. RunInv => ReleasedOnce
  BY DEF RunInv
<1> QED
  BY <1>1, Running, PTL

\* A job that ran is never queued or deferred again.
THEOREM NoRerun == Spec => NeverRerun
<1>1. TypeInv /\ RunInv /\ [Next]_vars =>
        [\A j \in Jobs : status[j] \in {"started", "finished", "failed"} =>
           status'[j] \notin {"queued", "deferred"}]_vars
  <2> SUFFICES ASSUME TypeInv, RunInv, Next,
                      NEW j \in Jobs, status[j] \in {"started", "finished", "failed"}
               PROVE  status'[j] \notin {"queued", "deferred"}
    OBVIOUS
  <2> USE DEF TypeInv, TypeOK, RunInv
  <2>1. CASE EnqueueNext
    <3>1. next \in Chain /\ next # 0 /\ next >= next
      BY <2>1, JobNumbers DEF EnqueueNext
    <3>2. status[next] = "absent"
      BY <3>1 DEF Unreached
    <3> QED
      BY <2>1, <3>2 DEF EnqueueNext
  <2>2. ASSUME NEW w \in Workers, WorkerStep(w) \/ KillWorker(w)
        PROVE  status'[j] \notin {"queued", "deferred"}
    <3>1. CASE ComputeInfeasible(w)
      <4>1. worker[w].pc # "fail" /\ worker[w].job \in Devices
        BY <3>1 DEF ComputeInfeasible
      <4>2. status[-worker[w].job] = "absent"
        BY <4>1 DEF FallbackFollows
      <4> QED
        BY <3>1, <4>2 DEF ComputeInfeasible
    <3>2. CASE SuccessCallback(w)
      BY <3>2 DEF SuccessCallback, RegistryDeferred
    <3>3. CASE FinishJob(w)
      <4> DEFINE i == worker[w].job
                 n == i + 1
      <4>1. i \in Jobs /\ i \in Int /\ worker[w].pc = "finish"
        BY <3>3, JobNumbers DEF FinishJob
      <4>2. \/ status' = [status EXCEPT ![i] = "finished"]
            \/ /\ n \in waiting
               /\ status' = [status EXCEPT ![i] = "finished", ![n] = "queued"]
        BY <3>3 DEF FinishJob, Dependents
      <4>3. n \in waiting => i \in Devices /\ n - 1 = i
        BY <4>1, JobNumbers
      <4>4. n \in waiting => status[n] = "deferred"
        BY <4>1, <4>3 DEF WaitingDeferred, FallbackFollows
      <4> HIDE DEF i, n
      <4> QED
        BY <4>2, <4>4
    <3>4. CASE Dequeue(w)
      BY <3>4 DEF Dequeue
    <3>5. CASE SaveSchedule(w) \/ ComputeFails(w) \/ FailJob(w) \/ KillWorker(w)
      BY <3>5 DEF SaveSchedule, ComputeFails, FailJob, KillWorker, rqVars
    <3> QED
      BY <2>2, <3>1, <3>2, <3>3, <3>4, <3>5 DEF WorkerStep
  <2>3. CASE RejectDevice \/ KillWeb \/ ClearDeferred \/ AtRest
    BY <2>3 DEF RejectDevice, KillWeb, ClearDeferred, AtRest, vars, rqVars
  <2>4. CASE \E i \in Jobs : AbandonJob(i)
    BY <2>4 DEF AbandonJob
  <2> QED
    BY <2>1, <2>2, <2>3, <2>4 DEF Next
<1> QED
  BY <1>1, Typing, Running, PTL DEF Spec, NeverRerun

-----------------------------------------------------------------------------
\* Whoever holds or queues a job knows it was released, and what has been done
\* with a device is done with a schedule in the database.
OrderInv ==
    /\ InOrder
    /\ \A i \in 1 .. Len(queue) : Released(queue[i])
    /\ \A w \in Workers :
         /\ worker[w].pc # "idle" => Released(worker[w].job)
         /\ worker[w].pc \in {"callback", "finish"} /\ worker[w].job # WrapUp =>
              Device(worker[w].job) \in planned
    /\ \A k \in Devices : status[k] = "finished" => k \in planned

\* Initially nothing is saved.
LEMMA OrderInit == Init => OrderInv
<1> SUFFICES ASSUME Init PROVE OrderInv
  OBVIOUS
<1>1. \A w \in Workers : worker[w].pc = "idle"
  BY IdleState DEF Init
<1>2. \A j \in Jobs : status[j] = "absent"
  BY DEF Init
<1>3. \A k \in Devices : k \in Jobs
  BY JobNumbers
<1>4. queue = <<>>
  BY DEF Init
<1> QED
  BY <1>1, <1>2, <1>3, <1>4 DEF OrderInv, InOrder, Released

\* Every step keeps the devices saved in the order of the chain.
LEMMA OrderNext == TypeInv /\ RunInv /\ OrderInv /\ [Next]_vars => OrderInv'
<1> SUFFICES ASSUME TypeInv, RunInv, OrderInv, [Next]_vars PROVE OrderInv'
  OBVIOUS
<1> USE DEF TypeInv, TypeOK, OrderInv, InOrder, Released,
        vars, rqVars
<1>1. CASE EnqueueNext
  <2>1. /\ next \in Chain /\ next \in Jobs /\ Device(next) = next
        /\ UNCHANGED <<worker, planned>>
    BY <1>1, JobNumbers DEF EnqueueNext
  <2>2. CASE ~Unmet(next)
    <3>1. /\ status' = [status EXCEPT ![next] = "queued"]
          /\ queue' = Append(queue, next)
      BY <1>1, <2>2 DEF EnqueueNext
    <3>2. \A i \in Devices : i < next => i \in planned
      <4>1. CASE next = 1
        BY <4>1, JobNumbers
      <4>2. CASE next # 1
        <5>1. /\ next - 1 \in Devices /\ next - 1 \in Jobs
              /\ Device(next - 1) = next - 1
          BY <2>1, <4>2, JobNumbers
        <5>2. status[next - 1] = "finished"
          BY <2>1, <2>2, <4>2, JobNumbers DEF Unmet
        <5>3. \A i \in Devices : i < next - 1 => i \in planned
          BY <5>1, <5>2
        <5> QED
          BY SMTT(30), <5>1, <5>2, <5>3, JobNumbers
      <4> QED
        BY <4>1, <4>2
    <3>3. \A j \in Jobs : Released(j) => status'[j] \notin {"absent", "deferred"}
      BY <3>1
    <3>4. InOrder'
      BY <2>1, <3>1, <3>2
    <3>5. \A i \in 1 .. Len(queue') : status'[queue'[i]] \notin {"absent", "deferred"}
      <4>1. \A i \in 1 .. Len(queue) :
              queue[i] \in Jobs /\ status'[queue[i]] \notin {"absent", "deferred"}
        BY <3>3
      <4> QED
        BY <2>1, <3>1, <4>1
    <3>6. \A k \in Devices : status'[k] = "finished" => status[k] = "finished"
      BY <3>1, JobNumbers
    <3>7. \A w \in Workers : worker[w].pc # "idle" =>
            status'[worker[w].job] \notin {"absent", "deferred"}
      BY <3>3
    <3> QED
      BY <2>1, <3>4, <3>5, <3>6, <3>7
  <2>3. CASE Unmet(next)
    <3>1. /\ status' = [status EXCEPT ![next] = "deferred"]
          /\ UNCHANGED queue
      BY <1>1, <2>3 DEF EnqueueNext
    <3>2. next # 0 /\ next >= next
      BY <2>1, JobNumbers
    <3>3. status[next] = "absent"
      BY <2>1, <3>2 DEF RunInv, Unreached
    <3>4. \A j \in Jobs :
            Released(j) <=> status'[j] \notin {"absent", "deferred"}
      BY <2>1, <3>1, <3>3
    <3>5. \A k \in Devices : status'[k] = "finished" => status[k] = "finished"
      BY <2>1, <3>1, JobNumbers
    <3> QED
      BY <2>1, <3>1, <3>4, <3>5
  <2> QED
    BY <2>2, <2>3
<1>2. CASE RejectDevice
  BY <1>2 DEF RejectDevice
<1>3. CASE KillWeb
  BY <1>3 DEF KillWeb
<1>4. CASE ClearDeferred
  BY <1>4 DEF ClearDeferred
<1>5. ASSUME NEW w \in Workers, WorkerStep(w) \/ KillWorker(w)
      PROVE  OrderInv'
  <2>1. CASE Dequeue(w)
    BY <2>1 DEF Dequeue
  <2>2. CASE SaveSchedule(w)
    BY <2>2 DEF SaveSchedule, Move
  <2>3. CASE ComputeInfeasible(w)
    <3> DEFINE j == worker[w].job
    <3>1. /\ j \in Devices /\ -j \in Jobs /\ Device(-j) = j /\ Device(j) = j
          /\ -j \notin Devices
      BY <2>3, JobNumbers DEF ComputeInfeasible
    <3>2. /\ status' = [status EXCEPT ![-j] = "queued"]
          /\ queue' = Append(queue, -j)
          /\ UNCHANGED planned
      BY <2>3 DEF ComputeInfeasible
    <3>3. /\ worker[w].pc = "compute" /\ worker'[w].pc = "fail"
          /\ worker'[w].job = j
          /\ \A v \in Workers \ {w} : worker'[v] = worker[v]
      BY <2>3, WorkerMove DEF ComputeInfeasible
    <3>4. /\ j \in Jobs /\ Released(j)
          /\ \A i \in Devices : i < j => i \in planned
      BY SMTT(30), <3>1, <3>3, JobNumbers
    <3> HIDE DEF j
    <3>5. \A x \in Jobs : Released(x) => status'[x] \notin {"absent", "deferred"}
      BY <3>1, <3>2
    <3>6. InOrder'
      BY <3>1, <3>2, <3>4
    <3>7. \A i \in 1 .. Len(queue') : status'[queue'[i]] \notin {"absent", "deferred"}
      <4>1. \A i \in 1 .. Len(queue) :
              queue[i] \in Jobs /\ status'[queue[i]] \notin {"absent", "deferred"}
        BY <3>5
      <4> QED
        BY <3>1, <3>2, <4>1
    <3>8. \A k \in Devices : status'[k] = "finished" => k \in planned'
      BY <3>1, <3>2
    <3>9. \A v \in Workers : worker'[v].pc # "idle" =>
            status'[worker'[v].job] \notin {"absent", "deferred"}
      BY <3>3, <3>4, <3>5
    <3>10. \A v \in Workers :
             worker'[v].pc \in {"callback", "finish"} => worker'[v] = worker[v]
      BY <3>3
    <3> QED
      BY <3>2, <3>6, <3>7, <3>8, <3>9, <3>10
  <2>4. CASE ComputeFails(w)
    BY <2>4 DEF ComputeFails, Move
  <2>5. CASE SuccessCallback(w)
    <3> DEFINE j == worker[w].job
               k == Device(j)
               n == k + 1
    <3>1. PICK l \in {"finish", "fail"} : Move(w, l)
      BY <2>5 DEF SuccessCallback
    <3>2. /\ worker[w].pc = "callback" /\ UNCHANGED planned
          /\ worker'[w].job = j /\ worker'[w].pc = l
          /\ \A v \in Workers \ {w} : worker'[v] = worker[v]
      BY <2>5, <3>1, WorkerMove DEF SuccessCallback
    <3>3. /\ k \in Devices /\ n \in Jobs /\ Device(n) = n /\ k \in planned
          /\ j \in Jobs /\ Released(j) /\ j # WrapUp /\ k \in Int
      BY <3>2, JobNumbers
    <3>4. \A i \in Devices : i < n => i \in planned
      <4>1. \A i \in Devices : i < k => i \in planned
        BY <3>3
      <4> QED
        BY <3>3, <4>1, JobNumbers
    <3>5. \/ UNCHANGED <<status, queue>>
          \/ /\ status' = [status EXCEPT ![n] = "queued"]
             /\ queue' = Append(queue, n)
      BY <2>5 DEF SuccessCallback
    <3> HIDE DEF n
    <3>6. \A x \in Jobs : Released(x) => status'[x] \notin {"absent", "deferred"}
      BY <3>3, <3>5
    <3>7. InOrder'
      BY <3>2, <3>3, <3>4, <3>5
    <3>8. \A i \in 1 .. Len(queue') : status'[queue'[i]] \notin {"absent", "deferred"}
      <4>1. \A i \in 1 .. Len(queue) :
              queue[i] \in Jobs /\ status'[queue[i]] \notin {"absent", "deferred"}
        BY <3>6
      <4>2. n \in Jobs /\ (status' = [status EXCEPT ![n] = "queued"]
                             => status'[n] = "queued")
        BY <3>3
      <4>3. CASE UNCHANGED queue
        BY <4>1, <4>3
      <4>4. CASE /\ status' = [status EXCEPT ![n] = "queued"]
                 /\ queue' = Append(queue, n)
        BY <4>1, <4>2, <4>4
      <4> QED
        BY <3>5, <4>3, <4>4
    <3>9. \A i \in Devices : status'[i] = "finished" => i \in planned'
      BY <3>2, <3>3, <3>5, JobNumbers
    <3>10. \A v \in Workers : worker'[v].job = worker[v].job /\
             (worker'[v].pc # "idle" => worker[v].pc # "idle")
      BY <3>2
    <3>11. \A v \in Workers : worker'[v].pc # "idle" =>
             status'[worker'[v].job] \notin {"absent", "deferred"}
      BY <3>6, <3>10
    <3>12. \A v \in Workers :
             worker'[v].pc \in {"callback", "finish"} =>
                worker[v].pc \in {"callback", "finish"}
      BY <3>2
    <3> QED
      BY <3>2, <3>7, <3>8, <3>9, <3>10, <3>11, <3>12
  <2>6. CASE FinishJob(w)
    <3> DEFINE j == worker[w].job
               n == j + 1
    <3>1. /\ worker[w].pc = "finish" /\ UNCHANGED planned
          /\ worker' = [worker EXCEPT ![w] = Idle]
      BY <2>6 DEF FinishJob
    <3>2. /\ worker'[w].pc = "idle"
          /\ \A v \in Workers \ {w} : worker'[v] = worker[v]
      BY <3>1, WorkerSet, IdleState
    <3>3. /\ j \in Jobs /\ Released(j) /\ j \in Int
          /\ j # WrapUp => Device(j) \in planned
      BY <3>1, JobNumbers
    <3>4. \/ status' = [status EXCEPT ![j] = "finished"] /\ UNCHANGED queue
          \/ /\ j > 0 /\ n \in waiting
             /\ status' = [status EXCEPT ![j] = "finished", ![n] = "queued"]
             /\ queue' = Append(queue, n)
      BY <2>6 DEF FinishJob, Dependents
    <3>5. \A i \in Devices : i = j => i \in planned
      BY <3>3, JobNumbers
    <3>6. j > 0 /\ n \in waiting =>
            /\ n \in Jobs /\ Device(n) = n /\ Device(j) = j
            /\ \A i \in Devices : i < n => i \in planned
      <4> SUFFICES ASSUME j > 0, n \in waiting
                   PROVE  /\ n \in Jobs /\ Device(n) = n /\ Device(j) = j
                          /\ \A i \in Devices : i < n => i \in planned
        OBVIOUS
      <4>1. n \in Chain /\ n \in Jobs /\ Device(n) = n
        BY JobNumbers
      <4>2. j \in Devices /\ Device(j) = j
        BY <3>3, <4>1, JobNumbers
      <4>3. \A i \in Devices : i < j => i \in planned
        BY <3>3, <4>2
      <4> QED
        BY <3>3, <3>5, <4>1, <4>2, <4>3, JobNumbers
    <3> HIDE DEF j, n
    <3>7. \A x \in Jobs : Released(x) => status'[x] \notin {"absent", "deferred"}
      BY <3>3, <3>4, <3>6
    <3>8. InOrder'
      BY <3>1, <3>3, <3>4, <3>6
    <3>9. \A i \in 1 .. Len(queue') : status'[queue'[i]] \notin {"absent", "deferred"}
      <4>1. \A i \in 1 .. Len(queue) :
              queue[i] \in Jobs /\ status'[queue[i]] \notin {"absent", "deferred"}
        BY <3>7
      <4>2. CASE UNCHANGED queue
        BY <4>1, <4>2
      <4>3. CASE /\ j > 0 /\ n \in waiting
                 /\ status' = [status EXCEPT ![j] = "finished", ![n] = "queued"]
                 /\ queue' = Append(queue, n)
        <5>1. n \in Jobs /\ status'[n] = "queued"
          BY <3>6, <4>3
        <5> QED
          BY <4>1, <4>3, <5>1
      <4> QED
        BY <3>4, <4>2, <4>3
    <3>10. \A i \in Devices : status'[i] = "finished" => i \in planned'
      BY SMTT(30), <3>1, <3>3, <3>4, <3>5, <3>6, JobNumbers
    <3>11. \A v \in Workers : worker'[v].pc # "idle" => worker'[v] = worker[v]
      BY <3>2
    <3>12. \A v \in Workers : worker'[v].pc # "idle" =>
             status'[worker'[v].job] \notin {"absent", "deferred"}
      BY <3>7, <3>11
    <3> QED
      BY <3>1, <3>8, <3>9, <3>10, <3>11, <3>12
  <2>7. CASE FailJob(w)
    <3>1. /\ status' = [status EXCEPT ![worker[w].job] = "failed"]
          /\ UNCHANGED <<queue, planned>>
      BY <2>7 DEF FailJob
    <3>2. /\ worker'[w].pc = "idle" /\ worker[w].pc # "idle"
          /\ \A v \in Workers \ {w} : worker'[v] = worker[v]
      BY <2>7, WorkerSet, IdleState DEF FailJob
    <3>3. \A v \in Workers : worker'[v].pc # "idle" => worker'[v] = worker[v]
      BY <3>2
    <3>4. worker[w].job \in Jobs /\ Released(worker[w].job)
      BY <3>2
    <3> QED
      BY SMTT(30), <3>1, <3>3, <3>4, JobNumbers
  <2>8. CASE KillWorker(w)
    <3>1. /\ UNCHANGED status
          /\ UNCHANGED <<queue, planned>>
      BY <2>8 DEF KillWorker
    <3>2. /\ worker'[w].pc = "idle" /\ worker[w].pc # "idle"
          /\ \A v \in Workers \ {w} : worker'[v] = worker[v]
      BY <2>8, WorkerSet, IdleState DEF KillWorker
    <3>3. \A v \in Workers : worker'[v].pc # "idle" => worker'[v] = worker[v]
      BY <3>2
    <3>4. worker[w].job \in Jobs /\ Released(worker[w].job)
      BY <3>2
    <3> QED
      BY <3>1, <3>3, <3>4, JobNumbers
  <2> QED
    BY <1>5, <2>1, <2>2, <2>3, <2>4, <2>5, <2>6, <2>7, <2>8 DEF WorkerStep
<1>6. CASE \E j \in Jobs : AbandonJob(j)
  BY <1>6 DEF AbandonJob
<1>7. CASE AtRest \/ UNCHANGED vars
  BY <1>7 DEF AtRest
<1> QED
  BY <1>1, <1>2, <1>3, <1>4, <1>5, <1>6, <1>7 DEF Next

\* A device is only released when all devices before it have a schedule.
THEOREM ChainInOrder == Spec => []InOrder
<1>1. OrderInv => InOrder
  BY DEF OrderInv
<1> QED
  BY <1>1, Typing, Running, OrderInit, OrderNext, PTL DEF Spec

\* When the job that wraps up has finished, every device has a schedule.
THEOREM WrapUpComplete == Spec => []WrapUpIsComplete
<1>1. TypeInv /\ OrderInv => WrapUpIsComplete
  <2> SUFFICES ASSUME TypeInv, OrderInv, status[WrapUp] = "finished"
               PROVE  planned = Devices
    BY DEF WrapUpIsComplete
  <2>1. \A i \in Devices : i \in Int /\ i < NDevices + 1
    BY JobNumbers DEF Devices
  <2>2. WrapUp \in Jobs /\ Device(WrapUp) = NDevices + 1
    BY JobNumbers
  <2>3. \A i \in Devices : i < Device(WrapUp) => i \in planned
    BY <2>2 DEF OrderInv, InOrder, Released
  <2>4. Devices \subseteq planned
    BY <2>1, <2>2, <2>3
  <2> QED
    BY <2>4 DEF TypeInv, TypeOK
<1> QED
  BY <1>1, Typing, Running, OrderInit, OrderNext, PTL DEF Spec

===============================================================================
