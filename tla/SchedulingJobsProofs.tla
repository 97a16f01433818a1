------------------------- MODULE SchedulingJobsProofs -------------------------
(***************************************************************************)
(* Proofs about SchedulingJobs and SchedulePolls, for any number of        *)
(* processes, clients, jobs and argument lists, with crashes and expiries  *)
(* at any time.                                                            *)
(***************************************************************************)
EXTENDS SchedulePolls, TLAPS

\* What the control state of a web process says about the job it holds.
ClientControl ==
    \A c \in Clients :
        /\ client[c].pc # "idle" => client[c].arg \in Args
        /\ client[c].pc \in {"exists", "fetch", "requeue", "enqueue", "index",
                             "store"} =>
             client[c].job \in JobId /\ status[client[c].job] # "absent"

\* What the control state of a worker says about the jobs it holds.
WorkerControl ==
    \A w \in Workers :
        /\ worker[w].pc = "idle" => worker[w].job = None
        /\ worker[w].pc # "idle" =>
             worker[w].job \in JobId /\ status[worker[w].job] # "absent"
        /\ worker[w].pc \in {"link", "enqueue"} =>
             worker[w].new \in JobId /\ status[worker[w].new] # "absent"
        /\ worker[w].pc = "fallback" =>
             FallbackClass[sched[worker[w].job]] # None

\* Jobs that were created have a scheduler; the cache knows created jobs only.
StoreControl ==
    /\ \A j \in JobId : status[j] # "absent" => sched[j] \in Schedulers
    /\ \A a \in Args : cache[a] # None => status[cache[a]] # "absent"

TypeInv == TypeOK /\ ClientControl /\ WorkerControl /\ StoreControl

\* The id drawn for a new job is an id, and nobody has drawn it before.
LEMMA FreshIdIsFresh ==
    SomeIdLeft => FreshId \in JobId /\ status[FreshId] = "absent"
BY DEF SomeIdLeft, FreshId

\* The updates of a process's control state that the actions are made of.
LEMMA ClientGoto ==
  ASSUME client \in [Clients -> ClientState], NEW c \in Clients,
         NEW l \in ClientPcs, Goto(c, l)
  PROVE  client' \in [Clients -> ClientState]
BY DEF ClientState, Goto

\* A web process answers its caller and is idle again.
LEMMA ClientLeave ==
  ASSUME client \in [Clients -> ClientState], NEW c \in Clients, Leave(c)
  PROVE  client' \in [Clients -> ClientState]
BY DEF ClientState, Leave, IdleClient, ClientPcs

\* A web process goes on to its next step with a job id in hand.
LEMMA ClientHold ==
  ASSUME client \in [Clients -> ClientState], NEW c \in Clients,
         NEW l \in ClientPcs, NEW j \in JobId,
         client' = [client EXCEPT ![c].pc = l, ![c].job = j]
  PROVE  client' \in [Clients -> ClientState]
BY ZenonT(30) DEF ClientState

\* A worker goes on to its next step with the same job.
LEMMA WorkerMove ==
  ASSUME worker \in [Workers -> WorkerState], NEW w \in Workers,
         NEW l \in WorkerPcs, Move(w, l)
  PROVE  worker' \in [Workers -> WorkerState]
BY DEF WorkerState, Move

\* A worker is done with its job, or was killed.
LEMMA WorkerRest ==
  ASSUME worker \in [Workers -> WorkerState], NEW w \in Workers, Rest(w)
  PROVE  worker' \in [Workers -> WorkerState]
BY DEF WorkerState, Rest, IdleWorker, WorkerPcs

\* A worker starts a job.
LEMMA WorkerTake ==
  ASSUME worker \in [Workers -> WorkerState], NEW w \in Workers, NEW j \in JobId,
         worker' = [worker EXCEPT ![w] =
                     [IdleWorker EXCEPT !.pc = "compute", !.job = j]]
  PROVE  worker' \in [Workers -> WorkerState]
BY DEF WorkerState, IdleWorker, WorkerPcs

\* A worker holds the id of the fallback job it is creating.
LEMMA WorkerNew ==
  ASSUME worker \in [Workers -> WorkerState], NEW w \in Workers,
         NEW l \in WorkerPcs, NEW j \in JobId,
         worker' = [worker EXCEPT ![w].pc = l, ![w].new = j]
  PROVE  worker' \in [Workers -> WorkerState]
BY ZenonT(30) DEF WorkerState

\* A worker goes on to its next step with an exception to report.
LEMMA WorkerRaise ==
  ASSUME worker \in [Workers -> WorkerState], NEW w \in Workers,
         NEW l \in WorkerPcs, NEW e \in {"infeasible", "other"},
         worker' = [worker EXCEPT ![w].pc = l, ![w].exc = e]
  PROVE  worker' \in [Workers -> WorkerState]
BY DEF WorkerState

\* The type invariant holds initially.
LEMMA TypeInit == Init => TypeInv
BY SchedulingAssumption
   DEF Init, TypeInv, TypeOK, ClientControl, WorkerControl, StoreControl,
       IdleClient, IdleWorker, Statuses,
       ClientPcs, WorkerPcs, ClientState, WorkerState

\* Every step keeps the type invariant: one case per action.
LEMMA TypeNext == TypeInv /\ [Next]_vars => TypeInv'
<1> SUFFICES ASSUME TypeInv, [Next]_vars PROVE TypeInv'
  OBVIOUS
<1> USE SchedulingAssumption DEF TypeInv, TypeOK, ClientControl, WorkerControl,
        StoreControl, Statuses, ClientPcs, WorkerPcs, vars, redisVars, metaVars,
        newVars, indexVars, boundVars
<1>1. ASSUME NEW c \in Clients, NEW a \in Args, NEW f \in ForceFlags,
             NEW r \in RequeueFlags, Trigger(c, a, f, r)
      PROVE  TypeInv'
  BY <1>1 DEF Trigger, ClientState
<1>2. ASSUME NEW c \in Clients, ClientStep(c) \/ KillClient(c)
      PROVE  TypeInv'
  <2>1. CASE LookUp(c)
    <3>1. /\ client[c].pc = "lookup"
          /\ Goto(c, "read") \/ Goto(c, "create")
          /\ UNCHANGED <<redisVars, saved, worker, boundVars>>
      BY <2>1 DEF LookUp
    <3>2. client' \in [Clients -> ClientState]
      BY <3>1, ClientGoto
    <3>3. TypeOK'
      BY <3>1, <3>2
    <3>4. ClientControl'
      <4>1. CASE Goto(c, "read")
        BY <3>1, <4>1 DEF Goto, ClientState
      <4>2. CASE Goto(c, "create")
        BY <3>1, <4>2 DEF Goto, ClientState
      <4> QED
        BY <3>1, <4>1, <4>2
    <3> QED
      BY <3>1, <3>3, <3>4
  <2>2. CASE ReadEntry(c)
    <3>1. /\ client[c].pc = "read"
          /\ UNCHANGED <<redisVars, saved, worker, boundVars>>
      BY <2>2 DEF ReadEntry
    <3>2. CASE cache[client[c].arg] # None
      <4>1. PICK j \in JobId :
              /\ status[j] # "absent"
              /\ client' = [client EXCEPT ![c].pc = "exists", ![c].job = j]
        BY <2>2, <3>2 DEF ReadEntry, ClientState
      <4>2. TypeOK'
        BY <3>1, <4>1, ClientHold
      <4>3. ClientControl'
        BY <3>1, <4>1 DEF ClientState
      <4> QED
        BY <3>1, <4>2, <4>3
    <3>3. CASE cache[client[c].arg] = None
      <4>1. Leave(c)
        BY <2>2, <3>3 DEF ReadEntry
      <4> QED
        BY <3>1, <4>1, ClientLeave DEF Leave, ClientState, IdleClient
    <3> QED
      BY <3>2, <3>3
  <2>3. CASE CheckJob(c)
    <3>1. /\ client[c].pc = "exists"
          /\ Goto(c, "fetch") \/ Goto(c, "create")
          /\ UNCHANGED <<redisVars, saved, worker, boundVars>>
      BY <2>3 DEF CheckJob
    <3>2. client' \in [Clients -> ClientState]
      BY <3>1, ClientGoto
    <3>3. TypeOK'
      BY <3>1, <3>2
    <3>4. ClientControl'
      <4>1. CASE Goto(c, "fetch")
        BY <3>1, <4>1 DEF Goto, ClientState
      <4>2. CASE Goto(c, "create")
        BY <3>1, <4>2 DEF Goto, ClientState
      <4> QED
        BY <3>1, <4>1, <4>2
    <3> QED
      BY <3>1, <3>3, <3>4
  <2>4. CASE FetchJob(c)
    <3>1. /\ client[c].pc = "fetch"
          /\ Goto(c, "requeue") \/ Leave(c)
          /\ UNCHANGED <<redisVars, saved, worker, boundVars>>
      BY <2>4 DEF FetchJob
    <3>2. client' \in [Clients -> ClientState]
      BY <3>1, ClientGoto, ClientLeave
    <3>3. TypeOK'
      BY <3>1, <3>2
    <3>4. ClientControl'
      <4>1. CASE Goto(c, "requeue")
        BY <3>1, <4>1 DEF Goto, ClientState
      <4>2. CASE Leave(c)
        BY <3>1, <4>2 DEF Leave, IdleClient, ClientState
      <4> QED
        BY <3>1, <4>1, <4>2
    <3> QED
      BY <3>1, <3>3, <3>4
  <2>5. CASE RequeueJob(c)
    <3>1. client' \in [Clients -> ClientState]
      BY <2>5, ClientLeave DEF RequeueJob
    <3>2. client[c].job \in JobId
      BY <2>5 DEF RequeueJob
    <3>3. CASE Enqueue(client[c].job)
      BY <2>5, <3>1, <3>2, <3>3
         DEF RequeueJob, Enqueue, Leave, ClientState, IdleClient
    <3>4. CASE UNCHANGED <<status, queue>>
      BY <2>5, <3>1, <3>4 DEF RequeueJob, Leave, ClientState, IdleClient
    <3> QED
      BY <2>5, <3>3, <3>4 DEF RequeueJob
  <2>6. CASE CreateJob(c)
    <3>1. client' \in [Clients -> ClientState]
      BY <2>6, ClientHold, FreshIdIsFresh DEF CreateJob
    <3>2. TypeOK'
      BY <2>6, <3>1, FreshIdIsFresh DEF CreateJob
    <3>3. ClientControl'
      BY <2>6, FreshIdIsFresh DEF CreateJob, ClientState, IdleClient
    <3>4. WorkerControl'
      BY <2>6, FreshIdIsFresh DEF CreateJob
    <3>5. StoreControl'
      BY <2>6, FreshIdIsFresh DEF CreateJob
    <3> QED
      BY <3>2, <3>3, <3>4, <3>5
  <2>7. CASE RejectRequest(c)
    <3>1. client' \in [Clients -> ClientState]
      BY <2>7, ClientLeave DEF RejectRequest
    <3>2. TypeOK'
      BY <2>7, <3>1 DEF RejectRequest
    <3>3. ClientControl'
      BY <2>7 DEF RejectRequest, Leave, ClientState, IdleClient
    <3>4. WorkerControl'
      BY <2>7 DEF RejectRequest
    <3>5. StoreControl'
      BY <2>7 DEF RejectRequest
    <3> QED
      BY <3>2, <3>3, <3>4, <3>5
  <2>8. CASE EnqueueJob(c)
    <3>1. client' \in [Clients -> ClientState]
      BY <2>8, ClientGoto DEF EnqueueJob
    <3>2. TypeOK'
      BY <2>8, <3>1 DEF EnqueueJob, Enqueue
    <3>3. ClientControl'
      BY <2>8 DEF EnqueueJob, Enqueue, Goto, ClientState, IdleClient
    <3>4. WorkerControl'
      BY <2>8 DEF EnqueueJob, Enqueue
    <3>5. StoreControl'
      BY <2>8 DEF EnqueueJob, Enqueue
    <3> QED
      BY <3>2, <3>3, <3>4, <3>5
  <2>9. CASE IndexJob(c)
    <3>1. client' \in [Clients -> ClientState]
      BY <2>9, ClientGoto DEF IndexJob
    <3>2. TypeOK'
      BY <2>9, <3>1 DEF IndexJob
    <3>3. ClientControl'
      BY <2>9 DEF IndexJob, Goto, ClientState, IdleClient
    <3>4. WorkerControl'
      BY <2>9 DEF IndexJob
    <3>5. StoreControl'
      BY <2>9 DEF IndexJob
    <3> QED
      BY <3>2, <3>3, <3>4, <3>5
  <2>10. CASE StoreEntry(c)
    <3>1. client' \in [Clients -> ClientState]
      BY <2>10, ClientLeave DEF StoreEntry
    <3>2. TypeOK'
      BY <2>10, <3>1 DEF StoreEntry
    <3>3. ClientControl'
      BY <2>10 DEF StoreEntry, Leave, ClientState, IdleClient
    <3>4. WorkerControl'
      BY <2>10 DEF StoreEntry
    <3>5. StoreControl'
      BY <2>10 DEF StoreEntry
    <3> QED
      BY <3>2, <3>3, <3>4, <3>5
  <2>11. CASE KillClient(c)
    <3>1. client' \in [Clients -> ClientState]
      BY <2>11, ClientLeave DEF KillClient
    <3>2. TypeOK'
      BY <2>11, <3>1 DEF KillClient
    <3>3. ClientControl'
      BY <2>11 DEF KillClient, Leave, ClientState, IdleClient
    <3>4. WorkerControl'
      BY <2>11 DEF KillClient
    <3>5. StoreControl'
      BY SMTT(30), <2>11 DEF KillClient
    <3> QED
      BY <3>2, <3>3, <3>4, <3>5
  <2> QED
    BY <1>2, <2>1, <2>2, <2>3, <2>4, <2>5, <2>6, <2>7, <2>8, <2>9, <2>10,
       <2>11 DEF ClientStep
<1>3. ASSUME NEW w \in Workers, WorkerStep(w) \/ KillWorker(w)
      PROVE  TypeInv'
  <2>1. CASE Dequeue(w)
    <3>1. Head(queue) \in JobId /\ Tail(queue) \in Seq(JobId)
      BY <2>1 DEF Dequeue
    <3>2. CASE JobExists(Head(queue))
      <4>1. worker' \in [Workers -> WorkerState]
        BY <2>1, <3>1, <3>2, WorkerTake DEF Dequeue
      <4>2. TypeOK'
        BY <2>1, <3>1, <3>2, <4>1 DEF Dequeue
      <4>3. /\ status[Head(queue)] # "absent"
            /\ status' = [status EXCEPT ![Head(queue)] = "started"]
            /\ worker' = [worker EXCEPT ![w] =
                  [IdleWorker EXCEPT !.pc = "compute", !.job = Head(queue)]]
            /\ UNCHANGED <<client, sched, cache>>
        BY <2>1, <3>2 DEF Dequeue, JobExists
      <4>4. ClientControl' /\ StoreControl'
        BY <3>1, <4>3
      <4>5. WorkerControl'
        BY <3>1, <4>3 DEF WorkerState, IdleWorker
      <4> QED
        BY <4>2, <4>4, <4>5
    <3>3. CASE ~JobExists(Head(queue))
      BY <2>1, <3>1, <3>3 DEF Dequeue
    <3> QED
      BY <3>2, <3>3
  <2>2. CASE ComputeSchedule(w)
    <3>1. worker' \in [Workers -> WorkerState]
      BY <2>2, WorkerMove DEF ComputeSchedule
    <3>2. TypeOK'
      BY <2>2, <3>1 DEF ComputeSchedule
    <3>3. ClientControl'
      BY <2>2 DEF ComputeSchedule
    <3>4. WorkerControl'
      BY <2>2 DEF ComputeSchedule, Move, WorkerState, IdleWorker
    <3>5. StoreControl'
      BY <2>2 DEF ComputeSchedule
    <3> QED
      BY <3>2, <3>3, <3>4, <3>5
  <2>3. CASE SaveSchedule(w)
    <3>1. worker' \in [Workers -> WorkerState]
      BY <2>3, WorkerMove DEF SaveSchedule
    <3>2. TypeOK'
      BY <2>3, <3>1 DEF SaveSchedule
    <3>3. ClientControl'
      BY <2>3 DEF SaveSchedule
    <3>4. WorkerControl'
      BY <2>3 DEF SaveSchedule, Move, WorkerState, IdleWorker
    <3>5. StoreControl'
      BY <2>3 DEF SaveSchedule
    <3> QED
      BY <3>2, <3>3, <3>4, <3>5
  <2>4. CASE \E exc \in {"infeasible", "other"} : RaiseException(w, exc)
    <3>1. worker' \in [Workers -> WorkerState]
      BY <2>4, WorkerRaise DEF RaiseException
    <3>2. TypeOK'
      BY <2>4, <3>1 DEF RaiseException
    <3>3. ClientControl'
      BY <2>4 DEF RaiseException
    <3>4. WorkerControl'
      BY <2>4 DEF RaiseException, WorkerState, IdleWorker
    <3>5. StoreControl'
      BY <2>4 DEF RaiseException
    <3> QED
      BY <3>2, <3>3, <3>4, <3>5
  <2>5. CASE SuccessCallback(w)
    <3>1. /\ worker[w].pc = "callback"
          /\ \/ Move(w, "finish")
             \/ worker' = [worker EXCEPT ![w].pc = "except", ![w].exc = "other"]
          /\ UNCHANGED <<redisVars, saved, client, boundVars>>
      BY <2>5 DEF SuccessCallback
    <3>2. worker' \in [Workers -> WorkerState]
      BY <3>1, WorkerMove, WorkerRaise
    <3>3. TypeOK'
      BY <3>1, <3>2
    <3>4. WorkerControl'
      <4>1. CASE Move(w, "finish")
        BY <3>1, <4>1 DEF Move, WorkerState
      <4>2. CASE worker' = [worker EXCEPT ![w].pc = "except",
                                     ![w].exc = "other"]
        BY <3>1, <4>2 DEF WorkerState
      <4> QED
        BY <3>1, <4>1, <4>2
    <3> QED
      BY <3>1, <3>3, <3>4
  <2>6. CASE FinishJob(w)
    <3>1. worker' \in [Workers -> WorkerState]
      BY <2>6, WorkerRest DEF FinishJob
    <3>2. TypeOK'
      BY <2>6, <3>1 DEF FinishJob
    <3>3. ClientControl'
      BY <2>6 DEF FinishJob
    <3>4. WorkerControl'
      BY <2>6 DEF FinishJob, Rest, WorkerState, IdleWorker
    <3>5. StoreControl'
      BY <2>6 DEF FinishJob
    <3> QED
      BY <3>2, <3>3, <3>4, <3>5
  <2>7. CASE FailureCallback(w)
    <3>1. /\ worker[w].pc = "except"
          /\ UNCHANGED <<redisVars, saved, client, boundVars>>
      BY <2>7 DEF FailureCallback
    <3>2. worker' \in [Workers -> WorkerState]
      BY <2>7, WorkerMove DEF FailureCallback
    <3>3. TypeOK'
      BY <3>1, <3>2
    <3>4. WorkerControl'
      <4>1. CASE /\ FallbackClass[sched[worker[w].job]] # None
                 /\ Move(w, "fallback")
        BY <3>1, <4>1 DEF Move, WorkerState
      <4>2. CASE Move(w, "fail")
        BY <3>1, <4>2 DEF Move, WorkerState
      <4> QED
        BY <2>7, <4>1, <4>2 DEF FailureCallback
    <3> QED
      BY <3>1, <3>3, <3>4
  <2>8. CASE CreateFallback(w)
    <3>1. worker' \in [Workers -> WorkerState]
      BY <2>8, WorkerNew, FreshIdIsFresh DEF CreateFallback
    <3>2. TypeOK'
      BY <2>8, <3>1, FreshIdIsFresh DEF CreateFallback, OriginalOf
    <3>3. ClientControl'
      BY <2>8, FreshIdIsFresh DEF CreateFallback, OriginalOf
    <3>4. WorkerControl'
      BY <2>8, FreshIdIsFresh DEF CreateFallback, OriginalOf, WorkerState, IdleWorker
    <3>5. StoreControl'
      BY <2>8, FreshIdIsFresh DEF CreateFallback, OriginalOf
    <3> QED
      BY <3>2, <3>3, <3>4, <3>5
  <2>9. CASE RejectFallback(w)
    <3>1. worker' \in [Workers -> WorkerState]
      BY <2>9, WorkerMove DEF RejectFallback
    <3>2. TypeOK'
      BY <2>9, <3>1 DEF RejectFallback
    <3>3. ClientControl'
      BY <2>9 DEF RejectFallback
    <3>4. WorkerControl'
      BY <2>9 DEF RejectFallback, Move, WorkerState, IdleWorker
    <3>5. StoreControl'
      BY <2>9 DEF RejectFallback
    <3> QED
      BY <3>2, <3>3, <3>4, <3>5
  <2>10. CASE LinkFallback(w)
    <3>1. worker' \in [Workers -> WorkerState]
      BY <2>10, WorkerMove DEF LinkFallback
    <3>2. TypeOK'
      BY <2>10, <3>1 DEF LinkFallback
    <3>3. ClientControl'
      BY <2>10 DEF LinkFallback
    <3>4. WorkerControl'
      BY <2>10 DEF LinkFallback, Move, WorkerState, IdleWorker
    <3>5. StoreControl'
      BY <2>10 DEF LinkFallback
    <3> QED
      BY <3>2, <3>3, <3>4, <3>5
  <2>11. CASE EnqueueFallback(w)
    <3>1. worker' \in [Workers -> WorkerState]
      BY <2>11, WorkerMove DEF EnqueueFallback
    <3>2. TypeOK'
      BY <2>11, <3>1 DEF EnqueueFallback, Enqueue
    <3>3. ClientControl'
      BY <2>11 DEF EnqueueFallback, Enqueue
    <3>4. WorkerControl'
      BY <2>11 DEF EnqueueFallback, Enqueue, Move, WorkerState, IdleWorker
    <3>5. StoreControl'
      BY <2>11 DEF EnqueueFallback, Enqueue
    <3> QED
      BY <3>2, <3>3, <3>4, <3>5
  <2>12. CASE FailJob(w)
    <3>1. worker' \in [Workers -> WorkerState]
      BY <2>12, WorkerRest DEF FailJob
    <3>2. TypeOK'
      BY <2>12, <3>1 DEF FailJob
    <3>3. ClientControl'
      BY <2>12 DEF FailJob
    <3>4. WorkerControl'
      BY <2>12 DEF FailJob, Rest, WorkerState, IdleWorker
    <3>5. StoreControl'
      BY <2>12 DEF FailJob
    <3> QED
      BY <3>2, <3>3, <3>4, <3>5
  <2>13. CASE KillWorker(w)
    <3>1. worker' \in [Workers -> WorkerState]
      BY <2>13, WorkerRest DEF KillWorker
    <3>2. TypeOK'
      BY <2>13, <3>1 DEF KillWorker
    <3>3. ClientControl'
      BY <2>13 DEF KillWorker
    <3>4. WorkerControl'
      BY <2>13 DEF KillWorker, Rest, WorkerState, IdleWorker
    <3>5. StoreControl'
      BY <2>13 DEF KillWorker
    <3> QED
      BY <3>2, <3>3, <3>4, <3>5
  <2> QED
    BY <1>3, <2>1, <2>2, <2>3, <2>4, <2>5, <2>6, <2>7, <2>8, <2>9, <2>10,
       <2>11, <2>12, <2>13 DEF WorkerStep
<1>4. ASSUME NEW j \in JobId, AbandonJob(j) \/ ExpireJob(j)
      PROVE  TypeInv'
  BY <1>4 DEF AbandonJob, ExpireJob
<1>5. CASE \E a \in Args : ExpireEntry(a)
  BY <1>5 DEF ExpireEntry
<1>6. CASE ReadIndex \/ PruneIndex
  BY <1>6 DEF ReadIndex, PruneIndex
<1>7. CASE Quiescent \/ UNCHANGED vars
  BY <1>7 DEF Quiescent
<1> QED
  BY <1>1, <1>2, <1>3, <1>4, <1>5, <1>6, <1>7 DEF Next

\* The state is always of the declared type, and a process that acts on a job
\* holds one.
THEOREM Typing == Spec => []TypeInv
BY TypeInit, TypeNext, PTL DEF Spec

\* TypeOK: every value stays within its type, whoever is killed and whatever expires.
THEOREM TypeCorrect == Spec => []TypeOK
<1>1. TypeInv => TypeOK
  BY DEF TypeInv
<1> QED
  BY <1>1, Typing, PTL

-----------------------------------------------------------------------------
\* A worker that is about to finish a job has saved its schedule.
SavedInv ==
    /\ FinishedIsSaved
    /\ \A w \in Workers :
         /\ worker[w].pc = "save" => worker[w].job \in sourced
         /\ worker[w].pc \in {"callback", "finish"} =>
              worker[w].job \in saved \cap sourced

\* Initially no job has finished.
LEMMA SavedInit == Init => SavedInv
BY DEF Init, SavedInv, FinishedIsSaved, IdleWorker

\* A job only finishes after its schedule was committed.
LEMMA SavedNext == TypeInv /\ SavedInv /\ [Next]_vars => SavedInv'
<1> SUFFICES ASSUME TypeInv, SavedInv, [Next]_vars PROVE SavedInv'
  OBVIOUS
<1> USE SchedulingAssumption DEF TypeInv, TypeOK, SavedInv, FinishedIsSaved,
        ClientControl, WorkerControl,
        StoreControl, Statuses, vars, redisVars, metaVars, newVars, indexVars,
        boundVars
<1>1. ASSUME NEW c \in Clients, NEW a \in Args, NEW f \in ForceFlags,
             NEW r \in RequeueFlags, Trigger(c, a, f, r)
      PROVE  SavedInv'
  BY <1>1 DEF Trigger
<1>2. ASSUME NEW c \in Clients, ClientStep(c) \/ KillClient(c)
      PROVE  SavedInv'
  <2>1. CASE LookUp(c)
    BY <2>1 DEF LookUp, Goto
  <2>2. CASE ReadEntry(c)
    BY <2>2 DEF ReadEntry, Leave
  <2>3. CASE CheckJob(c)
    BY <2>3 DEF CheckJob, Goto
  <2>4. CASE FetchJob(c)
    BY <2>4 DEF FetchJob, Goto, Leave
  <2>5. CASE RequeueJob(c)
    BY <2>5 DEF RequeueJob, Enqueue, Leave
  <2>6. CASE CreateJob(c)
    BY <2>6, FreshIdIsFresh DEF CreateJob
  <2>7. CASE RejectRequest(c)
    BY <2>7 DEF RejectRequest, Leave
  <2>8. CASE EnqueueJob(c)
    BY <2>8 DEF EnqueueJob, Enqueue, Goto
  <2>9. CASE IndexJob(c)
    BY <2>9 DEF IndexJob, Goto
  <2>10. CASE StoreEntry(c)
    BY <2>10 DEF StoreEntry, Leave
  <2>11. CASE KillClient(c)
    BY <2>11 DEF KillClient, Leave
  <2> QED
    BY <1>2, <2>1, <2>2, <2>3, <2>4, <2>5, <2>6, <2>7, <2>8, <2>9, <2>10,
       <2>11 DEF ClientStep
<1>3. ASSUME NEW w \in Workers, WorkerStep(w) \/ KillWorker(w)
      PROVE  SavedInv'
  <2>1. CASE Dequeue(w)
    <3>1. CASE ~JobExists(Head(queue))
      BY <2>1, <3>1 DEF Dequeue
    <3>2. CASE JobExists(Head(queue))
      <4>1. /\ status' = [status EXCEPT ![Head(queue)] = "started"]
            /\ worker' = [worker EXCEPT ![w] =
                  [IdleWorker EXCEPT !.pc = "compute", !.job = Head(queue)]]
            /\ UNCHANGED <<saved, sourced>>
        BY <2>1, <3>2 DEF Dequeue
      <4> QED
        BY <4>1 DEF WorkerState, IdleWorker
    <3> QED
      BY <3>1, <3>2
  <2>2. CASE ComputeSchedule(w)
    BY <2>2 DEF ComputeSchedule, Move, WorkerState, IdleWorker
  <2>3. CASE SaveSchedule(w)
    BY <2>3 DEF SaveSchedule, Move, WorkerState, IdleWorker
  <2>4. CASE \E exc \in {"infeasible", "other"} : RaiseException(w, exc)
    BY <2>4 DEF RaiseException, WorkerState, IdleWorker
  <2>5. CASE SuccessCallback(w)
    BY SMTT(30), <2>5 DEF SuccessCallback, Move, WorkerState, IdleWorker
  <2>6. CASE FinishJob(w)
    BY <2>6 DEF FinishJob, Rest, WorkerState, IdleWorker
  <2>7. CASE FailureCallback(w)
    BY <2>7 DEF FailureCallback, Move, WorkerState, IdleWorker
  <2>8. CASE CreateFallback(w)
    BY <2>8, FreshIdIsFresh DEF CreateFallback, OriginalOf, WorkerState, IdleWorker
  <2>9. CASE RejectFallback(w)
    BY <2>9 DEF RejectFallback, Move, WorkerState, IdleWorker
  <2>10. CASE LinkFallback(w)
    BY <2>10 DEF LinkFallback, Move, WorkerState, IdleWorker
  <2>11. CASE EnqueueFallback(w)
    BY <2>11 DEF EnqueueFallback, Enqueue, Move, WorkerState, IdleWorker
  <2>12. CASE FailJob(w)
    BY <2>12 DEF FailJob, Rest, WorkerState, IdleWorker
  <2>13. CASE KillWorker(w)
    BY <2>13 DEF KillWorker, Rest, WorkerState, IdleWorker
  <2> QED
    BY <1>3, <2>1, <2>2, <2>3, <2>4, <2>5, <2>6, <2>7, <2>8, <2>9, <2>10,
       <2>11, <2>12, <2>13 DEF WorkerStep
<1>4. ASSUME NEW j \in JobId, AbandonJob(j) \/ ExpireJob(j)
      PROVE  SavedInv'
  BY <1>4 DEF AbandonJob, ExpireJob
<1>5. CASE \E a \in Args : ExpireEntry(a)
  BY <1>5 DEF ExpireEntry
<1>6. CASE ReadIndex \/ PruneIndex
  BY <1>6 DEF ReadIndex, PruneIndex
<1>7. CASE Quiescent \/ UNCHANGED vars
  BY <1>7 DEF Quiescent
<1> QED
  BY <1>1, <1>2, <1>3, <1>4, <1>5, <1>6, <1>7 DEF Next

\* GET /schedules finds a schedule for every finished job.
THEOREM FinishedJobsAreSaved == Spec => []FinishedIsSaved
<1>1. SavedInv => FinishedIsSaved
  BY DEF SavedInv
<1> QED
  BY <1>1, Typing, SavedInit, SavedNext, PTL DEF Spec

-----------------------------------------------------------------------------
\* A web process that is about to put a job in the cache has enqueued it, and
\* made it for the arguments of its request.
CacheInv ==
    /\ CacheSound
    /\ \A c \in Clients :
         /\ client[c].pc \in {"enqueue", "index", "store"} =>
              /\ args[client[c].job] = client[c].arg
              /\ original[client[c].job] = None
         /\ client[c].pc \in {"index", "store"} =>
              status[client[c].job] # "created"
    /\ \A j \in JobId : status[j] = "absent" => original[j] = None

\* Initially the job cache is empty.
LEMMA CacheInit == Init => CacheInv
BY DEF Init, CacheInv, CacheSound, IdleClient

\* An id only enters the job cache after its job was enqueued.
LEMMA CacheNext == TypeInv /\ CacheInv /\ [Next]_vars => CacheInv'
<1> SUFFICES ASSUME TypeInv, CacheInv, [Next]_vars PROVE CacheInv'
  OBVIOUS
<1> USE SchedulingAssumption DEF TypeInv, TypeOK, CacheInv, CacheSound,
        ClientControl, WorkerControl,
        StoreControl, Statuses, vars, redisVars, metaVars, newVars, indexVars,
        boundVars
<1>1. ASSUME NEW c \in Clients, NEW a \in Args, NEW f \in ForceFlags,
             NEW r \in RequeueFlags, Trigger(c, a, f, r)
      PROVE  CacheInv'
  BY <1>1 DEF Trigger, ClientState, IdleClient
<1>2. ASSUME NEW c \in Clients, ClientStep(c) \/ KillClient(c)
      PROVE  CacheInv'
  <2>1. CASE LookUp(c)
    <3>1. Goto(c, "read") \/ Goto(c, "create")
      BY <2>1 DEF LookUp
    <3>2. UNCHANGED <<status, args, original, cache>>
      BY <2>1 DEF LookUp
    <3>3. CASE Goto(c, "read")
      BY <3>2, <3>3 DEF Goto, ClientState
    <3>4. CASE Goto(c, "create")
      BY <3>2, <3>4 DEF Goto, ClientState
    <3> QED
      BY <3>1, <3>3, <3>4
  <2>2. CASE ReadEntry(c)
    BY <2>2 DEF ReadEntry, Leave, ClientState, IdleClient
  <2>3. CASE CheckJob(c)
    <3>1. Goto(c, "fetch") \/ Goto(c, "create")
      BY <2>3 DEF CheckJob
    <3>2. UNCHANGED <<status, args, original, cache>>
      BY <2>3 DEF CheckJob
    <3>3. CASE Goto(c, "fetch")
      BY <3>2, <3>3 DEF Goto, ClientState
    <3>4. CASE Goto(c, "create")
      BY <3>2, <3>4 DEF Goto, ClientState
    <3> QED
      BY <3>1, <3>3, <3>4
  <2>4. CASE FetchJob(c)
    <3>1. Goto(c, "requeue") \/ Leave(c)
      BY <2>4 DEF FetchJob
    <3>2. UNCHANGED <<status, args, original, cache>>
      BY <2>4 DEF FetchJob
    <3>3. CASE Goto(c, "requeue")
      BY <3>2, <3>3 DEF Goto, ClientState
    <3>4. CASE Leave(c)
      BY <3>2, <3>4 DEF Leave, ClientState, IdleClient
    <3> QED
      BY <3>1, <3>3, <3>4
  <2>5. CASE RequeueJob(c)
    BY <2>5 DEF RequeueJob, Enqueue, Leave, ClientState, IdleClient
  <2>6. CASE CreateJob(c)
    <3>1. PICK j \in JobId :
            /\ status[j] = "absent"
            /\ status' = [status EXCEPT ![j] = "created"]
            /\ args' = [args EXCEPT ![j] = client[c].arg]
            /\ client' = [client EXCEPT ![c].pc = "enqueue", ![c].job = j]
            /\ UNCHANGED <<original, cache>>
      BY <2>6, FreshIdIsFresh DEF CreateJob
    <3>2. CacheSound'
      BY <3>1
    <3>3. original[j] = None
      BY <3>1
    <3> QED
      BY <3>1, <3>2, <3>3 DEF ClientState
  <2>7. CASE RejectRequest(c)
    BY <2>7 DEF RejectRequest, Leave, ClientState, IdleClient
  <2>8. CASE EnqueueJob(c)
    BY <2>8 DEF EnqueueJob, Enqueue, Goto, ClientState, IdleClient
  <2>9. CASE IndexJob(c)
    BY <2>9 DEF IndexJob, Goto, ClientState, IdleClient
  <2>10. CASE StoreEntry(c)
    BY <2>10 DEF StoreEntry, Leave, ClientState, IdleClient
  <2>11. CASE KillClient(c)
    BY <2>11 DEF KillClient, Leave, ClientState, IdleClient
  <2> QED
    BY <1>2, <2>1, <2>2, <2>3, <2>4, <2>5, <2>6, <2>7, <2>8, <2>9, <2>10,
       <2>11 DEF ClientStep
<1>3. ASSUME NEW w \in Workers, WorkerStep(w) \/ KillWorker(w)
      PROVE  CacheInv'
  <2>1. CASE Dequeue(w)
    BY <2>1 DEF Dequeue
  <2>2. CASE ComputeSchedule(w)
    BY <2>2 DEF ComputeSchedule, Move
  <2>3. CASE SaveSchedule(w)
    BY <2>3 DEF SaveSchedule, Move
  <2>4. CASE \E exc \in {"infeasible", "other"} : RaiseException(w, exc)
    BY <2>4 DEF RaiseException
  <2>5. CASE SuccessCallback(w)
    BY <2>5 DEF SuccessCallback, Move
  <2>6. CASE FinishJob(w)
    BY <2>6 DEF FinishJob, Rest
  <2>7. CASE FailureCallback(w)
    BY <2>7 DEF FailureCallback, Move
  <2>8. CASE CreateFallback(w)
    BY <2>8, FreshIdIsFresh DEF CreateFallback, OriginalOf
  <2>9. CASE RejectFallback(w)
    BY <2>9 DEF RejectFallback, Move
  <2>10. CASE LinkFallback(w)
    BY <2>10 DEF LinkFallback, Move
  <2>11. CASE EnqueueFallback(w)
    BY <2>11 DEF EnqueueFallback, Enqueue, Move
  <2>12. CASE FailJob(w)
    BY <2>12 DEF FailJob, Rest
  <2>13. CASE KillWorker(w)
    BY <2>13 DEF KillWorker, Rest
  <2> QED
    BY <1>3, <2>1, <2>2, <2>3, <2>4, <2>5, <2>6, <2>7, <2>8, <2>9, <2>10,
       <2>11, <2>12, <2>13 DEF WorkerStep
<1>4. ASSUME NEW j \in JobId, AbandonJob(j) \/ ExpireJob(j)
      PROVE  CacheInv'
  BY <1>4 DEF AbandonJob, ExpireJob
<1>5. CASE \E a \in Args : ExpireEntry(a)
  BY <1>5 DEF ExpireEntry
<1>6. CASE ReadIndex \/ PruneIndex
  BY <1>6 DEF ReadIndex, PruneIndex
<1>7. CASE Quiescent \/ UNCHANGED vars
  BY <1>7 DEF Quiescent
<1> QED
  BY <1>1, <1>2, <1>3, <1>4, <1>5, <1>6, <1>7 DEF Next

\* Every id the job cache hands out is that of an enqueued job for the same
\* arguments.
THEOREM CacheIsSound == Spec => []CacheSound
<1>1. CacheInv => CacheSound
  BY DEF CacheInv
<1> QED
  BY <1>1, Typing, CacheInit, CacheNext, PTL DEF Spec

-----------------------------------------------------------------------------
\* Where a job id is says which status the job has: in the queue, with the
\* worker that runs it, or with the process that created and will enqueue it.
QueuedOnly ==
    \A i \in 1 .. Len(queue) : status[queue[i]] \in {"queued", "gone"}

RunningStarted ==
    \A w \in Workers : worker[w].pc # "idle" => status[worker[w].job] = "started"

FreshUnqueued ==
    /\ \A c \in Clients :
         client[c].pc = "enqueue" => status[client[c].job] = "created"
    /\ \A w \in Workers :
         worker[w].pc \in {"link", "enqueue"} => status[worker[w].new] = "created"

\* A created job that is still to be enqueued has one owner.
FreshOwned ==
    /\ \A c, d \in Clients :
         /\ client[c].pc = "enqueue" /\ client[d].pc = "enqueue"
         /\ client[c].job = client[d].job
         => c = d
    /\ \A v, w \in Workers :
         /\ {worker[v].pc, worker[w].pc} \subseteq {"link", "enqueue"}
         /\ worker[v].new = worker[w].new
         => v = w
    /\ \A c \in Clients, w \in Workers :
         client[c].pc = "enqueue" /\ worker[w].pc \in {"link", "enqueue"} =>
             client[c].job # worker[w].new

QueueInv ==
    RunOnce /\ QueuedOnly /\ RunningStarted /\ FreshUnqueued /\ FreshOwned

\* Putting a job in the queue that is neither queued, expired nor running.
LEMMA EnqueueOnce ==
  ASSUME TypeInv, QueueInv, NEW j \in JobId, status[j] \in {"created", "failed"},
         Enqueue(j), \A w \in Workers : worker'[w].job = worker[w].job
  PROVE  RunOnce' /\ QueuedOnly'
<1> USE DEF TypeInv, TypeOK, QueueInv, QueuedOnly, RunningStarted, WorkerControl
<1>1. /\ queue' = Append(queue, j)
      /\ status' = [status EXCEPT ![j] = "queued"]
  BY DEF Enqueue
<1>2. \A i \in 1 .. Len(queue) : queue[i] \in JobId /\ queue[i] # j
  OBVIOUS
<1>3. /\ Len(queue') = Len(queue) + 1
      /\ \A i \in 1 .. Len(queue) : queue'[i] = queue[i]
      /\ queue'[Len(queue) + 1] = j
      /\ Len(queue) \in Nat
  BY <1>1
<1>4. \A w \in Workers : worker[w].job # j
  BY SchedulingAssumption
<1>5. RunOnce'
  <2>1. \A i, k \in 1 .. Len(queue') : queue'[i] = queue'[k] => i = k
    <3> SUFFICES ASSUME NEW i \in 1 .. Len(queue'), NEW k \in 1 .. Len(queue'),
                        queue'[i] = queue'[k]
                 PROVE  i = k
      OBVIOUS
    <3>1. CASE i \in 1 .. Len(queue) /\ k \in 1 .. Len(queue)
      BY <1>3, <3>1 DEF RunOnce
    <3>2. CASE i = Len(queue) + 1 \/ k = Len(queue) + 1
      BY <1>2, <1>3, <3>2
    <3> QED
      BY <1>3, <3>1, <3>2
  <2>2. \A w \in Workers, i \in 1 .. Len(queue') : worker'[w].job # queue'[i]
    <3> SUFFICES ASSUME NEW w \in Workers, NEW i \in 1 .. Len(queue')
                 PROVE  worker[w].job # queue'[i]
      OBVIOUS
    <3>1. CASE i \in 1 .. Len(queue)
      BY <1>3, <3>1 DEF RunOnce
    <3>2. CASE i = Len(queue) + 1
      BY <1>3, <1>4, <3>2
    <3> QED
      BY <1>3, <3>1, <3>2
  <2> QED
    BY <2>1, <2>2 DEF RunOnce
<1>6. QueuedOnly'
  <2> SUFFICES ASSUME NEW i \in 1 .. Len(queue')
               PROVE  status'[queue'[i]] \in {"queued", "gone"}
    OBVIOUS
  <2>1. CASE i \in 1 .. Len(queue)
    BY <1>1, <1>2, <1>3, <2>1
  <2>2. CASE i = Len(queue) + 1
    BY <1>1, <1>3, <2>2
  <2> QED
    BY <1>3, <2>1, <2>2
<1> QED
  BY <1>5, <1>6

\* A web process that moves on without touching shared state.
LEMMA ClientMovesOn ==
  ASSUME TypeInv, QueueInv, NEW c \in Clients, client'[c].pc # "enqueue",
         \A d \in Clients \ {c} : client'[d] = client[d],
         UNCHANGED <<status, queue, worker>>
  PROVE  QueueInv'
<1>1. RunOnce' /\ QueuedOnly' /\ RunningStarted'
  BY DEF QueueInv, RunOnce, QueuedOnly, RunningStarted
<1>2. FreshUnqueued' /\ FreshOwned'
  BY DEF TypeInv, TypeOK, QueueInv, FreshUnqueued, FreshOwned
<1> QED
  BY <1>1, <1>2 DEF QueueInv

\* A worker that moves on with its job without touching shared state.
LEMMA WorkerMovesOn ==
  ASSUME TypeInv, QueueInv, NEW w \in Workers, worker[w].pc # "idle",
         worker'[w].pc \notin {"link", "enqueue"}, worker'[w].job = worker[w].job,
         \A v \in Workers \ {w} : worker'[v] = worker[v],
         UNCHANGED <<status, queue, client>>
  PROVE  QueueInv'
<1>1. \A v \in Workers : worker'[v].job = worker[v].job
  OBVIOUS
<1>2. RunOnce' /\ QueuedOnly'
  BY <1>1 DEF QueueInv, RunOnce, QueuedOnly
<1>3. RunningStarted'
  BY DEF QueueInv, RunningStarted
<1>4. FreshUnqueued' /\ FreshOwned'
  BY DEF QueueInv, FreshUnqueued, FreshOwned
<1> QED
  BY <1>2, <1>3, <1>4 DEF QueueInv

\* Initially nothing is queued and nobody works.
LEMMA QueueInit == Init => QueueInv
BY DEF Init, QueueInv, RunOnce, QueuedOnly, RunningStarted, FreshUnqueued,
       FreshOwned, IdleClient, IdleWorker

\* Every step keeps the queue free of duplicates and of jobs that are being worked on.
LEMMA QueueNext == TypeInv /\ QueueInv /\ [Next]_vars => QueueInv'
<1> SUFFICES ASSUME TypeInv, QueueInv, [Next]_vars PROVE QueueInv'
  OBVIOUS
<1> USE SchedulingAssumption DEF TypeInv, TypeOK, QueueInv, RunOnce, QueuedOnly, RunningStarted,
        FreshUnqueued, FreshOwned, ClientControl, WorkerControl, Statuses, vars,
        redisVars, metaVars, newVars, indexVars, boundVars
<1>1. ASSUME NEW c \in Clients, NEW a \in Args, NEW f \in ForceFlags,
             NEW r \in RequeueFlags, Trigger(c, a, f, r)
      PROVE  QueueInv'
  BY <1>1 DEF Trigger, ClientState, IdleClient
<1>2. ASSUME NEW c \in Clients, ClientStep(c) \/ KillClient(c)
      PROVE  QueueInv'
  <2>1. CASE LookUp(c)
    <3>1. client'[c].pc # "enqueue"
      BY <2>1 DEF LookUp, Goto, ClientState
    <3>2. /\ \A d \in Clients \ {c} : client'[d] = client[d]
          /\ UNCHANGED <<status, queue, worker>>
      BY <2>1 DEF LookUp, Goto
    <3> QED
      BY <3>1, <3>2, ClientMovesOn
  <2>2. CASE ReadEntry(c)
    <3>1. client'[c].pc # "enqueue"
      BY <2>2 DEF ReadEntry, Leave, ClientState, IdleClient
    <3>2. /\ \A d \in Clients \ {c} : client'[d] = client[d]
          /\ UNCHANGED <<status, queue, worker>>
      BY <2>2 DEF ReadEntry, Leave
    <3> QED
      BY <3>1, <3>2, ClientMovesOn
  <2>3. CASE CheckJob(c)
    <3>1. client'[c].pc # "enqueue"
      BY <2>3 DEF CheckJob, Goto, ClientState
    <3>2. /\ \A d \in Clients \ {c} : client'[d] = client[d]
          /\ UNCHANGED <<status, queue, worker>>
      BY <2>3 DEF CheckJob, Goto
    <3> QED
      BY <3>1, <3>2, ClientMovesOn
  <2>4. CASE FetchJob(c)
    <3>1. client'[c].pc # "enqueue"
      BY <2>4 DEF FetchJob, Goto, Leave, ClientState, IdleClient
    <3>2. /\ \A d \in Clients \ {c} : client'[d] = client[d]
          /\ UNCHANGED <<status, queue, worker>>
      BY <2>4 DEF FetchJob, Goto, Leave
    <3> QED
      BY <3>1, <3>2, ClientMovesOn
  <2>5. CASE RequeueJob(c)
    <3>1. /\ client[c].job \in JobId
          /\ client' = [client EXCEPT ![c] = IdleClient]
          /\ UNCHANGED worker
      BY <2>5 DEF RequeueJob, Leave
    <3>2. CASE status[client[c].job] = "failed" /\ Enqueue(client[c].job)
      <4>1. RunOnce' /\ QueuedOnly'
        BY <3>1, <3>2, EnqueueOnce
      <4>2. status' = [status EXCEPT ![client[c].job] = "queued"]
        BY <3>2 DEF Enqueue
      <4>3. RunningStarted' /\ FreshUnqueued' /\ FreshOwned'
        BY <3>1, <3>2, <4>2 DEF ClientState, IdleClient
      <4> QED
        BY <4>1, <4>3
    <3>3. CASE UNCHANGED <<status, queue>>
      <4>1. client'[c].pc # "enqueue"
        BY <3>1 DEF IdleClient
      <4> QED
        BY <3>1, <3>3, <4>1, ClientMovesOn
    <3> QED
      BY <2>5, <3>2, <3>3 DEF RequeueJob
  <2>6. CASE CreateJob(c)
    BY <2>6, FreshIdIsFresh DEF CreateJob, ClientState, IdleClient
  <2>7. CASE RejectRequest(c)
    BY <2>7 DEF RejectRequest, Leave, ClientState, IdleClient
  <2>8. CASE EnqueueJob(c)
    <3>1. /\ client[c].pc = "enqueue"
          /\ client[c].job \in JobId
          /\ status[client[c].job] = "created"
          /\ client' = [client EXCEPT ![c].pc = "index"]
          /\ UNCHANGED worker
      BY <2>8 DEF EnqueueJob, Goto
    <3>2. RunOnce' /\ QueuedOnly'
      BY <2>8, <3>1, EnqueueOnce DEF EnqueueJob
    <3>3. status' = [status EXCEPT ![client[c].job] = "queued"]
      BY <2>8 DEF EnqueueJob, Enqueue
    <3>4. RunningStarted' /\ FreshUnqueued' /\ FreshOwned'
      BY <3>1, <3>3 DEF ClientState
    <3> QED
      BY <3>2, <3>4
  <2>9. CASE IndexJob(c)
    BY <2>9 DEF IndexJob, Goto, ClientState, IdleClient
  <2>10. CASE StoreEntry(c)
    BY <2>10 DEF StoreEntry, Leave, ClientState, IdleClient
  <2>11. CASE KillClient(c)
    BY SMTT(30), <2>11 DEF KillClient, Leave, ClientState, IdleClient
  <2> QED
    BY <1>2, <2>1, <2>2, <2>3, <2>4, <2>5, <2>6, <2>7, <2>8, <2>9, <2>10,
       <2>11 DEF ClientStep
<1>3. ASSUME NEW w \in Workers, WorkerStep(w) \/ KillWorker(w)
      PROVE  QueueInv'
  <2>1. CASE Dequeue(w)
    <3>1. /\ queue' = Tail(queue) /\ queue # <<>>
          /\ UNCHANGED client
      BY <2>1 DEF Dequeue
    <3>2. /\ Len(queue') = Len(queue) - 1
          /\ \A i \in 1 .. Len(queue') : i + 1 \in 1 .. Len(queue)
          /\ \A i \in 1 .. Len(queue') : queue'[i] = queue[i + 1]
          /\ 1 \in 1 .. Len(queue) /\ Head(queue) = queue[1]
          /\ Head(queue) \in JobId
      BY <3>1
    <3>3. \A i \in 1 .. Len(queue') : queue'[i] # Head(queue)
      BY <3>2
    <3>4. /\ \A i, k \in 1 .. Len(queue') : queue'[i] = queue'[k] => i = k
          /\ \A v \in Workers, i \in 1 .. Len(queue') : worker[v].job # queue'[i]
          /\ \A v \in Workers : worker[v].job # Head(queue)
          /\ \A i \in 1 .. Len(queue') : status[queue'[i]] \in {"queued", "gone"}
      <4>1. \A i, k \in 1 .. Len(queue') : queue'[i] = queue'[k] => i = k
        <5> SUFFICES ASSUME NEW i \in 1 .. Len(queue'), NEW k \in 1 .. Len(queue'),
                            queue'[i] = queue'[k]
                     PROVE  i = k
          OBVIOUS
        <5>1. i + 1 = k + 1
          BY <3>2
        <5> QED
          BY <5>1
      <4>2. \A v \in Workers, i \in 1 .. Len(queue') : worker[v].job # queue'[i]
        BY <3>2
      <4>3. /\ \A v \in Workers : worker[v].job # Head(queue)
            /\ \A i \in 1 .. Len(queue') : status[queue'[i]] \in {"queued", "gone"}
        BY <3>2
      <4> QED
        BY <4>1, <4>2, <4>3
    <3>5. CASE ~JobExists(Head(queue))
      <4>1. UNCHANGED <<status, worker>>
        BY <2>1, <3>5 DEF Dequeue
      <4> QED
        BY <3>1, <3>4, <4>1
    <3>6. CASE JobExists(Head(queue))
      <4>1. /\ worker[w].pc = "idle"
            /\ status' = [status EXCEPT ![Head(queue)] = "started"]
            /\ worker'[w].pc = "compute"
            /\ worker'[w].job = Head(queue)
            /\ \A v \in Workers \ {w} : worker'[v] = worker[v]
        <5>1. /\ worker[w].pc = "idle"
              /\ status' = [status EXCEPT ![Head(queue)] = "started"]
              /\ worker' = [worker EXCEPT ![w] =
                    [IdleWorker EXCEPT !.pc = "compute", !.job = Head(queue)]]
          BY <2>1, <3>6 DEF Dequeue
        <5> QED
          BY <5>1 DEF IdleWorker
      <4>2. status[Head(queue)] = "queued"
        BY <3>2, <3>6 DEF JobExists
      <4>3. \A v, x \in Workers :
              worker'[v].job = worker'[x].job /\ worker'[v].job # None => v = x
        BY <3>4, <4>1
      <4>4. \A v \in Workers, i \in 1 .. Len(queue') : worker'[v].job # queue'[i]
        BY <3>3, <3>4, <4>1
      <4>5. RunOnce'
        BY <3>4, <4>3, <4>4
      <4>6. QueuedOnly' /\ RunningStarted'
        BY <3>2, <3>3, <3>4, <4>1
      <4>7. \A v \in Workers :
              worker'[v].pc \in {"link", "enqueue"} => worker'[v] = worker[v]
        BY <4>1
      <4>8. \A f \in JobId : status[f] = "created" => status'[f] = "created"
        BY <3>2, <4>1, <4>2
      <4>9. FreshUnqueued'
        BY <3>1, <4>7, <4>8
      <4>10. FreshOwned'
        BY <3>1, <4>7
      <4> QED
        BY <4>5, <4>6, <4>9, <4>10
    <3> QED
      BY <3>5, <3>6
  <2>2. CASE ComputeSchedule(w)
    BY <2>2 DEF ComputeSchedule, Move, WorkerState, IdleWorker
  <2>3. CASE SaveSchedule(w)
    BY <2>3 DEF SaveSchedule, Move, WorkerState, IdleWorker
  <2>4. CASE \E exc \in {"infeasible", "other"} : RaiseException(w, exc)
    BY <2>4 DEF RaiseException, WorkerState, IdleWorker
  <2>5. CASE SuccessCallback(w)
    <3>1. /\ \A v \in Workers \ {w} : worker'[v] = worker[v]
          /\ UNCHANGED <<status, queue, client>>
      BY <2>5 DEF SuccessCallback, Move
    <3>2. /\ worker[w].pc = "callback"
          /\ worker'[w].job = worker[w].job
          /\ worker'[w].pc \in {"finish", "except"}
      BY <2>5 DEF SuccessCallback, Move, WorkerState
    <3> QED
      BY <3>1, <3>2, WorkerMovesOn
  <2>6. CASE FinishJob(w)
    BY <2>6 DEF FinishJob, Rest, WorkerState, IdleWorker
  <2>7. CASE FailureCallback(w)
    <3>1. /\ \A v \in Workers \ {w} : worker'[v] = worker[v]
          /\ UNCHANGED <<status, queue, client>>
      BY <2>7 DEF FailureCallback, Move
    <3>2. /\ worker[w].pc = "except"
          /\ worker'[w].job = worker[w].job
          /\ worker'[w].pc \in {"fallback", "fail"}
      BY <2>7 DEF FailureCallback, Move, WorkerState
    <3> QED
      BY <3>1, <3>2, WorkerMovesOn
  <2>8. CASE CreateFallback(w)
    BY <2>8, FreshIdIsFresh DEF CreateFallback, OriginalOf, WorkerState, IdleWorker
  <2>9. CASE RejectFallback(w)
    BY <2>9 DEF RejectFallback, Move, WorkerState, IdleWorker
  <2>10. CASE LinkFallback(w)
    BY <2>10 DEF LinkFallback, Move, WorkerState, IdleWorker
  <2>11. CASE EnqueueFallback(w)
    BY SMTT(30), <2>11 DEF EnqueueFallback, Enqueue, Move, WorkerState, IdleWorker
  <2>12. CASE FailJob(w)
    BY <2>12 DEF FailJob, Rest, WorkerState, IdleWorker
  <2>13. CASE KillWorker(w)
    BY <2>13 DEF KillWorker, Rest, WorkerState, IdleWorker
  <2> QED
    BY <1>3, <2>1, <2>2, <2>3, <2>4, <2>5, <2>6, <2>7, <2>8, <2>9, <2>10,
       <2>11, <2>12, <2>13 DEF WorkerStep
<1>4. ASSUME NEW j \in JobId, AbandonJob(j) \/ ExpireJob(j)
      PROVE  QueueInv'
  BY SMTT(30), <1>4 DEF AbandonJob, ExpireJob
<1>5. CASE \E a \in Args : ExpireEntry(a)
  BY <1>5 DEF ExpireEntry
<1>6. CASE ReadIndex \/ PruneIndex
  BY <1>6 DEF ReadIndex, PruneIndex
<1>7. CASE Quiescent \/ UNCHANGED vars
  BY <1>7 DEF Quiescent
<1> QED
  BY <1>1, <1>2, <1>3, <1>4, <1>5, <1>6, <1>7 DEF Next

\* No job id is in the queue twice or with two workers.
THEOREM JobsRunOnce == Spec => []RunOnce
<1>1. QueueInv => RunOnce
  BY DEF QueueInv
<1> QED
  BY <1>1, Typing, QueueInit, QueueNext, PTL DEF Spec

-----------------------------------------------------------------------------
\* What a status page found missing is gone for good: no id comes
\* back once its hash is removed.
StaleInv ==
    /\ \A j \in indexed : status[j] # "absent"
    /\ \A j \in stale : status[j] = "gone"

\* Initially no status page found an id missing.
LEMMA StaleInit == Init => StaleInv
BY DEF Init, StaleInv

\* An id that was found missing never becomes a live job again.
LEMMA StaleNext == TypeInv /\ QueueInv /\ StaleInv /\ [Next]_vars => StaleInv'
<1> SUFFICES ASSUME TypeInv, QueueInv, StaleInv, [Next]_vars PROVE StaleInv'
  OBVIOUS
<1> USE SchedulingAssumption DEF TypeInv, TypeOK, QueueInv, RunningStarted,
        FreshUnqueued, StaleInv, ClientControl, WorkerControl, Statuses, vars,
        redisVars, metaVars, newVars, indexVars, boundVars
<1>1. ASSUME NEW c \in Clients, NEW a \in Args, NEW f \in ForceFlags,
             NEW r \in RequeueFlags, Trigger(c, a, f, r)
      PROVE  StaleInv'
  BY <1>1 DEF Trigger
<1>2. ASSUME NEW c \in Clients, ClientStep(c) \/ KillClient(c)
      PROVE  StaleInv'
  <2>1. CASE LookUp(c)
    BY <2>1 DEF LookUp, Goto
  <2>2. CASE ReadEntry(c)
    BY <2>2 DEF ReadEntry, Leave
  <2>3. CASE CheckJob(c)
    BY <2>3 DEF CheckJob, Goto
  <2>4. CASE FetchJob(c)
    BY <2>4 DEF FetchJob, Goto, Leave
  <2>5. CASE RequeueJob(c)
    BY <2>5 DEF RequeueJob, Enqueue, Leave
  <2>6. CASE CreateJob(c)
    BY <2>6, FreshIdIsFresh DEF CreateJob
  <2>7. CASE RejectRequest(c)
    BY <2>7 DEF RejectRequest, Leave
  <2>8. CASE EnqueueJob(c)
    BY <2>8 DEF EnqueueJob, Enqueue, Goto
  <2>9. CASE IndexJob(c)
    BY <2>9 DEF IndexJob, Goto
  <2>10. CASE StoreEntry(c)
    BY <2>10 DEF StoreEntry, Leave
  <2>11. CASE KillClient(c)
    BY <2>11 DEF KillClient, Leave
  <2> QED
    BY <1>2, <2>1, <2>2, <2>3, <2>4, <2>5, <2>6, <2>7, <2>8, <2>9, <2>10,
       <2>11 DEF ClientStep
<1>3. ASSUME NEW w \in Workers, WorkerStep(w) \/ KillWorker(w)
      PROVE  StaleInv'
  <2>1. CASE Dequeue(w)
    <3>1. UNCHANGED <<indexed, stale>>
      BY <2>1 DEF Dequeue
    <3>2. CASE JobExists(Head(queue))
      BY <2>1, <3>1, <3>2 DEF Dequeue, JobExists
    <3>3. CASE ~JobExists(Head(queue))
      BY <2>1, <3>1, <3>3 DEF Dequeue
    <3> QED
      BY <3>2, <3>3
  <2>2. CASE ComputeSchedule(w)
    BY <2>2 DEF ComputeSchedule, Move
  <2>3. CASE SaveSchedule(w)
    BY <2>3 DEF SaveSchedule, Move
  <2>4. CASE \E exc \in {"infeasible", "other"} : RaiseException(w, exc)
    BY <2>4 DEF RaiseException
  <2>5. CASE SuccessCallback(w)
    BY <2>5 DEF SuccessCallback, Move
  <2>6. CASE FinishJob(w)
    BY <2>6 DEF FinishJob, Rest
  <2>7. CASE FailureCallback(w)
    BY <2>7 DEF FailureCallback, Move
  <2>8. CASE CreateFallback(w)
    BY <2>8, FreshIdIsFresh DEF CreateFallback, OriginalOf
  <2>9. CASE RejectFallback(w)
    BY <2>9 DEF RejectFallback, Move
  <2>10. CASE LinkFallback(w)
    BY <2>10 DEF LinkFallback, Move
  <2>11. CASE EnqueueFallback(w)
    BY <2>11 DEF EnqueueFallback, Enqueue, Move
  <2>12. CASE FailJob(w)
    BY <2>12 DEF FailJob, Rest
  <2>13. CASE KillWorker(w)
    BY <2>13 DEF KillWorker, Rest
  <2> QED
    BY <1>3, <2>1, <2>2, <2>3, <2>4, <2>5, <2>6, <2>7, <2>8, <2>9, <2>10,
       <2>11, <2>12, <2>13 DEF WorkerStep
<1>4. ASSUME NEW j \in JobId, AbandonJob(j) \/ ExpireJob(j)
      PROVE  StaleInv'
  BY <1>4 DEF AbandonJob, ExpireJob
<1>5. CASE \E a \in Args : ExpireEntry(a)
  BY <1>5 DEF ExpireEntry
<1>6. CASE ReadIndex \/ PruneIndex
  BY <1>6 DEF ReadIndex, PruneIndex, JobExists
<1>7. CASE Quiescent \/ UNCHANGED vars
  BY <1>7 DEF Quiescent
<1> QED
  BY <1>1, <1>2, <1>3, <1>4, <1>5, <1>6, <1>7 DEF Next

\* An id leaves the index of an asset only when its job is gone.
THEOREM IndexKeepsLiveJobs == Spec => PruneKeepsLiveJobs
<1>1. TypeInv /\ StaleInv /\ [Next]_vars =>
        [\A j \in indexed : j \notin indexed' => ~JobExists(j)]_vars
  <2> SUFFICES ASSUME TypeInv, StaleInv, Next,
                      NEW j \in indexed, j \notin indexed'
               PROVE  ~JobExists(j)
    BY SMTT(30) DEF vars
  <2>1. PruneIndex
    BY ZenonT(30) DEF Next, Trigger, ClientStep, LookUp, ReadEntry, CheckJob, FetchJob,
           RequeueJob, CreateJob, RejectRequest, EnqueueJob, IndexJob, StoreEntry,
           KillClient, WorkerStep, Dequeue, ComputeSchedule, SaveSchedule,
           RaiseException, SuccessCallback, FinishJob, FailureCallback,
           CreateFallback, RejectFallback, LinkFallback, EnqueueFallback, FailJob,
           KillWorker, AbandonJob, ExpireJob, ExpireEntry, ReadIndex, Quiescent,
           vars, redisVars, indexVars
  <2> QED
    BY <2>1 DEF PruneIndex, StaleInv, JobExists
<1> QED
  BY <1>1, Typing, QueueInit, QueueNext, StaleInit, StaleNext, PTL
     DEF Spec, PruneKeepsLiveJobs

-----------------------------------------------------------------------------
\* Callers like those of the API, none of which asks for failed jobs to be requeued.
NoRequeues == RequeueFlags \subseteq {FALSE}

\* No web process was asked to requeue, or is about to.
NeverRequeued ==
    \A c \in Clients :
        ~ client[c].requeue /\ client[c].pc # "requeue"

\* Initially nobody requeues.
LEMMA RequeueInit == Init => NeverRequeued
<1> SUFFICES ASSUME Init, NEW c \in Clients
             PROVE  ~ client[c].requeue /\ client[c].pc # "requeue"
  BY DEF NeverRequeued
<1>1. client[c] = IdleClient
  BY DEF Init
<1>2. IdleClient.requeue = FALSE /\ IdleClient.pc = "idle"
  BY Zenon DEF IdleClient
<1> QED
  BY <1>1, <1>2

\* A web process that was not asked to requeue does not.
LEMMA RequeueNext ==
  ASSUME NoRequeues, TypeInv, NeverRequeued, [Next]_vars
  PROVE  NeverRequeued'
<1> USE DEF TypeInv, TypeOK, NoRequeues, NeverRequeued, vars
<1>1. ASSUME NEW c \in Clients, NEW a \in Args, NEW f \in ForceFlags,
             NEW r \in RequeueFlags, Trigger(c, a, f, r)
      PROVE  NeverRequeued'
  BY <1>1 DEF Trigger, ClientState
<1>2. ASSUME NEW c \in Clients, ClientStep(c) \/ KillClient(c)
      PROVE  NeverRequeued'
  <2>1. ASSUME NEW l \in ClientPcs \ {"requeue"}, Goto(c, l)
        PROVE  NeverRequeued'
    BY <2>1 DEF Goto, ClientState
  <2>2. ASSUME Leave(c)
        PROVE  NeverRequeued'
    BY <2>2 DEF Leave, ClientState, IdleClient
  <2>3. CASE LookUp(c)
    BY <2>1, <2>3 DEF LookUp, ClientPcs
  <2>4. CASE ReadEntry(c)
    BY <2>2, <2>4 DEF ReadEntry, ClientState
  <2>5. CASE CheckJob(c)
    BY <2>1, <2>5 DEF CheckJob, ClientPcs
  <2>6. CASE FetchJob(c)
    BY <2>2, <2>6 DEF FetchJob
  <2>7. CASE CreateJob(c)
    BY <2>7 DEF CreateJob, ClientState
  <2>8. CASE EnqueueJob(c)
    BY <2>1, <2>8 DEF EnqueueJob, ClientPcs
  <2>9. CASE IndexJob(c)
    BY <2>1, <2>9 DEF IndexJob, ClientPcs
  <2>10. CASE RequeueJob(c) \/ RejectRequest(c) \/ StoreEntry(c) \/ KillClient(c)
    BY <2>2, <2>10 DEF RequeueJob, RejectRequest, StoreEntry, KillClient
  <2> QED
    BY <1>2, <2>3, <2>4, <2>5, <2>6, <2>7, <2>8, <2>9, <2>10 DEF ClientStep
<1>3. ASSUME UNCHANGED client PROVE NeverRequeued'
  BY <1>3
<1>4. ASSUME NEW w \in Workers, WorkerStep(w) \/ KillWorker(w)
      PROVE  NeverRequeued'
  BY <1>3, <1>4 DEF WorkerStep, Dequeue, ComputeSchedule, SaveSchedule,
         RaiseException, SuccessCallback, FinishJob, FailureCallback, CreateFallback,
         RejectFallback, LinkFallback, EnqueueFallback, FailJob, KillWorker
<1>5. CASE \E j \in JobId : AbandonJob(j) \/ ExpireJob(j)
  BY <1>3, <1>5 DEF AbandonJob, ExpireJob
<1>6. CASE (\E a \in Args : ExpireEntry(a)) \/ ReadIndex \/ PruneIndex
  BY <1>3, <1>6 DEF ExpireEntry, ReadIndex, PruneIndex
<1>7. CASE Quiescent \/ UNCHANGED vars
  BY <1>3, <1>7 DEF Quiescent
<1> QED
  BY <1>1, <1>2, <1>4, <1>5, <1>6, <1>7 DEF Next

\* The life of a job that is never requeued.
StatusMoves ==
    {<<"absent", "created">>, <<"created", "queued">>, <<"queued", "started">>,
     <<"started", "finished">>, <<"started", "failed">>, <<"queued", "gone">>,
     <<"finished", "gone">>, <<"failed", "gone">>}

\* One job moves on, and no fallback is linked or replaced.
OneMoves ==
    /\ UNCHANGED fallback
    /\ \E k \in JobId, s \in Statuses :
         /\ status' = [status EXCEPT ![k] = s]
         /\ <<status[k], s>> \in StatusMoves

\* A job that is being worked on gets a fallback.
OneLinked ==
    /\ UNCHANGED status
    /\ \E k, f \in JobId :
         /\ status[k] = "started" /\ status[f] = "created"
         /\ fallback' = [fallback EXCEPT ![k] = f]

\* What a step may do to the jobs' states and links.
LEMMA StepShape ==
  ASSUME TypeInv, QueueInv, NeverRequeued, [Next]_vars
  PROVE  UNCHANGED <<status, fallback>> \/ OneMoves \/ OneLinked
<1> USE DEF TypeInv, TypeOK, vars, redisVars, metaVars, StatusMoves, OneMoves, Statuses
<1>1. ASSUME NEW c \in Clients, ClientStep(c) \/ KillClient(c)
      PROVE  UNCHANGED <<status, fallback>> \/ OneMoves
  <2>1. CASE CreateJob(c)
    BY <2>1, FreshIdIsFresh DEF CreateJob
  <2>2. CASE EnqueueJob(c)
    BY <2>2 DEF EnqueueJob, Enqueue, QueueInv, FreshUnqueued, ClientControl
  <2> QED
    BY <1>1, <2>1, <2>2 DEF ClientStep, LookUp, ReadEntry, CheckJob, FetchJob,
       RequeueJob, NeverRequeued, RejectRequest, IndexJob, StoreEntry, KillClient
<1>2. ASSUME NEW w \in Workers, WorkerStep(w) \/ KillWorker(w)
      PROVE  UNCHANGED <<status, fallback>> \/ OneMoves \/ OneLinked
  <2> USE DEF QueueInv, RunningStarted, WorkerControl
  <2>1. CASE Dequeue(w)
    <3>1. queue # <<>> /\ UNCHANGED fallback
      BY <2>1 DEF Dequeue
    <3>2. Head(queue) \in JobId /\ status[Head(queue)] \in {"queued", "gone"}
      BY <3>1 DEF QueuedOnly
    <3> QED
      BY <2>1, <3>1, <3>2 DEF Dequeue, JobExists
  <2>2. CASE FinishJob(w) \/ FailJob(w)
    BY <2>2 DEF FinishJob, FailJob
  <2>3. CASE CreateFallback(w)
    BY <2>3, FreshIdIsFresh DEF CreateFallback
  <2>4. CASE LinkFallback(w)
    BY <2>4 DEF LinkFallback, OneLinked, FreshUnqueued
  <2>5. CASE EnqueueFallback(w)
    BY ZenonT(30), <2>5 DEF EnqueueFallback, Enqueue, FreshUnqueued
  <2> QED
    BY <1>2, <2>1, <2>2, <2>3, <2>4, <2>5 DEF WorkerStep, ComputeSchedule,
       SaveSchedule, RaiseException, SuccessCallback, FailureCallback,
       RejectFallback, KillWorker
<1>3. ASSUME NEW j \in JobId, AbandonJob(j) \/ ExpireJob(j)
      PROVE  OneMoves
  BY <1>3 DEF AbandonJob, ExpireJob
<1>4. ASSUME \/ \E c \in Clients, a \in Args, f \in ForceFlags, r \in RequeueFlags :
                   Trigger(c, a, f, r)
             \/ (\E a \in Args : ExpireEntry(a)) \/ ReadIndex \/ PruneIndex
             \/ Quiescent \/ UNCHANGED vars
      PROVE  UNCHANGED <<status, fallback>>
  BY <1>4 DEF Trigger, ExpireEntry, ReadIndex, PruneIndex, Quiescent
<1> QED
  BY <1>1, <1>2, <1>3, <1>4 DEF Next

-----------------------------------------------------------------------------
\* Only jobs that were worked on have a fallback, which is another job.
LinkInv ==
    \A j \in JobId : fallback[j] # None =>
        /\ status[j] \in {"started", "finished", "failed", "gone"}
        /\ status[fallback[j]] # "absent"
        /\ fallback[j] # j

\* Initially no job has a fallback.
LEMMA LinkInit == Init => LinkInv
BY DEF Init, LinkInv

\* Where one job moves on, all others stay where they are.
LEMMA OneMovesOn ==
  ASSUME TypeInv, OneMoves
  PROVE  /\ \A i \in JobId : status'[i] # status[i] =>
              <<status[i], status'[i]>> \in StatusMoves
         /\ \A i, j \in JobId :
              status'[i] # status[i] /\ status'[j] # status[j] => i = j
BY DEF OneMoves, TypeInv, TypeOK

\* Jobs only move on, and LinkFallback links a job that was created.
LEMMA LinkNext ==
  ASSUME TypeInv, QueueInv, NeverRequeued, LinkInv, [Next]_vars
  PROVE  LinkInv'
<1> USE DEF TypeInv, TypeOK, LinkInv
<1>1. CASE UNCHANGED <<status, fallback>>
  BY <1>1
<1>2. CASE OneMoves
  <2>1. ASSUME NEW i \in JobId
        PROVE  /\ status[i] \in {"started", "finished", "failed", "gone"} =>
                    status'[i] \in {"started", "finished", "failed", "gone"}
               /\ status[i] # "absent" => status'[i] # "absent"
    BY <1>2, OneMovesOn DEF StatusMoves
  <2> QED
    BY <1>2, <2>1 DEF OneMoves
<1>3. CASE OneLinked
  BY <1>3 DEF OneLinked
<1> QED
  BY <1>1, <1>2, <1>3, StepShape

-----------------------------------------------------------------------------
\* What original_job_id says, of jobs that are only being set up, too.
OriginalsLead ==
    \A f \in JobId : original[f] # None =>
        /\ status[original[f]] # "absent"
        /\ original[original[f]] = None

\* A worker links a job once, to the fallback it created for it.
LinkedOnce ==
    \A w \in Workers :
        /\ worker[w].pc \notin {"idle", "enqueue", "fail"} =>
             fallback[worker[w].job] = None
        /\ worker[w].pc \in {"link", "enqueue"} =>
             /\ sched[worker[w].new] = FallbackClass[sched[worker[w].job]]
             /\ original[worker[w].new] = OriginalOf(worker[w].job)
        /\ worker[w].pc = "enqueue" => fallback[worker[w].job] = worker[w].new

\* FallbackChain, made inductive.
ChainInv == FallbackChain /\ OriginalsLead /\ LinkedOnce

\* Initially there are no fallback jobs.
LEMMA ChainInit == Init => ChainInv
BY DEF Init, ChainInv, FallbackChain, OriginalsLead, LinkedOnce, IdleWorker

\* What a job was created with never changes.
Settled ==
    \A j \in JobId : status[j] # "absent" =>
        sched'[j] = sched[j] /\ original'[j] = original[j]

\* The chain holds on where no job starts to count and no link is replaced.
LEMMA ChainKept ==
  ASSUME TypeInv, LinkInv, FallbackChain, OriginalsLead, Settled,
         \A f \in JobId :
             status'[f] \notin {"absent", "created", "gone"} /\ original'[f] # None
                 => status[f] \notin {"absent", "created", "gone"},
         \A j \in JobId : fallback[j] # None => fallback'[j] = fallback[j]
  PROVE  FallbackChain'
<1> SUFFICES ASSUME NEW f \in JobId, original'[f] # None,
                    status'[f] \notin {"absent", "created", "gone"}
             PROVE  \E j \in JobId :
                      /\ fallback'[j] = f
                      /\ sched'[f] = FallbackClass[sched'[j]]
                      /\ original'[f] = j \/ original'[f] = original'[j]
                      /\ original'[original'[f]] = None
  BY DEF FallbackChain
<1> USE DEF TypeInv, TypeOK
<1>1. status[f] \notin {"absent", "created", "gone"}
  OBVIOUS
<1>2. original'[f] = original[f] /\ sched'[f] = sched[f]
  BY <1>1 DEF Settled
<1>3. PICK j \in JobId : /\ fallback[j] = f
                         /\ sched[f] = FallbackClass[sched[j]]
                         /\ original[f] = j \/ original[f] = original[j]
                         /\ original[original[f]] = None
  BY <1>1, <1>2 DEF FallbackChain
<1>4. f # None
  BY SchedulingAssumption
<1>5. sched'[j] = sched[j] /\ original'[j] = original[j] /\ fallback'[j] = f
  BY <1>3, <1>4 DEF Settled, LinkInv
<1>6. original[f] \in JobId /\ original'[original[f]] = None
  BY <1>2, <1>3 DEF Settled, OriginalsLead
<1> QED
  BY <1>2, <1>3, <1>5, <1>6

\* So do the originals, as long as jobs only come to be or move on.
LEMMA LeadKept ==
  ASSUME TypeInv, OriginalsLead, Settled,
         \A j \in JobId : status[j] # "absent" => status'[j] # "absent",
         original' \in [JobId -> JobId \cup {None}],
         \A f \in JobId : status[f] = "absent" /\ original'[f] # None =>
             /\ original'[f] \in JobId /\ status[original'[f]] # "absent"
             /\ original[original'[f]] = None
  PROVE  OriginalsLead'
<1> SUFFICES ASSUME NEW f \in JobId, original'[f] # None
             PROVE  status'[original'[f]] # "absent" /\ original'[original'[f]] = None
  BY DEF OriginalsLead
<1> USE DEF TypeInv, TypeOK
<1>1. /\ original'[f] \in JobId /\ status[original'[f]] # "absent"
      /\ original[original'[f]] = None
  BY DEF Settled, OriginalsLead
<1> QED
  BY <1>1 DEF Settled

\* And what workers know of the jobs they hold.
LEMMA LinkedKept ==
  ASSUME TypeInv, LinkedOnce, Settled, UNCHANGED fallback,
         \A w \in Workers :
             \/ worker'[w].pc \in {"idle", "fail"}
             \/ /\ worker[w].pc \notin {"idle", "enqueue", "fail"}
                /\ worker'[w].pc \notin {"idle", "link", "enqueue"}
                /\ worker'[w].job = worker[w].job
             \/ worker'[w] = worker[w]
  PROVE  LinkedOnce'
<1> SUFFICES ASSUME NEW w \in Workers
             PROVE  /\ worker'[w].pc \notin {"idle", "enqueue", "fail"} =>
                         fallback'[worker'[w].job] = None
                    /\ worker'[w].pc \in {"link", "enqueue"} =>
                         /\ sched'[worker'[w].new] = FallbackClass[sched'[worker'[w].job]]
                         /\ original'[worker'[w].new] = OriginalOf(worker[w].job)'
                    /\ worker'[w].pc = "enqueue" =>
                         fallback'[worker'[w].job] = worker'[w].new
  BY DEF LinkedOnce
<1> USE DEF TypeInv, TypeOK, LinkedOnce, WorkerControl, Settled
<1>1. CASE worker'[w].pc \in {"idle", "fail"}
  BY <1>1
<1>2. CASE /\ worker[w].pc \notin {"idle", "enqueue", "fail"}
           /\ worker'[w].pc \notin {"idle", "link", "enqueue"}
           /\ worker'[w].job = worker[w].job
  BY <1>2
<1>3. CASE worker'[w] = worker[w]
  BY <1>3 DEF OriginalOf
<1> QED
  BY <1>1, <1>2, <1>3

\* Every step of trigger_optional_fallback, and of anyone else, keeps the chain.
LEMMA ChainNext ==
  ASSUME TypeInv, QueueInv, CacheInv, NeverRequeued, LinkInv, ChainInv, [Next]_vars
  PROVE  ChainInv'
<1> USE DEF TypeInv, TypeOK, ChainInv, vars, redisVars, metaVars, newVars
<1>1. ASSUME UNCHANGED <<status, newVars, fallback, worker>>
      PROVE  ChainInv'
  BY <1>1 DEF FallbackChain, OriginalsLead, LinkedOnce, OriginalOf
<1>2. ASSUME NEW c \in Clients, ClientStep(c) \/ KillClient(c)
      PROVE  ChainInv'
  <2>1. CASE CreateJob(c)
    <3>1. PICK j \in JobId :
            /\ status[j] = "absent"
            /\ status' = [status EXCEPT ![j] = "created"]
            /\ sched' = [sched EXCEPT ![j] = SchedulerFor[client[c].arg]]
            /\ UNCHANGED <<original, fallback, worker>>
      BY <2>1, FreshIdIsFresh DEF CreateJob
    <3>2. Settled
      BY <3>1 DEF Settled
    <3>3. original[j] = None
      BY <3>1 DEF CacheInv
    <3>4. FallbackChain'
      BY <3>1, <3>2, ChainKept
    <3>5. OriginalsLead'
      BY <3>1, <3>2, <3>3, LeadKept DEF CacheInv
    <3>6. LinkedOnce'
      BY <3>1, <3>2, LinkedKept
    <3> QED
      BY <3>4, <3>5, <3>6
  <2>2. CASE EnqueueJob(c)
    <3>1. PICK j \in JobId :
            /\ status[j] = "created" /\ original[j] = None
            /\ status' = [status EXCEPT ![j] = "queued"]
            /\ UNCHANGED <<sched, original, fallback, worker>>
      BY <2>2 DEF EnqueueJob, Enqueue, ClientControl, QueueInv, FreshUnqueued, CacheInv
    <3>2. Settled
      BY <3>1 DEF Settled
    <3>4. FallbackChain'
      BY <3>1, <3>2, ChainKept
    <3>5. OriginalsLead'
      BY <3>1, <3>2, LeadKept DEF CacheInv
    <3>6. LinkedOnce'
      BY <3>1, <3>2, LinkedKept
    <3> QED
      BY <3>4, <3>5, <3>6
  <2> QED
    BY <1>1, <1>2, <2>1, <2>2 DEF ClientStep, LookUp, ReadEntry, CheckJob, FetchJob,
       RequeueJob, NeverRequeued, RejectRequest, IndexJob, StoreEntry, KillClient
<1>3. ASSUME UNCHANGED <<newVars, fallback>>,
             \A j \in JobId :
                 \/ status'[j] = status[j]
                 \/ <<status[j], status'[j]>> \in
                        {<<"queued", "started">>, <<"started", "finished">>,
                         <<"started", "failed">>, <<"queued", "gone">>,
                         <<"finished", "gone">>, <<"failed", "gone">>},
             \A w \in Workers :
                 \/ worker'[w].pc \in {"idle", "fail"}
                 \/ /\ worker[w].pc \notin {"idle", "enqueue", "fail"}
                    /\ worker'[w].pc \notin {"idle", "link", "enqueue"}
                    /\ worker'[w].job = worker[w].job
                 \/ worker'[w] = worker[w]
      PROVE  ChainInv'
  <2>1. Settled
    BY <1>3 DEF Settled
  <2>2. FallbackChain'
    BY <1>3, <2>1, ChainKept
  <2>3. OriginalsLead'
    BY <1>3, <2>1, LeadKept DEF CacheInv
  <2>4. LinkedOnce'
    BY <1>3, <2>1, LinkedKept
  <2> QED
    BY <2>2, <2>3, <2>4
<1>4. ASSUME NEW w \in Workers, WorkerStep(w) \/ KillWorker(w)
      PROVE  ChainInv'
  <2> USE DEF WorkerControl, QueueInv, RunningStarted, WorkerState
  <2>1. CASE Dequeue(w)
    <3>1. queue # <<>> /\ Head(queue) \in JobId /\ status[Head(queue)] \in {"queued", "gone"}
      BY <2>1 DEF Dequeue, QueuedOnly
    <3>2. CASE ~ JobExists(Head(queue))
      BY <1>1, <2>1, <3>2 DEF Dequeue
    <3>3. CASE JobExists(Head(queue))
      <4>1. /\ status[Head(queue)] = "queued"
            /\ status' = [status EXCEPT ![Head(queue)] = "started"]
            /\ UNCHANGED <<newVars, fallback>>
        BY <2>1, <3>1, <3>3 DEF Dequeue, JobExists
      <4>2. /\ \A v \in Workers \ {w} : worker'[v] = worker[v]
            /\ worker'[w].pc = "compute" /\ worker'[w].job = Head(queue)
        <5>1. worker' = [worker EXCEPT ![w] =
                  [IdleWorker EXCEPT !.pc = "compute", !.job = Head(queue)]]
          BY <2>1, <3>3 DEF Dequeue
        <5>2. worker'[w] =
                  [IdleWorker EXCEPT !.pc = "compute", !.job = Head(queue)]
          BY <5>1
        <5>3. \A v \in Workers \ {w} : worker'[v] = worker[v]
          BY <5>1
        <5> QED
          BY <5>2, <5>3 DEF IdleWorker
      <4>3. Settled
        BY <4>1 DEF Settled
      <4>4. FallbackChain'
        BY <4>1, <4>3, ChainKept
      <4>5. OriginalsLead'
        BY <4>1, <4>3, LeadKept DEF CacheInv
      <4>6. fallback[Head(queue)] = None
        BY <3>1, <4>1 DEF LinkInv
      <4>7. LinkedOnce'
        BY <3>1, <4>1, <4>2, <4>6 DEF LinkedOnce, OriginalOf
      <4> QED
        BY <4>4, <4>5, <4>7
    <3> QED
      BY <3>2, <3>3
  <2>2. CASE \/ ComputeSchedule(w) \/ SaveSchedule(w) \/ SuccessCallback(w)
             \/ (\E exc \in {"infeasible", "other"} : RaiseException(w, exc))
             \/ FailureCallback(w) \/ RejectFallback(w)
    <3>1. /\ UNCHANGED <<status, newVars, fallback>>
          /\ \A v \in Workers \ {w} : worker'[v] = worker[v]
          /\ worker[w].pc \in {"compute", "save", "callback", "except", "fallback"}
          /\ worker'[w].pc \in {"save", "callback", "finish", "except", "fallback", "fail"}
          /\ worker'[w].job = worker[w].job
      BY <2>2 DEF ComputeSchedule, SaveSchedule, SuccessCallback, RaiseException,
         FailureCallback, RejectFallback, Move
    <3> QED
      BY <1>3, <3>1
  <2>3. CASE FinishJob(w) \/ FailJob(w) \/ KillWorker(w)
    <3>1. /\ UNCHANGED <<newVars, fallback>>
          /\ \A v \in Workers \ {w} : worker'[v] = worker[v]
          /\ worker'[w].pc = "idle"
      BY <2>3 DEF FinishJob, FailJob, KillWorker, Rest, IdleWorker
    <3>2. \A j \in JobId :
            \/ status'[j] = status[j]
            \/ status[j] = "started" /\ status'[j] \in {"finished", "failed"}
      BY <2>3 DEF FinishJob, FailJob, KillWorker
    <3> QED
      BY <1>3, <3>1, <3>2
  <2>4. CASE CreateFallback(w)
    <3> DEFINE j == worker[w].job
    <3>1. PICK f \in JobId :
            /\ status[f] = "absent"
            /\ status' = [status EXCEPT ![f] = "created"]
            /\ sched' = [sched EXCEPT ![f] = FallbackClass[sched[j]]]
            /\ original' = [original EXCEPT ![f] = OriginalOf(j)]
            /\ worker' = [worker EXCEPT ![w].pc = "link", ![w].new = f]
            /\ UNCHANGED fallback
      BY <2>4, FreshIdIsFresh DEF CreateFallback
    <3>2. worker[w].pc = "fallback" /\ j \in JobId /\ status[j] # "absent" /\ j # f
      BY <2>4, <3>1 DEF CreateFallback
    <3>3. Settled
      BY <3>1 DEF Settled
    <3>4. /\ OriginalOf(j) \in JobId /\ status[OriginalOf(j)] # "absent"
          /\ original[OriginalOf(j)] = None
      BY <3>2 DEF OriginalOf, OriginalsLead
    <3>5. FallbackChain'
      BY <3>1, <3>3, ChainKept
    <3>6. OriginalsLead'
      BY <3>1, <3>3, <3>4, LeadKept DEF CacheInv
    <3>7. /\ \A v \in Workers \ {w} : worker'[v] = worker[v]
          /\ worker'[w].pc = "link" /\ worker'[w].job = j /\ worker'[w].new = f
      BY <3>1
    <3>8. /\ sched'[f] = FallbackClass[sched'[j]]
          /\ original'[f] = OriginalOf(j)'
      BY <3>1, <3>2, <3>7 DEF OriginalOf
    <3>9. LinkedOnce'
      <4> SUFFICES ASSUME NEW v \in Workers, v # w
                   PROVE  /\ worker[v].pc \notin {"idle", "enqueue", "fail"} =>
                               fallback[worker[v].job] = None
                          /\ worker[v].pc \in {"link", "enqueue"} =>
                               /\ sched'[worker[v].new] = FallbackClass[sched'[worker[v].job]]
                               /\ original'[worker[v].new] = OriginalOf(worker[v].job)'
                          /\ worker[v].pc = "enqueue" =>
                               fallback[worker[v].job] = worker[v].new
        <5>1. fallback[j] = None /\ UNCHANGED fallback
          BY <3>1, <3>2 DEF LinkedOnce
        <5> QED
          BY <3>7, <3>8, <5>1 DEF LinkedOnce
      <4>1. CASE worker[v].pc \in {"link", "enqueue"}
        <5>1. /\ worker[v].job \in JobId /\ status[worker[v].job] # "absent"
              /\ worker[v].new \in JobId /\ status[worker[v].new] # "absent"
          BY <4>1
        <5>2. /\ sched'[worker[v].new] = FallbackClass[sched'[worker[v].job]]
              /\ original'[worker[v].new] = OriginalOf(worker[v].job)'
          BY <3>3, <3>7, <4>1, <5>1 DEF Settled, LinkedOnce, OriginalOf
        <5> QED
          BY <5>2 DEF LinkedOnce
      <4>2. CASE worker[v].pc \notin {"link", "enqueue"}
        BY <4>2 DEF LinkedOnce
      <4> QED
        BY <4>1, <4>2
    <3> QED
      BY <3>5, <3>6, <3>9
  <2>5. CASE LinkFallback(w)
    <3> DEFINE j == worker[w].job
               f == worker[w].new
    <3>1. /\ worker[w].pc = "link" /\ j \in JobId /\ f \in JobId
          /\ fallback' = [fallback EXCEPT ![j] = f]
          /\ worker' = [worker EXCEPT ![w].pc = "enqueue"]
          /\ UNCHANGED <<status, sched, original>>
      BY <2>5 DEF LinkFallback, Move
    <3>2. fallback[j] = None
      BY <3>1 DEF LinkedOnce
    <3>3. Settled
      BY <3>1 DEF Settled
    <3>4. FallbackChain'
      BY <3>1, <3>2, <3>3, ChainKept
    <3>5. OriginalsLead'
      BY <3>1 DEF OriginalsLead
    <3>6. \A v \in Workers \ {w} : worker[v].pc # "idle" => worker[v].job # j
      BY <3>1, SchedulingAssumption DEF RunOnce
    <3>7. LinkedOnce'
      BY <3>1, <3>6 DEF LinkedOnce, OriginalOf
    <3> QED
      BY <3>4, <3>5, <3>7
  <2>6. CASE EnqueueFallback(w)
    <3> DEFINE j == worker[w].job
               f == worker[w].new
    <3>1. /\ worker[w].pc = "enqueue" /\ j \in JobId /\ f \in JobId
          /\ status[f] = "created"
          /\ status' = [status EXCEPT ![f] = "queued"]
          /\ worker' = [worker EXCEPT ![w].pc = "fail"]
          /\ UNCHANGED <<sched, original, fallback>>
      BY <2>6 DEF EnqueueFallback, Enqueue, Move, FreshUnqueued
    <3>2. Settled
      BY <3>1 DEF Settled
    <3>3. /\ fallback[j] = f /\ sched[f] = FallbackClass[sched[j]]
          /\ original[f] = OriginalOf(j)
      BY <3>1 DEF LinkedOnce
    <3>4. FallbackChain'
      BY <3>1, <3>3 DEF FallbackChain, OriginalsLead, OriginalOf
    <3>5. OriginalsLead'
      BY <3>1, <3>2, LeadKept DEF CacheInv
    <3>6. LinkedOnce'
      BY <3>1, <3>2, LinkedKept
    <3> QED
      BY <3>4, <3>5, <3>6
  <2> QED
    BY <1>4, <2>1, <2>2, <2>3, <2>4, <2>5, <2>6 DEF WorkerStep
<1>5. ASSUME NEW j \in JobId, AbandonJob(j) \/ ExpireJob(j)
      PROVE  ChainInv'
  <2>1. /\ UNCHANGED <<newVars, fallback, worker>>
        /\ \A i \in JobId :
             \/ status'[i] = status[i]
             \/ status[i] = "started" /\ status'[i] = "failed"
             \/ status[i] \in {"queued", "finished", "failed"} /\ status'[i] = "gone"
    BY <1>5 DEF AbandonJob, ExpireJob
  <2> QED
    BY <1>3, <2>1
<1>6. ASSUME \/ \E c \in Clients, a \in Args, f \in ForceFlags, r \in RequeueFlags :
                   Trigger(c, a, f, r)
             \/ (\E a \in Args : ExpireEntry(a)) \/ ReadIndex \/ PruneIndex
             \/ Quiescent \/ UNCHANGED vars
      PROVE  ChainInv'
  BY <1>1, <1>6 DEF Trigger, ExpireEntry, ReadIndex, PruneIndex, Quiescent
<1> QED
  BY <1>2, <1>4, <1>5, <1>6 DEF Next

\* For callers that never requeue, a fallback job that can run is the one its
\* failed predecessor links to, runs the predecessor's fallback class, and names
\* the job at the head of the chain: for any number of processes and fallback
\* levels, also when workers die inside trigger_optional_fallback.
THEOREM FallbacksAreChained ==
  ASSUME NoRequeues
  PROVE  Spec => []FallbackChain
<1>1. TypeInv /\ NeverRequeued /\ [Next]_vars => NeverRequeued'
  BY RequeueNext, NoRequeues
<1>2. ChainInv => FallbackChain
  BY DEF ChainInv
<1> QED
  BY <1>1, <1>2, Typing, QueueInit, QueueNext, CacheInit, CacheNext, RequeueInit,
     LinkInit, LinkNext, ChainInit, ChainNext, PTL DEF Spec

-----------------------------------------------------------------------------
(* The answers of polls.                                                   *)

\* The states of a poll.
PollPcs == {"idle", "fetch", "follow", "fallback", "finished", "redirect",
            "failed", "report"}

PollState == [pc : PollPcs, id : JobId \cup {None}, job : JobId \cup {None},
              seen : Statuses \cup {None}, link : JobId \cup {None},
              source : BOOLEAN, told : AnswersOf!Answers]

\* A job that ended in state s, and may be forgotten since.
Ended(j, s) == status[j] \in {s, "gone"}

\* What the jobs a poll for i looks at must be like once it was answered so.
Holds(i, told) ==
    LET f == fallback[i] IN
    CASE told = "processed" ->
            \/ Ended(i, "finished")
            \/ ~FallbackRedirect /\ Ended(i, "failed") /\ f # None /\ Ended(f, "finished")
      [] told = "unknown" ->
            /\ Ended(i, "failed")
            /\ \/ f = None
               \/ ~FallbackRedirect /\ Ended(f, "failed") /\ fallback[f] = None
      [] told = "redirect" ->
            /\ Ended(i, "failed") /\ f # None
            /\ ~FallbackRedirect => Ended(f, "failed") /\ fallback[f] # None
      [] told = "unrecognized" ->
            \/ status[i] = "gone"
            \/ ~FallbackRedirect /\ Ended(i, "failed") /\ f # None /\ status[f] = "gone"
      [] OTHER -> TRUE

\* And a fallback job t that the poll has got to since.
HoldsOf(t, told) ==
    /\ told = "processed" => Ended(t, "finished")
    /\ told = "unknown" => Ended(t, "failed") /\ fallback[t] = None
    /\ told = "redirect" => Ended(t, "failed") /\ fallback[t] # None
    /\ told = "unrecognized" => status[t] = "gone"

\* Answers that a later poll may revise.
Revisable == {"none", "pending", "premature"}

\* What a poll q read of its job still holds, as far as it was settled by then.
Reading(q) ==
    /\ q.job \in JobId /\ status[q.job] # "absent"
    /\ q.link # None => fallback[q.job] = q.link
    /\ q.seen = "failed" => Ended(q.job, "failed") /\ q.link = fallback[q.job]
    /\ q.seen = "finished" => Ended(q.job, "finished")
    /\ q.told \notin Revisable => q.seen \in {"finished", "failed"}

\* Before a poll goes to the fallback job, and once it decided to.
Original(q) ==
    /\ ~FallbackRedirect /\ q.job = q.id
    /\ q.pc = "fallback" =>
         /\ q.link # None /\ Ended(q.id, "failed")
         /\ HoldsOf(q.link, q.told)

\* Which job it is that a poll reports, and what it has asked already.
Reports(q) ==
    /\ \/ /\ q.job = q.id
          /\ (~FallbackRedirect /\ q.seen = "failed" /\ q.link # None)
               => status[q.id] = "gone"
       \/ /\ ~FallbackRedirect /\ q.told # "unrecognized"
          /\ q.job # q.id /\ q.job = fallback[q.id]
          /\ Ended(q.id, "failed")
          /\ HoldsOf(q.job, q.told)
    /\ q.pc # "finished" /\ q.seen = "finished" => status[q.job] = "gone"
    /\ q.pc \in {"failed", "report"} /\ q.seen = "failed"
         => q.link = None \/ status[q.job] = "gone"
    /\ q.pc = "report" /\ q.seen = "failed" => status[q.job] = "gone"

\* The invariant of a poll.
Sound(q) ==
    /\ q.id = None => q.pc = "idle" /\ q.told = "none"
    /\ q.id # None => status[q.id] # "absent" /\ Holds(q.id, q.told)
    /\ q.pc \notin {"idle", "fetch"} => Reading(q)
    /\ q.pc \in {"follow", "fallback"} => Original(q)
    /\ q.pc \in {"finished", "redirect", "failed", "report"} => Reports(q)

PollInv == poll \in [Pollers -> PollState] /\ \A p \in Pollers : Sound(poll[p])

\* All that is proved of the jobs when nobody requeues.
JobsInv == TypeInv /\ QueueInv /\ CacheInv /\ NeverRequeued /\ LinkInv /\ ChainInv

\* A link, once made, is not replaced.
LEMMA LinkedForGood ==
  ASSUME TypeInv, LinkedOnce, [Next]_vars
  PROVE  \A j \in JobId : fallback[j] # None => fallback'[j] = fallback[j]
<1> USE DEF TypeInv, TypeOK
<1>1. ASSUME NEW w \in Workers, LinkFallback(w)
      PROVE  \A j \in JobId : fallback[j] # None => fallback'[j] = fallback[j]
  BY SMTT(30), <1>1 DEF LinkFallback, LinkedOnce
<1>2. CASE UNCHANGED fallback
  BY <1>2
<1>3. (\E w \in Workers : LinkFallback(w)) \/ UNCHANGED fallback
  BY ZenonT(30) DEF Next, Trigger, ClientStep, LookUp, ReadEntry, CheckJob, FetchJob,
         RequeueJob, CreateJob, RejectRequest, EnqueueJob, IndexJob, StoreEntry,
         KillClient, WorkerStep, Dequeue, ComputeSchedule, SaveSchedule,
         RaiseException, SuccessCallback, FinishJob, FailureCallback,
         CreateFallback, RejectFallback, EnqueueFallback, FailJob,
         KillWorker, AbandonJob, ExpireJob, ExpireEntry, ReadIndex, PruneIndex,
         Quiescent, vars, redisVars, metaVars
<1> QED
  BY <1>1, <1>2, <1>3

\* What a job has come to is kept, or forgotten with the job.
LEMMA JobsMoveOn ==
  ASSUME JobsInv, [Next]_vars, NEW j \in JobId
  PROVE  /\ status[j] # "absent" => status'[j] # "absent"
         /\ Ended(j, "finished") => Ended(j, "finished")'
         /\ Ended(j, "failed") => Ended(j, "failed")'
         /\ status[j] = "gone" => status'[j] = "gone"
         /\ status[j] \in {"finished", "failed", "gone"} => fallback'[j] = fallback[j]
         /\ fallback[j] # None => fallback'[j] = fallback[j]
<1> USE DEF JobsInv, TypeInv, TypeOK
<1>1. fallback[j] # None => fallback'[j] = fallback[j]
  BY LinkedForGood DEF ChainInv
<1>2. CASE UNCHANGED <<status, fallback>>
  BY <1>2 DEF Ended
<1>3. CASE OneMoves
  BY <1>3, OneMovesOn DEF StatusMoves, Ended, OneMoves
<1>4. CASE OneLinked
  BY <1>1, <1>4 DEF OneLinked, Ended
<1> QED
  BY <1>1, <1>2, <1>3, <1>4, StepShape

\* So what answers promise of the jobs holds on.
LEMMA HoldsOn ==
  ASSUME JobsInv, [Next]_vars, NEW i \in JobId, status[i] # "absent", NEW told
  PROVE  /\ Holds(i, told) => Holds(i, told)'
         /\ HoldsOf(i, told) => HoldsOf(i, told)'
<1>1. fallback[i] # None => fallback[i] \in JobId
  BY DEF JobsInv, TypeInv, TypeOK
<1>2. /\ Ended(i, "finished") => Ended(i, "finished")'
      /\ Ended(i, "failed") => Ended(i, "failed")'
      /\ status[i] = "gone" => status'[i] = "gone"
      /\ Ended(i, "failed") => fallback'[i] = fallback[i]
      /\ fallback[i] # None => fallback'[i] = fallback[i]
  BY JobsMoveOn DEF Ended
<1>3. fallback[i] # None =>
        LET f == fallback[i] IN
        /\ Ended(f, "finished") => Ended(f, "finished")'
        /\ Ended(f, "failed") => Ended(f, "failed")'
        /\ status[f] = "gone" => status'[f] = "gone"
        /\ Ended(f, "failed") => fallback'[f] = fallback[f]
  BY <1>1, JobsMoveOn DEF Ended
<1>4. HoldsOf(i, told) => HoldsOf(i, told)'
  BY <1>2 DEF HoldsOf, Ended
<1>5. Holds(i, told) => Holds(i, told)'
  <2>1. CASE fallback[i] = None
    BY <1>2, <2>1 DEF Holds, Ended
  <2>2. CASE fallback[i] # None
    BY <1>2, <1>3, <2>2 DEF Holds, Ended
  <2> QED
    BY <2>1, <2>2
<1> QED
  BY <1>4, <1>5

\* The jobs move on under a poll.
LEMMA SoundKept ==
  ASSUME JobsInv, [Next]_vars, NEW q \in PollState, Sound(q)
  PROVE  Sound(q)'
<1> USE DEF PollState
<1>1. ASSUME q.id # None
      PROVE  /\ status'[q.id] # "absent" /\ Holds(q.id, q.told)'
             /\ Ended(q.id, "failed") => Ended(q.id, "failed")'
             /\ status[q.id] = "gone" => status'[q.id] = "gone"
             /\ Ended(q.id, "failed") => fallback'[q.id] = fallback[q.id]
             /\ HoldsOf(q.id, q.told) => HoldsOf(q.id, q.told)'
  BY <1>1, JobsMoveOn, HoldsOn DEF Sound, Ended
<1>2. ASSUME q.pc \notin {"idle", "fetch"}
      PROVE  /\ Reading(q)' /\ q.job \in JobId
             /\ status[q.job] = "gone" => status'[q.job] = "gone"
             /\ HoldsOf(q.job, q.told) => HoldsOf(q.job, q.told)'
  <2>1. Reading(q)
    BY <1>2 DEF Sound
  <2> QED
    BY <2>1, JobsMoveOn, HoldsOn DEF Reading, Ended
<1>3. ASSUME q.pc \in {"follow", "fallback"} PROVE Original(q)'
  <2>1. Original(q) /\ q.id # None
    BY <1>3 DEF Sound
  <2>2. CASE q.pc = "fallback"
    <3>1. q.link \in JobId /\ fallback[q.id] = q.link /\ status[q.link] # "absent"
      BY <1>2, <2>1, <2>2 DEF Original, Sound, Reading, JobsInv, LinkInv
    <3>2. HoldsOf(q.link, q.told)'
      BY <2>1, <2>2, <3>1, HoldsOn DEF Original
    <3> QED
      BY <1>1, <2>1, <2>2, <3>2 DEF Original
  <2>3. CASE q.pc # "fallback"
    BY <2>1, <2>3 DEF Original
  <2> QED
    BY <2>2, <2>3
<1>4. ASSUME q.pc \in {"finished", "redirect", "failed", "report"} PROVE Reports(q)'
  <2>1. Reports(q) /\ q.id # None
    BY <1>4 DEF Sound
  <2> QED
    BY <1>1, <1>2, <1>4, <2>1 DEF Reports
<1> QED
  BY <1>1, <1>2, <1>3, <1>4 DEF Sound

\* What is sound stays so while only polls move on.
LEMMA OnePollMoves ==
  ASSUME PollInv, NEW p \in Pollers, NEW s \in PollState,
         poll' = [poll EXCEPT ![p] = s], UNCHANGED vars, Sound(s)
  PROVE  PollInv'
<1>1. poll' \in [Pollers -> PollState]
  BY DEF PollInv
<1>2. /\ status' = status /\ fallback' = fallback
      /\ \A j, k : Ended(j, k)' <=> Ended(j, k)
  BY DEF vars, redisVars, metaVars, Ended
<1>3. ASSUME NEW q PROVE Sound(q)' <=> Sound(q)
  <2>1. \A i, told : /\ HoldsOf(i, told)' <=> HoldsOf(i, told)
                     /\ Holds(i, told)' <=> Holds(i, told)
    BY <1>2 DEF HoldsOf, Holds, Ended
  <2>2. Reading(q)' <=> Reading(q)
    BY <1>2 DEF Reading, Ended
  <2>3. Original(q)' <=> Original(q)
    BY <1>2, <2>1 DEF Original, Ended
  <2>4. Reports(q)' <=> Reports(q)
    BY <1>2, <2>1 DEF Reports, Ended
  <2> QED
    BY <1>2, <2>1, <2>2, <2>3, <2>4 DEF Sound
<1>4. ASSUME NEW r \in Pollers PROVE Sound(poll[r])'
  <2>1. PICK q : q = poll'[r]
    OBVIOUS
  <2>2. Sound(q)
    BY <2>1 DEF PollInv
  <2>3. Sound(q)'
    BY <1>3, <2>2
  <2> QED
    BY <2>1, <2>3
<1> QED
  BY <1>1, <1>4 DEF PollInv

\* A poll that ends leaves nothing but its answer.
LEMMA EndSound ==
  ASSUME PollInv, NEW p \in Pollers, NEW a \in AnswersOf!Answers, End(p, a),
         UNCHANGED vars, poll[p].id # None, Holds(poll[p].id, a),
         a = poll[p].told \/ <<poll[p].told, a>> \in AnswersOf!Moves
  PROVE  PollInv' /\ [AnswersOf!Next]_([r \in Pollers |-> poll[r].told])
<1> DEFINE s == [NoPoll EXCEPT !.id = poll[p].id, !.told = a]
<1>1. /\ poll' = [poll EXCEPT ![p] = s]
      /\ s \in PollState /\ s.pc = "idle" /\ s.id = poll[p].id /\ s.told = a
  BY DEF End, NoPoll, PollInv, PollState, PollPcs
<1>2. Sound(s)
  BY <1>1 DEF Sound, PollInv
<1>3. PollInv'
  BY <1>1, <1>2, OnePollMoves
<1>4. CASE a = poll[p].told
  <2>1. \A r \in Pollers : poll'[r].told = poll[r].told
    BY <1>1, <1>4 DEF PollInv
  <2> QED
    BY <1>3, <2>1
<1>5. CASE <<poll[p].told, a>> \in AnswersOf!Moves
  <2> DEFINE told == [r \in Pollers |-> poll[r].told]
  <2>1. told' = [told EXCEPT ![p] = a]
    BY <1>1 DEF PollInv
  <2>2. <<told[p], a>> \in AnswersOf!Moves
    BY <1>5
  <2>3. \E r \in Pollers, b \in AnswersOf!Answers :
          <<told[r], b>> \in AnswersOf!Moves /\ told' = [told EXCEPT ![r] = b]
    BY <2>1, <2>2
  <2> QED
    BY <1>3, <2>3 DEF AnswersOf!Next
<1> QED
  BY <1>3, <1>4, <1>5

\* A poll that goes on keeps its last answer.
LEMMA GoOnSound ==
  ASSUME PollInv, NEW p \in Pollers, NEW s \in PollState,
         poll' = [poll EXCEPT ![p] = s], UNCHANGED vars, s.told = poll[p].told, Sound(s)
  PROVE  PollInv' /\ UNCHANGED [r \in Pollers |-> poll[r].told]
<1>1. PollInv'
  BY OnePollMoves
<1>2. UNCHANGED [r \in Pollers |-> poll[r].told]
  BY DEF PollInv
<1> QED
  BY <1>1, <1>2

\* Every trip of a poll, and what it answers.
LEMMA PollStepSound ==
  ASSUME JobsInv, PollInv, NEW p \in Pollers, PollStep(p), UNCHANGED vars
  PROVE  PollInv' /\ [AnswersOf!Next]_([r \in Pollers |-> poll[r].told])
<1> DEFINE q == poll[p]
<1>q. q \in PollState /\ Sound(q)
  BY DEF PollInv
<1> USE SchedulingAssumption, <1>q DEF PollState
<1>a. ASSUME q.id # None, q.pc \notin {"idle", "fetch"}
      PROVE  /\ Reading(q) /\ q.id \in JobId
             /\ status[q.job] \in Statuses /\ status[q.id] \in Statuses
             /\ Holds(q.id, q.told)
             /\ fallback[q.id] # None => fallback[q.id] \in JobId
  BY <1>a DEF Sound, Reading, JobsInv, TypeInv, TypeOK
<1>b. q.pc # "idle" => q.id # None
  BY DEF Sound
<1>1. ASSUME NEW j \in JobId, StartPoll(p, j)
      PROVE  PollInv' /\ UNCHANGED [r \in Pollers |-> poll[r].told]
  <2> DEFINE s == [q EXCEPT !.pc = "fetch", !.id = j]
  <2>1. poll' = [poll EXCEPT ![p] = s] /\ s \in PollState /\ s.told = q.told
    BY <1>1 DEF StartPoll, PollInv, PollPcs
  <2>2. Sound(s)
    BY <1>1 DEF StartPoll, Sound, Holds
  <2> QED
    BY <2>1, <2>2, GoOnSound
<1>2. ASSUME FetchPolled(p)
      PROVE  PollInv' /\ [AnswersOf!Next]_([r \in Pollers |-> poll[r].told])
  <2>1. q.pc = "fetch" /\ q.id \in JobId /\ status[q.id] # "absent" /\ Holds(q.id, q.told)
    BY <1>2, <1>b DEF FetchPolled, Sound
  <2>2. CASE JobExists(q.id)
    <3> DEFINE l == IF FallbackRedirect THEN "finished" ELSE "follow"
               s == [q EXCEPT !.pc = l, !.job = q.id, !.seen = status[q.id],
                              !.link = fallback[q.id], !.source = q.id \in sourced]
    <3>1. poll' = [poll EXCEPT ![p] = s]
      BY <1>2, <2>2 DEF FetchPolled, Held, PollInv
    <3>2. s \in PollState /\ s.told = q.told
      <4>1. (q.id \in sourced) \in BOOLEAN
        OBVIOUS
      <4>2. l \in PollPcs /\ status[q.id] \in Statuses
            /\ fallback[q.id] \in JobId \cup {None}
        BY <2>1 DEF PollPcs, JobsInv, TypeInv, TypeOK
      <4> QED
        BY <2>1, <4>1, <4>2
    <3>3. q.told \notin Revisable => status[q.id] \in {"finished", "failed"}
      BY <2>1, <2>2 DEF Holds, Ended, JobExists, AnswersOf!Answers, AnswersOf!Final,
            Revisable
    <3>4. Reading(s)
      BY <2>1, <3>3 DEF Reading, Ended
    <3>5. l = "follow" => Original(s)
      BY DEF Original
    <3>6. l = "finished" => Reports(s)
      BY DEF Reports
    <3>7. Sound(s)
      BY <2>1, <3>4, <3>5, <3>6 DEF Sound
    <3> QED
      BY <3>1, <3>2, <3>7, GoOnSound
  <2>3. CASE ~JobExists(q.id)
    <3>1. End(p, "unrecognized") /\ status[q.id] = "gone"
      BY <1>2, <2>1, <2>3 DEF FetchPolled, JobExists
    <3>2. Holds(q.id, "unrecognized")
      BY <3>1 DEF Holds
    <3>3. q.told = "unrecognized" \/ <<q.told, "unrecognized">> \in AnswersOf!Moves
      BY DEF AnswersOf!Moves, AnswersOf!Answers, AnswersOf!Final
    <3> QED
      BY <1>b, <2>1, <3>1, <3>2, <3>3, EndSound DEF AnswersOf!Answers
  <2> QED
    BY <2>2, <2>3
<1>3. ASSUME FollowFallback(p)
      PROVE  PollInv' /\ UNCHANGED [r \in Pollers |-> poll[r].told]
  <2>1. q.pc = "follow" /\ q.id # None /\ Original(q)
    BY <1>3, <1>b DEF FollowFallback, Sound
  <2>2. CASE status[q.job] = "failed" /\ q.link # None
    <3> DEFINE s == [q EXCEPT !.pc = "fallback"]
    <3>1. poll' = [poll EXCEPT ![p] = s] /\ s \in PollState /\ s.told = q.told
      BY <1>3, <2>2 DEF FollowFallback, Ask, PollInv, PollPcs
    <3>2. q.job = q.id /\ fallback[q.id] = q.link
      BY <1>a, <2>1, <2>2 DEF Original, Reading
    <3>3. HoldsOf(q.link, q.told)
      BY <1>a, <2>1, <2>2, <3>2 DEF Holds, HoldsOf, Ended, Original
    <3>4. Sound(s)
      BY <2>1, <2>2, <3>2, <3>3, <1>a DEF Sound, Reading, Original, Ended
    <3> QED
      BY <3>1, <3>4, GoOnSound
  <2>3. CASE status[q.job] # "failed" \/ q.link = None
    <3> DEFINE s == [q EXCEPT !.pc = "finished"]
    <3>1. poll' = [poll EXCEPT ![p] = s] /\ s \in PollState /\ s.told = q.told
      BY <1>3, <2>3 DEF FollowFallback, Ask, PollInv, PollPcs
    <3>2. Sound(s)
      BY <1>a, <2>1, <2>3 DEF Sound, Reading, Original, Reports, Ended
    <3> QED
      BY <3>1, <3>2, GoOnSound
  <2> QED
    BY <2>2, <2>3
<1>4. ASSUME FetchFallback(p)
      PROVE  PollInv' /\ [AnswersOf!Next]_([r \in Pollers |-> poll[r].told])
  <2>1. /\ q.pc = "fallback" /\ q.id # None /\ Original(q)
        /\ q.link \in JobId /\ fallback[q.id] = q.link /\ q.job = q.id
        /\ Ended(q.id, "failed") /\ HoldsOf(q.link, q.told)
        /\ q.link # q.id /\ status[q.link] # "absent"
    BY <1>4, <1>a, <1>b DEF FetchFallback, Sound, Original, Reading, JobsInv, LinkInv
  <2>2. CASE JobExists(q.link)
    <3> DEFINE s == [q EXCEPT !.pc = "finished", !.job = q.link,
                              !.seen = status[q.link], !.link = fallback[q.link],
                              !.source = q.link \in sourced]
    <3>1. poll' = [poll EXCEPT ![p] = s]
      BY <1>4, <2>2 DEF FetchFallback, Held, PollInv
    <3>2. s \in PollState /\ s.told = q.told
      <4>1. (q.link \in sourced) \in BOOLEAN
        OBVIOUS
      <4>2. /\ status[q.link] \in Statuses /\ fallback[q.link] \in JobId \cup {None}
            /\ "finished" \in PollPcs
        BY <2>1 DEF PollPcs, JobsInv, TypeInv, TypeOK
      <4> QED
        BY <2>1, <4>1, <4>2
    <3>3. /\ q.told \notin Revisable => status[q.link] \in {"finished", "failed"}
          /\ q.told # "unrecognized"
      BY <2>1, <2>2 DEF HoldsOf, Ended, JobExists, AnswersOf!Answers, AnswersOf!Final,
            Revisable
    <3>4. Reading(s)
      BY <2>1, <3>3 DEF Reading, Ended
    <3>5. Reports(s)
      BY <2>1, <3>3 DEF Reports, Original
    <3>6. Sound(s)
      BY <2>1, <3>4, <3>5 DEF Sound
    <3> QED
      BY <3>1, <3>2, <3>6, GoOnSound
  <2>3. CASE ~JobExists(q.link)
    <3>1. End(p, "unrecognized") /\ status[q.link] = "gone"
      BY <1>4, <2>1, <2>3 DEF FetchFallback, JobExists
    <3>2. Holds(q.id, "unrecognized")
      BY <2>1, <3>1 DEF Holds, Original
    <3>3. q.told = "unrecognized" \/ <<q.told, "unrecognized">> \in AnswersOf!Moves
      BY DEF AnswersOf!Moves, AnswersOf!Answers, AnswersOf!Final
    <3> QED
      BY <2>1, <3>1, <3>2, <3>3, EndSound DEF AnswersOf!Answers
  <2> QED
    BY <2>2, <2>3
<1>c. ASSUME q.pc \in {"finished", "redirect", "failed", "report"}
      PROVE  q.id # None /\ Reports(q) /\ Reading(q)
  BY <1>c DEF Sound
\* Answered as before: an error, or the poll given up.
<1>d. ASSUME End(p, q.told), q.pc # "idle"
      PROVE  PollInv' /\ [AnswersOf!Next]_([r \in Pollers |-> poll[r].told])
  <2>1. q.id # None /\ Holds(q.id, q.told)
    BY <1>d DEF Sound
  <2> QED
    BY <1>d, <2>1, EndSound
<1>5. ASSUME AskFinished(p)
      PROVE  PollInv' /\ [AnswersOf!Next]_([r \in Pollers |-> poll[r].told])
  <2>1. q.pc = "finished"
    BY <1>5 DEF AskFinished
  <2>2. CASE status[q.job] = "finished" /\ q.source
    <3>1. End(p, "processed")
      BY <1>5, <2>2 DEF AskFinished
    <3>2. Holds(q.id, "processed")
      <4>1. CASE q.job = q.id
        BY <2>2, <4>1 DEF Holds, Ended
      <4>2. CASE q.job # q.id
        <5>1. /\ ~FallbackRedirect /\ Ended(q.id, "failed")
              /\ fallback[q.id] # None /\ status[fallback[q.id]] = "finished"
          BY <1>c, <2>1, <2>2, <4>2 DEF Reports, Reading
        <5> QED
          BY <5>1 DEF Holds, Ended
      <4> QED
        BY <4>1, <4>2
    <3>3. q.told \notin {"unknown", "redirect", "unrecognized"}
      BY <1>a, <1>c, <2>1, <2>2 DEF Reports, Holds, HoldsOf, Ended
    <3>4. q.told = "processed" \/ <<q.told, "processed">> \in AnswersOf!Moves
      BY <3>3 DEF AnswersOf!Moves, AnswersOf!Answers, AnswersOf!Final
    <3> QED
      BY <1>c, <2>1, <3>1, <3>2, <3>4, EndSound DEF AnswersOf!Answers, AnswersOf!Final
  <2>3. CASE status[q.job] = "finished" /\ ~q.source
    BY <1>5, <1>d, <2>1, <2>3 DEF AskFinished
  <2>4. CASE status[q.job] # "finished"
    <3> DEFINE s == [q EXCEPT !.pc = "redirect"]
    <3>1. poll' = [poll EXCEPT ![p] = s] /\ s \in PollState /\ s.told = q.told
      BY <1>5, <2>4 DEF AskFinished, Ask, PollInv, PollPcs
    <3>2. Sound(s)
      BY <1>c, <2>1, <2>4 DEF Sound, Reading, Reports, Ended
    <3> QED
      BY <3>1, <3>2, GoOnSound
  <2> QED
    BY <2>2, <2>3, <2>4
<1>6. ASSUME AskRedirect(p)
      PROVE  PollInv' /\ [AnswersOf!Next]_([r \in Pollers |-> poll[r].told])
  <2>1. q.pc = "redirect"
    BY <1>6 DEF AskRedirect
  <2>2. CASE status[q.job] = "failed" /\ q.link # None /\ q.seen = "failed"
    <3>1. End(p, "redirect")
      BY <1>6, <2>2 DEF AskRedirect, TellFailure
    <3>2. Holds(q.id, "redirect")
      BY <1>a, <1>c, <2>1, <2>2 DEF Reports, Reading, Holds, Ended
    <3>3. q.told \notin {"processed", "unknown", "unrecognized"}
      BY <1>a, <1>c, <2>1, <2>2 DEF Reports, Reading, Holds, HoldsOf, Ended
    <3>4. q.told = "redirect" \/ <<q.told, "redirect">> \in AnswersOf!Moves
      BY <3>3 DEF AnswersOf!Moves, AnswersOf!Answers, AnswersOf!Final
    <3> QED
      BY <1>c, <2>1, <3>1, <3>2, <3>4, EndSound DEF AnswersOf!Answers, AnswersOf!Final
  <2>3. CASE status[q.job] = "failed" /\ q.link # None /\ q.seen # "failed"
    <3>1. End(p, "premature")
      BY <1>6, <2>3 DEF AskRedirect, TellFailure
    <3>2. q.told \in Revisable
      BY <1>c, <2>1, <2>3 DEF Reading, Ended
    <3> QED
      BY <1>c, <2>1, <3>1, <3>2, EndSound
         DEF AnswersOf!Answers, AnswersOf!Moves, Holds, Revisable
  <2>4. CASE status[q.job] # "failed" \/ q.link = None
    <3> DEFINE s == [q EXCEPT !.pc = "failed"]
    <3>1. poll' = [poll EXCEPT ![p] = s] /\ s \in PollState /\ s.told = q.told
      BY <1>6, <2>4 DEF AskRedirect, Ask, PollInv, PollPcs
    <3>2. Sound(s)
      BY <1>c, <2>1, <2>4 DEF Sound, Reading, Reports, Ended
    <3> QED
      BY <3>1, <3>2, GoOnSound
  <2> QED
    BY <2>2, <2>3, <2>4
<1>7. ASSUME AskFailed(p)
      PROVE  PollInv' /\ [AnswersOf!Next]_([r \in Pollers |-> poll[r].told])
  <2>1. q.pc = "failed"
    BY <1>7 DEF AskFailed
  <2>2. CASE status[q.job] = "failed" /\ q.seen = "failed"
    <3>1. End(p, "unknown") /\ q.link = None /\ fallback[q.job] = None
      BY <1>7, <1>c, <2>1, <2>2 DEF AskFailed, TellFailure, Reports, Reading
    <3>2. Holds(q.id, "unknown")
      BY <1>a, <1>c, <2>1, <2>2, <3>1 DEF Reports, Holds, Ended
    <3>3. q.told \notin {"processed", "redirect", "unrecognized"}
      BY <1>a, <1>c, <2>1, <2>2, <3>1 DEF Reports, Holds, HoldsOf, Ended
    <3>4. q.told = "unknown" \/ <<q.told, "unknown">> \in AnswersOf!Moves
      BY <3>3 DEF AnswersOf!Moves, AnswersOf!Answers, AnswersOf!Final
    <3> QED
      BY <1>c, <2>1, <3>1, <3>2, <3>4, EndSound DEF AnswersOf!Answers, AnswersOf!Final
  <2>3. CASE status[q.job] = "failed" /\ q.seen # "failed"
    <3>1. End(p, "premature")
      BY <1>7, <2>3 DEF AskFailed, TellFailure
    <3>2. q.told \in Revisable
      BY <1>c, <2>1, <2>3 DEF Reading, Ended
    <3> QED
      BY <1>c, <2>1, <3>1, <3>2, EndSound
         DEF AnswersOf!Answers, AnswersOf!Moves, Holds, Revisable
  <2>4. CASE status[q.job] # "failed"
    <3> DEFINE s == [q EXCEPT !.pc = "report"]
    <3>1. poll' = [poll EXCEPT ![p] = s] /\ s \in PollState /\ s.told = q.told
      BY <1>7, <2>4 DEF AskFailed, Ask, PollInv, PollPcs
    <3>2. Sound(s)
      BY <1>c, <2>1, <2>4 DEF Sound, Reading, Reports, Ended
    <3> QED
      BY <3>1, <3>2, GoOnSound
  <2> QED
    BY <2>2, <2>3, <2>4
<1>8. ASSUME ReportStatus(p)
      PROVE  PollInv' /\ [AnswersOf!Next]_([r \in Pollers |-> poll[r].told])
  <2>1. q.pc = "report"
    BY <1>8 DEF ReportStatus
  <2>2. CASE status[q.job] \notin {"created", "gone"}
    <3>1. End(p, "pending")
      BY <1>8, <2>2 DEF ReportStatus
    <3>2. q.told \in Revisable
      BY <1>c, <2>1, <2>2 DEF Reading, Reports
    <3> QED
      BY <1>c, <2>1, <3>1, <3>2, EndSound
         DEF AnswersOf!Answers, AnswersOf!Moves, Holds, Revisable
  <2>3. CASE status[q.job] \in {"created", "gone"}
    BY <1>8, <1>d, <2>1, <2>3 DEF ReportStatus
  <2> QED
    BY <2>2, <2>3
<1>9. ASSUME AbortPoll(p)
      PROVE  PollInv' /\ [AnswersOf!Next]_([r \in Pollers |-> poll[r].told])
  BY <1>9, <1>d DEF AbortPoll
<1> QED
  BY <1>1, <1>2, <1>3, <1>4, <1>5, <1>6, <1>7, <1>8, <1>9 DEF PollStep

\* Initially nobody was told anything.
LEMMA PollStart == PollInit => PollInv
<1> SUFFICES ASSUME PollInit PROVE PollInv
  OBVIOUS
<1>1. NoPoll \in PollState /\ NoPoll.id = None /\ NoPoll.pc = "idle" /\ NoPoll.told = "none"
  BY DEF NoPoll, PollState, PollPcs, AnswersOf!Answers
<1>2. Sound(NoPoll)
  BY <1>1 DEF Sound
<1> QED
  BY <1>1, <1>2 DEF PollInit, PollInv

\* Polls only read: beside them, the jobs behave as SchedulingJobs says, and what
\* is proved of Spec holds of PollSpec.
THEOREM PollsOnlyRead == PollSpec => Spec
<1>1. PollInit => Init
  BY DEF PollInit
<1>2. [PollNext]_<<vars, poll>> => [Next]_vars
  BY DEF PollNext
<1> QED
  BY <1>1, <1>2, PTL DEF PollSpec, Spec

\* AnswersImplemented, for callers that never requeue: however the trips of a poll
\* fall between the writes of workers, the hand-over to fallback jobs, kills and
\* expiries, a client that was given a schedule is not told otherwise later, and a
\* failure of a job that had failed when the poll fetched it is final.
THEOREM PollsAnswer ==
  ASSUME NoRequeues
  PROVE  PollSpec => AnswersImplemented
<1>1. TypeInv /\ NeverRequeued /\ [Next]_vars => NeverRequeued'
  BY RequeueNext, NoRequeues
<1>2. Spec => []JobsInv
  BY <1>1, Typing, QueueInit, QueueNext, CacheInit, CacheNext, RequeueInit,
     LinkInit, LinkNext, ChainInit, ChainNext, PTL DEF Spec, JobsInv
<1>3. JobsInv /\ PollInv /\ [PollNext]_<<vars, poll>> =>
        PollInv' /\ [AnswersOf!Next]_([p \in Pollers |-> poll[p].told])
  <2> SUFFICES ASSUME JobsInv, PollInv, [PollNext]_<<vars, poll>>
               PROVE  PollInv' /\ [AnswersOf!Next]_([p \in Pollers |-> poll[p].told])
    OBVIOUS
  <2>1. CASE [Next]_vars /\ UNCHANGED poll
    <3>1. \A p \in Pollers : Sound(poll[p])'
      BY <2>1, SoundKept DEF PollInv
    <3> QED
      BY <2>1, <3>1 DEF PollInv
  <2>2. CASE \E p \in Pollers : PollStep(p) /\ UNCHANGED vars
    BY <2>2, PollStepSound
  <2> QED
    BY <2>1, <2>2 DEF PollNext
<1>4. PollInit => AnswersOf!Init
  BY DEF PollInit, AnswersOf!Init, NoPoll
<1> QED
  BY <1>2, <1>3, <1>4, PollStart, PollsOnlyRead, PTL
     DEF PollSpec, AnswersImplemented, AnswersOf!Spec

=============================================================================
