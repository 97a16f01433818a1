------------------------ MODULE SimultaneousScheduling ------------------------
(***************************************************************************)
(* create_simultaneous_scheduling_job: one job for all devices of a site.  *)
(* It is behind the job cache itself, and makes its job by calling         *)
(* create_scheduling_job, which is behind the same cache with an entry of  *)
(* its own and is told not to enqueue: the job id is in the inner entry    *)
(* before the job is in the queue. The requests are for one argument list. *)
(*                                                                         *)
(* The round trips of one look-up, and the worker, are those of            *)
(* SchedulingJobs, and taken together here.                                *)
(***************************************************************************)
EXTENDS Naturals, Sequences

CONSTANTS
    Callers,        \* web processes
    SiteJob,        \* job ids still to be drawn
    NoJob,
    MaxTriggers, MaxKilledCallers  \* bounds: triggers, killed processes

ASSUME SimultaneousAssumption ==
    /\ NoJob \notin SiteJob
    /\ MaxTriggers \in Nat /\ MaxKilledCallers \in Nat

VARIABLES
    entry,      \* the job id under each of the two keys, or NoJob
    state,      \* each job's hash in Redis
    line,       \* the queue
    caller,     \* what each web process is doing
    told,       \* the ids that clients got as an answer
    listed,     \* the jobs that were put in the queue at some time
    triggers, killedCallers

mvars == <<entry, state, line, caller, told, listed, triggers, killedCallers>>

\* "saved": the hash holds the job's meta, and no status yet.
JobStates == {"absent", "saved", "queued", "done", "gone"}

Away == [step |-> "away", key |-> "outer", force |-> FALSE, job |-> NoJob]

MInit ==
    /\ entry = [key \in {"outer", "inner"} |-> NoJob]
    /\ state = [j \in SiteJob |-> "absent"]
    /\ line = << >>
    /\ caller = [c \in Callers |-> Away]
    /\ told = {} /\ listed = {}
    /\ triggers = 0 /\ killedCallers = 0

-----------------------------------------------------------------------------

Ask(c, force) ==
    /\ caller[c] = Away
    /\ triggers < MaxTriggers
    /\ triggers' = triggers + 1
    /\ caller' = [caller EXCEPT ![c] = [Away EXCEPT !.step = "find", !.force = force]]
    /\ UNCHANGED <<entry, state, line, told, listed, killedCallers>>

\* The wrapper looks for the key, its value, and the job; no find leads to the function
\* it wraps, which is for the outer key the call of the inner one.
Find(c) ==
    LET key == caller[c].key
        job == entry[key] IN
    /\ caller[c].step = "find"
    /\ caller' = [caller EXCEPT ![c] =
           IF ~ @.force /\ job # NoJob /\ state[job] # "gone"
           THEN [@ EXCEPT !.step = "fetch", !.job = job]
           ELSE IF key = "outer" THEN [@ EXCEPT !.key = "inner"]
                ELSE [@ EXCEPT !.step = "create"]]
    /\ UNCHANGED <<entry, state, line, told, listed, triggers, killedCallers>>

\* Mutant: whoever created the job is trusted to enqueue it.
FetchTrusting(c) ==
    LET r == caller[c] IN
    /\ r.step = "fetch"
    /\ \/ /\ state[r.job] \in {"saved", "gone"}
          /\ caller' = [caller EXCEPT ![c] = Away]
          /\ UNCHANGED told
       \/ /\ state[r.job] # "gone"
          /\ caller' = [caller EXCEPT ![c] = Away]
          /\ told' = told \cup {r.job}
    /\ UNCHANGED <<entry, state, line, listed, triggers, killedCallers>>

\* Job.fetch raises when the job is gone; versions of RQ differ in whether it also does
\* when the hash holds nothing but meta.
Fetch(c) ==
    LET r == caller[c] IN
    /\ r.step = "fetch"
    /\ \/ /\ state[r.job] \in {"saved", "gone"}
          /\ caller' = [caller EXCEPT ![c] = Away]
          /\ UNCHANGED told
       \/ /\ state[r.job] # "gone"
          /\ r.key = "outer"
          /\ caller' = [caller EXCEPT ![c] = Away]
          /\ told' = told \cup {r.job}
       \/ /\ state[r.job] # "gone"
          /\ r.key = "inner"
          /\ caller' = [caller EXCEPT ![c].step = "check"]
          /\ UNCHANGED told
    /\ UNCHANGED <<entry, state, line, listed, triggers, killedCallers>>

\* create_scheduling_job with enqueue=False.
Create(c) ==
    /\ caller[c].step = "create"
    /\ \E j \in SiteJob : state[j] = "absent"
    /\ LET j == CHOOSE i \in SiteJob : state[i] = "absent" IN
          /\ state' = [state EXCEPT ![j] = "saved"]
          /\ caller' = [caller EXCEPT ![c].step = "storeInner", ![c].job = j]
    /\ UNCHANGED <<entry, line, told, listed, triggers, killedCallers>>

\* The flex-config is refused with a ValidationError.
Refuse(c) ==
    /\ caller[c].step = "create"
    /\ caller' = [caller EXCEPT ![c] = Away]
    /\ UNCHANGED <<entry, state, line, told, listed, triggers, killedCallers>>

StoreInner(c) ==
    /\ caller[c].step = "storeInner"
    /\ entry' = [entry EXCEPT !["inner"] = caller[c].job]
    /\ caller' = [caller EXCEPT ![c].step = "check"]
    /\ UNCHANGED <<state, line, told, listed, triggers, killedCallers>>

\* "only fresh new jobs are enqueued": those that have no status.
CheckStatus(c) ==
    /\ caller[c].step = "check"
    /\ caller' = [caller EXCEPT ![c].step =
           IF state[caller[c].job] \in {"saved", "gone"} THEN "enqueue" ELSE "storeOuter"]
    /\ UNCHANGED <<entry, state, line, told, listed, triggers, killedCallers>>

\* Queue.enqueue_job, and the entry of the status page.
EnqueueSiteJob(c) ==
    /\ caller[c].step = "enqueue"
    /\ state' = [state EXCEPT ![caller[c].job] = "queued"]
    /\ line' = Append(line, caller[c].job)
    /\ listed' = listed \cup {caller[c].job}
    /\ caller' = [caller EXCEPT ![c].step = "storeOuter"]
    /\ UNCHANGED <<entry, told, triggers, killedCallers>>

StoreOuter(c) ==
    /\ caller[c].step = "storeOuter"
    /\ entry' = [entry EXCEPT !["outer"] = caller[c].job]
    /\ told' = told \cup {caller[c].job}
    /\ caller' = [caller EXCEPT ![c] = Away]
    /\ UNCHANGED <<state, line, listed, triggers, killedCallers>>

KillCaller(c) ==
    /\ caller[c] # Away
    /\ killedCallers < MaxKilledCallers
    /\ killedCallers' = killedCallers + 1
    /\ caller' = [caller EXCEPT ![c] = Away]
    /\ UNCHANGED <<entry, state, line, told, listed, triggers>>

\* A worker takes the next job and runs it, unless its hash is gone.
RunSiteJob ==
    /\ line # << >>
    /\ line' = Tail(line)
    /\ state' = [state EXCEPT ![Head(line)] = IF @ = "gone" THEN @ ELSE "done"]
    /\ UNCHANGED <<entry, caller, told, listed, triggers, killedCallers>>

ExpireKey(key) ==
    /\ entry[key] # NoJob
    /\ entry' = [entry EXCEPT ![key] = NoJob]
    /\ UNCHANGED <<state, line, caller, told, listed, triggers, killedCallers>>

\* FLEXMEASURES_JOB_TTL and FLEXMEASURES_PLANNING_TTL
ExpireSiteJob(j) ==
    /\ state[j] \in {"queued", "done"}
    /\ state' = [state EXCEPT ![j] = "gone"]
    /\ UNCHANGED <<entry, line, caller, told, listed, triggers, killedCallers>>

MNext ==
    \/ \E c \in Callers :
          \/ \E force \in BOOLEAN : Ask(c, force)
          \/ Find(c) \/ Fetch(c) \/ Create(c) \/ Refuse(c) \/ StoreInner(c)
          \/ CheckStatus(c) \/ EnqueueSiteJob(c) \/ StoreOuter(c) \/ KillCaller(c)
    \/ RunSiteJob
    \/ \E key \in {"outer", "inner"} : ExpireKey(key)
    \/ \E j \in SiteJob : ExpireSiteJob(j)

MSpec == MInit /\ [][MNext]_mvars

-----------------------------------------------------------------------------

\* A job id that a client got was in the queue, though the id could be found before the
\* job was, and its creator may have been killed in between.
ToldIsListed == told \subseteq listed

=============================================================================
