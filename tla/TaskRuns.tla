------------------------------- MODULE TaskRuns -------------------------------
(***************************************************************************)
(* Commands that report their runs in the table latest_task_runs           *)
(* (task_with_status_report, LatestTaskRun.record_run), and the command    *)
(* that watches this table (monitor latest-run).                           *)
(*                                                                         *)
(* Every run works in a database session of its own. SQLAlchemy 2 commits  *)
(* and rolls back the whole transaction, also within begin_nested: the     *)
(* results of a task and the report about it share one fate.               *)
(***************************************************************************)
EXTENDS Integers, Sequences

CONSTANTS
    Runners,        \* processes that run tasks, one run at a time
    Listed,         \* the tasks, in the order in which the monitor is given them
    Interval,       \* the time a task's latest run may be ago
    MaxTaskRuns, MaxTaskTime, MaxKilled,  \* bounds: runs, clock, killed processes
    NoRun

Tasks == {Listed[i] : i \in DOMAIN Listed}

ASSUME TaskRunsAssumption ==
    /\ Listed # << >> /\ Listed \in Seq(Tasks)
    /\ Interval \in Nat /\ MaxTaskRuns \in Nat /\ MaxTaskTime \in Nat /\ MaxKilled \in Nat
    /\ NoRun \notin Nat /\ NoRun \notin [at : Nat, status : BOOLEAN]

\* How a task function ends. "broken" stands for one that returns while the session
\* holds rows the database refuses.
Outcomes == {"fine", "partial", "failed", "broken"}

VARIABLES
    latest,    \* latest_task_runs: per task NoRun or the time and status of a run
    runs,      \* all runs so far; what became of them is only observed
    doing,     \* the run each process is busy with, or NoRun
    monitor,   \* the place in Listed the monitor is to check next, 0 between passes
    silent,    \* tasks the present pass found nothing wrong with, and when
    taskClock,
    killed

tvars == <<latest, runs, doing, monitor, silent, taskClock, killed>>

TInit ==
    /\ latest = [t \in Tasks |-> NoRun]
    /\ runs = << >>
    /\ doing = [p \in Runners |-> NoRun]
    /\ monitor = 0
    /\ silent = {}
    /\ taskClock = 0
    /\ killed = 0

-----------------------------------------------------------------------------

StartTask(p, t) ==
    /\ doing[p] = NoRun
    /\ Len(runs) < MaxTaskRuns
    /\ runs' = Append(runs, [task |-> t, step |-> "works", outcome |-> NoRun,
                             began |-> taskClock, found |-> FALSE, at |-> NoRun,
                             stored |-> FALSE, reported |-> FALSE])
    /\ doing' = [doing EXCEPT ![p] = Len(runs) + 1]
    /\ UNCHANGED <<latest, monitor, silent, taskClock, killed>>

\* The task function returns or raises. Unless there is reason to commit the session
\* is rolled back.
EndWork(p) ==
    /\ doing[p] # NoRun
    /\ runs[doing[p]].step = "works"
    /\ \E outcome \in Outcomes :
          runs' = [runs EXCEPT ![doing[p]].step = "records",
                               ![doing[p]].outcome = outcome]
    /\ UNCHANGED <<latest, doing, monitor, silent, taskClock, killed>>

\* begin_nested flushes the results, outside the try block: rows the database refuses
\* end the command here, unreported. Otherwise record_run looks the row up.
Record(p) ==
    /\ doing[p] # NoRun
    /\ LET r == doing[p]
       IN /\ runs[r].step = "records"
          /\ IF runs[r].outcome = "broken"
             THEN /\ runs' = [runs EXCEPT ![r].step = "ended"]
                  /\ doing' = [doing EXCEPT ![p] = NoRun]
             ELSE /\ runs' = [runs EXCEPT ![r].step = "commits",
                                          ![r].at = taskClock,
                                          ![r].found = latest[runs[r].task] # NoRun]
                  /\ UNCHANGED doing
    /\ UNCHANGED <<latest, monitor, silent, taskClock, killed>>

\* Mutant: a failed run is not rolled back.
CommitFailed(p) ==
    /\ doing[p] # NoRun
    /\ LET r == doing[p]
           task == runs[r].task
           refused == ~ runs[r].found /\ latest[task] # NoRun
       IN /\ runs[r].step = "commits"
          /\ runs' = [runs EXCEPT ![r].step = "ended",
                                  ![r].stored = ~ refused,
                                  ![r].reported = ~ refused]
          /\ latest' = IF refused THEN latest
                       ELSE [latest EXCEPT ![task] =
                               [at |-> runs[r].at, status |-> runs[r].outcome = "fine"]]
          /\ doing' = [doing EXCEPT ![p] = NoRun]
    /\ UNCHANGED <<monitor, silent, taskClock, killed>>

\* The commit of results and report. A run that found no row inserts one; if another
\* process has done so by now, the insert fails and everything is rolled back.
Commit(p) ==
    /\ doing[p] # NoRun
    /\ LET r == doing[p]
           task == runs[r].task
           refused == ~ runs[r].found /\ latest[task] # NoRun
       IN /\ runs[r].step = "commits"
          /\ runs' = [runs EXCEPT ![r].step = "ended",
                                  ![r].stored = ~ refused /\ runs[r].outcome # "failed",
                                  ![r].reported = ~ refused]
          /\ latest' = IF refused THEN latest
                       ELSE [latest EXCEPT ![task] =
                               [at |-> runs[r].at, status |-> runs[r].outcome = "fine"]]
          /\ doing' = [doing EXCEPT ![p] = NoRun]
    /\ UNCHANGED <<monitor, silent, taskClock, killed>>

\* The process dies; its transaction is rolled back.
KillTask(p) ==
    /\ killed < MaxKilled
    /\ doing[p] # NoRun
    /\ runs' = [runs EXCEPT ![doing[p]].step = "killed"]
    /\ doing' = [doing EXCEPT ![p] = NoRun]
    /\ killed' = killed + 1
    /\ UNCHANGED <<latest, monitor, silent, taskClock>>

-----------------------------------------------------------------------------
(* monitor latest-run, one task after the other.                           *)

StartPass ==
    /\ monitor = 0
    /\ monitor' = 1
    /\ silent' = {}
    /\ UNCHANGED <<latest, runs, doing, taskClock, killed>>

\* Mutant: the status is not looked at.
HealthyRecent(run) == run.at >= taskClock - Interval

Healthy(run) == run.at >= taskClock - Interval /\ run.status

\* A task that never ran is reported and ends the command: the tasks listed after it
\* are not checked. Other trouble is reported and the next task is checked.
CheckTask ==
    /\ monitor # 0
    /\ LET task == Listed[monitor]
           run == latest[task]
       IN /\ silent' = IF run # NoRun /\ Healthy(run)
                       THEN silent \cup {[task |-> task, at |-> taskClock]}
                       ELSE silent
          /\ monitor' = IF run # NoRun /\ monitor < Len(Listed) THEN monitor + 1 ELSE 0
    /\ UNCHANGED <<latest, runs, doing, taskClock, killed>>

PassTaskTime ==
    /\ taskClock < MaxTaskTime
    /\ taskClock' = taskClock + 1
    /\ UNCHANGED <<latest, runs, doing, monitor, silent, killed>>

TNext ==
    \/ \E p \in Runners :
          \/ \E t \in Tasks : StartTask(p, t)
          \/ EndWork(p) \/ Record(p) \/ Commit(p) \/ KillTask(p)
    \/ StartPass \/ CheckTask \/ PassTaskTime

TSpec == TInit /\ [][TNext]_tvars

-----------------------------------------------------------------------------

\* transactional.py:119 "any failure here does not invalidate any task results we
\* might commit". A run that was not killed stores its results if they can be stored
\* and it did not fail, with one exception: a first run of the task that another
\* process reported in the meantime. Results of failed runs are never stored.
ResultsKept ==
    \A i \in DOMAIN runs :
        /\ runs[i].step = "ended" /\ runs[i].outcome \in {"fine", "partial"} =>
              \/ runs[i].stored
              \/ \E j \in DOMAIN runs \ {i} :
                    /\ runs[j].task = runs[i].task /\ runs[j].reported
                    /\ ~ runs[i].found /\ ~ runs[j].found
        /\ runs[i].outcome \in {"failed", "broken"} => ~ runs[i].stored

\* host/error-monitoring.rst:42 "when tasks have not successfully run at least
\* so-and-so many minutes ago": a task the monitor checked without raising an alert
\* did run successfully in that time, and its results are in the database.
SilenceMeansHealthy ==
    \A quiet \in silent :
        \E i \in DOMAIN runs :
            /\ runs[i].task = quiet.task
            /\ runs[i].outcome = "fine" /\ runs[i].stored
            /\ quiet.at - Interval <= runs[i].at /\ runs[i].at <= quiet.at

=============================================================================
