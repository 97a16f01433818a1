------------------------------- MODULE MonitoringProofs -------------------------------
(***************************************************************************)
(* Proofs about TaskRuns and UserMonitor: the reports of tasks with the    *)
(* monitor of latest runs, for any tasks, processes and bounds, and the    *)
(* monitor of absent users, for any users, delay and bounds.               *)
(***************************************************************************)
EXTENDS TaskRuns, UserMonitor, FiniteSetTheorems, TLAPS

(* Task runs and their monitor.                                            *)

Busy == {"works", "records", "commits"}

Run == [task : Tasks, step : Busy \cup {"ended", "killed"},
        outcome : Outcomes \cup {NoRun}, began : Nat, found : BOOLEAN,
        at : Nat \cup {NoRun}, stored : BOOLEAN, reported : BOOLEAN]

TaskTypes ==
    /\ latest \in [Tasks -> [at : Nat, status : BOOLEAN] \cup {NoRun}]
    /\ runs \in Seq(Run)
    /\ doing \in [Runners -> Nat \cup {NoRun}]
    /\ monitor \in Nat
    /\ taskClock \in Nat
    /\ killed \in Nat
    /\ silent \subseteq [task : Tasks, at : Nat]

\* A run under way is one process's.
UnderWay ==
    /\ \A p \in Runners :
          doing[p] # NoRun => doing[p] \in DOMAIN runs /\ runs[doing[p]].step \in Busy
    /\ \A p, q \in Runners : doing[p] # NoRun /\ doing[p] = doing[q] => p = q

\* What is known of a run by the step it is in.
RunsSoFar ==
    \A i \in DOMAIN runs :
        /\ runs[i].step \in Busy => ~ runs[i].stored /\ ~ runs[i].reported
        /\ runs[i].step = "records" => runs[i].outcome \in Outcomes
        /\ runs[i].step = "commits" =>
              /\ runs[i].outcome \in {"fine", "partial", "failed"}
              /\ runs[i].at \in Nat /\ runs[i].at <= taskClock
        /\ runs[i].found => latest[runs[i].task] # NoRun

\* A row was inserted by a run that found none.
FirstReported ==
    \A t \in Tasks : latest[t] # NoRun =>
        \E j \in DOMAIN runs :
            runs[j].task = t /\ runs[j].reported /\ ~ runs[j].found

\* A row that reports success is a run's whose results are stored.
SuccessIsStored ==
    \A t \in Tasks : latest[t] # NoRun =>
        /\ latest[t].at <= taskClock
        /\ latest[t].status =>
              \E j \in DOMAIN runs :
                  /\ runs[j].task = t /\ runs[j].step = "ended"
                  /\ runs[j].outcome = "fine" /\ runs[j].stored
                  /\ runs[j].at = latest[t].at

\* Runs that ended are never touched again.
QuietIsHealthy ==
    \A quiet \in silent :
        \E i \in DOMAIN runs :
            /\ runs[i].task = quiet.task /\ runs[i].step = "ended"
            /\ runs[i].outcome = "fine" /\ runs[i].stored
            /\ runs[i].at \in Nat
            /\ quiet.at - Interval <= runs[i].at /\ runs[i].at <= quiet.at

TaskInv ==
    TaskTypes /\ UnderWay /\ RunsSoFar /\ FirstReported /\ SuccessIsStored
        /\ QuietIsHealthy /\ ResultsKept

-----------------------------------------------------------------------------

USE DEF Busy

LEMMA TaskInitOK == TInit => TaskInv
<1> SUFFICES ASSUME TInit PROVE TaskInv
    OBVIOUS
<1> USE DEF TInit
<1>1. TaskTypes
    BY TaskRunsAssumption DEF TaskTypes
<1>2. UnderWay
    BY DEF UnderWay
<1>3. RunsSoFar /\ ResultsKept
    BY DEF RunsSoFar, ResultsKept
<1>4. FirstReported /\ SuccessIsStored
    BY DEF FirstReported, SuccessIsStored
<1>5. QuietIsHealthy
    BY DEF QuietIsHealthy
<1> QED
    BY <1>1, <1>2, <1>3, <1>4, <1>5 DEF TaskInv

\* The table is only written by Commit, so that steps which change runs under way in
\* other respects keep what is said of it.
LEMMA OnlyBusyChange ==
    ASSUME TaskInv, NEW r \in DOMAIN runs, runs[r].step \in Busy,
           NEW new \in Run, runs' = [runs EXCEPT ![r] = new],
           new.task = runs[r].task, new.found => latest[new.task] # NoRun,
           ~ new.stored, ~ new.reported,
           new.step = "ended" => new.outcome = "broken",
           new.step = "records" => new.outcome \in Outcomes,
           new.step = "commits" =>
              /\ new.outcome \in {"fine", "partial", "failed"}
              /\ new.at \in Nat /\ new.at <= taskClock,
           UNCHANGED <<latest, taskClock, silent>>
    PROVE  /\ runs' \in Seq(Run)
           /\ RunsSoFar' /\ FirstReported' /\ SuccessIsStored' /\ QuietIsHealthy'
           /\ ResultsKept'
<1> USE DEF TaskInv
<1>1. /\ runs' \in Seq(Run) /\ DOMAIN runs' = DOMAIN runs
      /\ \A i \in DOMAIN runs : runs'[i] = IF i = r THEN new ELSE runs[i]
    BY DEF TaskTypes
<1>2. ~ runs[r].stored /\ ~ runs[r].reported
    BY DEF RunsSoFar
<1>3. RunsSoFar'
    BY <1>1 DEF RunsSoFar
<1>4. FirstReported'
    BY <1>1, <1>2 DEF FirstReported
<1>5. SuccessIsStored'
    BY <1>1, <1>2 DEF SuccessIsStored
<1>6. QuietIsHealthy'
    BY <1>1, <1>2 DEF QuietIsHealthy
<1>7. ResultsKept'
  <2> SUFFICES ASSUME NEW i \in DOMAIN runs
               PROVE  /\ runs'[i].step = "ended" /\ runs'[i].outcome \in {"fine", "partial"}
                           => \/ runs'[i].stored
                              \/ \E j \in DOMAIN runs \ {i} :
                                    /\ runs'[j].task = runs'[i].task /\ runs'[j].reported
                                    /\ ~ runs'[i].found /\ ~ runs'[j].found
                      /\ runs'[i].outcome \in {"failed", "broken"} => ~ runs'[i].stored
      BY <1>1 DEF ResultsKept
  <2>1. CASE i = r
      BY <1>1, <2>1
  <2>2. CASE i # r
      BY <1>1, <1>2, <2>2 DEF ResultsKept
  <2> QED
      BY <2>1, <2>2
<1> QED
    BY <1>1, <1>3, <1>4, <1>5, <1>6, <1>7

LEMMA StartTaskOK ==
    ASSUME TaskInv, NEW p \in Runners, NEW t \in Tasks, StartTask(p, t)
    PROVE  TaskInv'
<1> USE DEF TaskInv, StartTask
<1> DEFINE new == [task |-> t, step |-> "works", outcome |-> NoRun,
                   began |-> taskClock, found |-> FALSE, at |-> NoRun,
                   stored |-> FALSE, reported |-> FALSE]
<1>1. new \in Run
    BY DEF Run, TaskTypes
<1>2. /\ runs' \in Seq(Run) /\ DOMAIN runs' = DOMAIN runs \cup {Len(runs) + 1}
      /\ \A i \in DOMAIN runs : i # Len(runs) + 1 /\ runs'[i] = runs[i]
      /\ runs'[Len(runs) + 1] = new
      /\ Len(runs) \in Nat
    BY <1>1 DEF TaskTypes
<1> HIDE DEF new
<1>0. /\ new.task = t /\ new.step = "works" /\ ~ new.found
      /\ ~ new.stored /\ ~ new.reported /\ new.outcome = NoRun
    BY DEF new
<1>3. TaskTypes'
    BY <1>2 DEF TaskTypes
<1>4. UnderWay'
    BY <1>0, <1>2 DEF UnderWay, TaskTypes
<1>5. RunsSoFar'
    BY <1>0, <1>2 DEF RunsSoFar
<1>6. FirstReported' /\ SuccessIsStored' /\ QuietIsHealthy'
    BY SMTT(30), <1>2 DEF FirstReported, SuccessIsStored, QuietIsHealthy
<1>7. ResultsKept'
    BY <1>0, <1>2 DEF ResultsKept
<1> QED
    BY <1>3, <1>4, <1>5, <1>6, <1>7

\* A run under way is changed, its process goes on or lets go of it.
LEMMA ProcessGoesOn ==
    ASSUME TaskInv, NEW p \in Runners, doing[p] # NoRun,
           NEW new \in Run, runs' = [runs EXCEPT ![doing[p]] = new],
           \/ UNCHANGED doing /\ new.step \in Busy
           \/ doing' = [doing EXCEPT ![p] = NoRun]
    PROVE  UnderWay' /\ doing' \in [Runners -> Nat \cup {NoRun}]
<1> USE DEF TaskInv
<1>1. doing[p] \in DOMAIN runs
    BY DEF UnderWay
<1>2. /\ DOMAIN runs' = DOMAIN runs
      /\ \A i \in DOMAIN runs : runs'[i] = IF i = doing[p] THEN new ELSE runs[i]
    BY <1>1 DEF TaskTypes
<1>3. doing' \in [Runners -> Nat \cup {NoRun}]
    BY DEF TaskTypes
<1>4. \A q \in Runners : q # p => doing'[q] = doing[q]
    BY DEF TaskTypes
<1>5. doing'[p] = NoRun \/ (doing'[p] = doing[p] /\ new.step \in Busy)
    BY DEF TaskTypes
<1>6. \A q \in Runners : q # p /\ doing[q] # NoRun => doing[q] # doing[p]
    BY DEF UnderWay
<1> QED
    BY <1>1, <1>2, <1>3, <1>4, <1>5, <1>6 DEF UnderWay

LEMMA EndWorkOK ==
    ASSUME TaskInv, NEW p \in Runners, EndWork(p)
    PROVE  TaskInv'
<1> USE DEF TaskInv, EndWork
<1> DEFINE r == doing[p]
<1>1. r \in DOMAIN runs /\ runs[r] \in Run /\ runs[r].step \in Busy
    BY DEF UnderWay, TaskTypes
<1>2. PICK outcome \in Outcomes :
          runs' = [runs EXCEPT ![r].step = "records", ![r].outcome = outcome]
    OBVIOUS
<1> DEFINE new == [runs[r] EXCEPT !.step = "records", !.outcome = outcome]
<1>3. new \in Run /\ runs' = [runs EXCEPT ![r] = new]
    BY <1>1, <1>2 DEF Run, TaskTypes
<1>4. new.task = runs[r].task /\ new.found = runs[r].found /\ new.step = "records"
      /\ new.stored = runs[r].stored /\ new.reported = runs[r].reported
    BY <1>1 DEF Run
<1>5. /\ ~ new.stored /\ ~ new.reported /\ new.outcome \in Outcomes
      /\ new.found => latest[new.task] # NoRun
    BY <1>1, <1>4 DEF RunsSoFar, Run
<1> HIDE DEF new
<1>6. UnderWay'
    BY <1>3, <1>4, ProcessGoesOn
<1>7. /\ runs' \in Seq(Run)
      /\ RunsSoFar' /\ FirstReported' /\ SuccessIsStored' /\ QuietIsHealthy' /\ ResultsKept'
    BY <1>1, <1>3, <1>4, <1>5, OnlyBusyChange
<1> QED
    BY <1>6, <1>7 DEF TaskTypes

LEMMA RecordOK ==
    ASSUME TaskInv, NEW p \in Runners, Record(p)
    PROVE  TaskInv'
<1> USE DEF TaskInv, Record
<1> DEFINE r == doing[p]
<1>1. r \in DOMAIN runs /\ runs[r] \in Run /\ runs[r].step = "records"
    BY DEF UnderWay, TaskTypes
<1>2. /\ ~ runs[r].stored /\ ~ runs[r].reported
      /\ runs[r].found => latest[runs[r].task] # NoRun
    BY <1>1 DEF RunsSoFar
<1>3. CASE runs[r].outcome = "broken"
  <2> DEFINE new == [runs[r] EXCEPT !.step = "ended"]
  <2>1. new \in Run /\ runs' = [runs EXCEPT ![r] = new]
      BY <1>1, <1>3 DEF Run
  <2>2. new.task = runs[r].task /\ new.found = runs[r].found /\ new.step = "ended"
        /\ new.stored = runs[r].stored /\ new.reported = runs[r].reported
        /\ new.outcome = "broken"
      BY <1>1, <1>3 DEF Run
  <2> HIDE DEF new
  <2>3. UnderWay' /\ doing' \in [Runners -> Nat \cup {NoRun}]
      BY <1>3, <2>1, <2>2, ProcessGoesOn
  <2>4. /\ runs' \in Seq(Run)
        /\ RunsSoFar' /\ FirstReported' /\ SuccessIsStored' /\ QuietIsHealthy' /\ ResultsKept'
      BY <1>1, <1>2, <2>1, <2>2, OnlyBusyChange
  <2> QED
      BY <2>3, <2>4 DEF TaskTypes
<1>4. CASE runs[r].outcome # "broken"
  <2> DEFINE found == latest[runs[r].task] # NoRun
             new == [runs[r] EXCEPT !.step = "commits", !.at = taskClock, !.found = found]
  <2>1. new \in Run /\ runs' = [runs EXCEPT ![r] = new]
      BY <1>1, <1>4 DEF Run, TaskTypes
  <2>2. new.task = runs[r].task /\ new.step = "commits" /\ new.at = taskClock
        /\ new.found = found
        /\ new.stored = runs[r].stored /\ new.reported = runs[r].reported
        /\ new.outcome = runs[r].outcome
      BY <1>1 DEF Run
  <2>3. new.found => latest[new.task] # NoRun
      BY <2>2
  <2>4. new.outcome \in {"fine", "partial", "failed"}
      <3>1. runs[r].outcome \in Outcomes
          BY <1>1 DEF RunsSoFar
      <3> QED
          BY <1>4, <2>2, <3>1 DEF Outcomes
  <2> HIDE DEF new, found
  <2>5. UnderWay' /\ doing' \in [Runners -> Nat \cup {NoRun}]
      BY <1>4, <2>1, <2>2, ProcessGoesOn
  <2>7. /\ ~ new.stored /\ ~ new.reported
        /\ new.at \in Nat /\ new.at <= taskClock
      BY <1>2, <2>2 DEF TaskTypes
  <2>6. /\ runs' \in Seq(Run)
        /\ RunsSoFar' /\ FirstReported' /\ SuccessIsStored' /\ QuietIsHealthy' /\ ResultsKept'
      BY <1>1, <2>1, <2>2, <2>3, <2>4, <2>7, OnlyBusyChange
  <2> QED
      BY <2>5, <2>6 DEF TaskTypes
<1> QED
    BY <1>3, <1>4

LEMMA KillTaskOK ==
    ASSUME TaskInv, NEW p \in Runners, KillTask(p)
    PROVE  TaskInv'
<1> USE DEF TaskInv, KillTask
<1> DEFINE r == doing[p]
<1>1. r \in DOMAIN runs /\ runs[r] \in Run /\ runs[r].step \in Busy
    BY DEF UnderWay, TaskTypes
<1> DEFINE new == [runs[r] EXCEPT !.step = "killed"]
<1>3. new \in Run /\ runs' = [runs EXCEPT ![r] = new]
    BY <1>1 DEF Run
<1>4. new.task = runs[r].task /\ new.found = runs[r].found /\ new.step = "killed"
      /\ new.stored = runs[r].stored /\ new.reported = runs[r].reported
    BY <1>1 DEF Run
<1>5. /\ ~ new.stored /\ ~ new.reported
      /\ new.found => latest[new.task] # NoRun
    BY <1>1, <1>4 DEF RunsSoFar
<1> HIDE DEF new
<1>6. UnderWay' /\ doing' \in [Runners -> Nat \cup {NoRun}]
    BY <1>3, <1>4, ProcessGoesOn
<1>7. /\ runs' \in Seq(Run)
      /\ RunsSoFar' /\ FirstReported' /\ SuccessIsStored' /\ QuietIsHealthy' /\ ResultsKept'
    BY <1>1, <1>3, <1>4, <1>5, OnlyBusyChange
<1> QED
    BY <1>6, <1>7 DEF TaskTypes

\* The commit: refused, it leaves the table alone and points at the run that inserted
\* the row; accepted, it writes the row of its task.
LEMMA CommitOK ==
    ASSUME TaskInv, NEW p \in Runners, Commit(p)
    PROVE  TaskInv'
<1> USE DEF TaskInv
<1> DEFINE r == doing[p]
           task == runs[r].task
           refused == ~ runs[r].found /\ latest[task] # NoRun
           new == [runs[r] EXCEPT !.step = "ended",
                                  !.stored = ~ refused /\ runs[r].outcome # "failed",
                                  !.reported = ~ refused]
           row == [at |-> runs[r].at, status |-> runs[r].outcome = "fine"]
<1>0. /\ r # NoRun /\ runs[r].step = "commits"
      /\ runs' = [runs EXCEPT ![r].step = "ended",
                              ![r].stored = ~ refused /\ runs[r].outcome # "failed",
                              ![r].reported = ~ refused]
      /\ latest' = IF refused THEN latest ELSE [latest EXCEPT ![task] = row]
      /\ doing' = [doing EXCEPT ![p] = NoRun]
      /\ UNCHANGED <<monitor, silent, taskClock, killed>>
    BY DEF Commit
<1>1. r \in DOMAIN runs /\ runs[r] \in Run /\ runs[r].step = "commits"
  <2>1. r \in DOMAIN runs
      BY <1>0 DEF UnderWay
  <2> QED
      BY <1>0, <2>1 DEF TaskTypes
<1>2. /\ ~ runs[r].stored /\ ~ runs[r].reported
      /\ runs[r].outcome \in {"fine", "partial", "failed"}
      /\ runs[r].at \in Nat /\ runs[r].at <= taskClock
      /\ runs[r].found => latest[task] # NoRun
      /\ task \in Tasks
    BY <1>1 DEF RunsSoFar, Run
<1>3. new \in Run /\ runs' = [runs EXCEPT ![r] = new]
    BY <1>0, <1>1 DEF Run
<1>4. /\ new.task = task /\ new.found = runs[r].found /\ new.step = "ended"
      /\ new.stored = (~ refused /\ runs[r].outcome # "failed")
      /\ new.reported = ~ refused /\ new.outcome = runs[r].outcome /\ new.at = runs[r].at
    BY <1>1 DEF Run
<1>5. row \in [at : Nat, status : BOOLEAN] /\ row # NoRun
  <2>1. \A a \in Nat, b \in BOOLEAN : [at |-> a, status |-> b] \in [at : Nat, status : BOOLEAN]
      OBVIOUS
  <2>2. (runs[r].outcome = "fine") \in BOOLEAN
      BY Zenon
  <2>3. row \in [at : Nat, status : BOOLEAN]
      BY <1>2, <2>1, <2>2, Zenon
  <2> QED
      BY <2>3, TaskRunsAssumption
<1>7. row.at = runs[r].at /\ (row.status <=> runs[r].outcome = "fine")
    OBVIOUS
<1> HIDE DEF new, row, refused
<1>8. /\ DOMAIN runs' = DOMAIN runs
      /\ \A i \in DOMAIN runs : runs'[i] = IF i = r THEN new ELSE runs[i]
      /\ runs' \in Seq(Run)
    BY <1>1, <1>3 DEF TaskTypes
<1>9. /\ latest' \in [Tasks -> [at : Nat, status : BOOLEAN] \cup {NoRun}]
      /\ \A t \in Tasks : latest'[t] = IF t = task /\ ~ refused THEN row ELSE latest[t]
      /\ \A t \in Tasks : latest[t] # NoRun => latest'[t] # NoRun
    BY <1>2, <1>5, <1>0 DEF TaskTypes
<1>10. UnderWay' /\ doing' \in [Runners -> Nat \cup {NoRun}]
    BY <1>3, <1>0, ProcessGoesOn
<1>11. TaskTypes'
    BY SMTT(30), <1>0, <1>8, <1>9, <1>10 DEF TaskTypes
<1>12. RunsSoFar'
  <2>1. \A i \in DOMAIN runs : runs[i].task \in Tasks
    <3>1. \A thisRun \in Run : thisRun.task \in Tasks
        BY DEF Run
    <3> QED
        BY <3>1 DEF TaskTypes
  <2> SUFFICES ASSUME NEW i \in DOMAIN runs
               PROVE  /\ runs'[i].step \in Busy => ~ runs'[i].stored /\ ~ runs'[i].reported
                      /\ runs'[i].step = "records" => runs'[i].outcome \in Outcomes
                      /\ runs'[i].step = "commits" =>
                            /\ runs'[i].outcome \in {"fine", "partial", "failed"}
                            /\ runs'[i].at \in Nat /\ runs'[i].at <= taskClock'
                      /\ runs'[i].found => latest'[runs'[i].task] # NoRun
      BY Zenon, <1>8 DEF RunsSoFar
  <2>2. CASE i = r
    <3>1. runs'[i] = new /\ new.step \notin Busy
        BY <1>4, <1>8, <2>2 DEF Busy
    <3>2. new.found => latest'[new.task] # NoRun
        BY <1>2, <1>4, <1>9
    <3> QED
        BY <1>4, <3>1, <3>2
  <2>3. CASE i # r
    <3>1. runs'[i] = runs[i]
        BY <1>8, <2>3
    <3>2. runs[i].found => latest'[runs[i].task] # NoRun
        BY <1>9, <2>1 DEF RunsSoFar
    <3> QED
        BY <1>0, <3>1, <3>2 DEF RunsSoFar
  <2> QED
      BY <2>2, <2>3
<1>13. FirstReported'
  <2> SUFFICES ASSUME NEW t \in Tasks, latest'[t] # NoRun
               PROVE  \E j \in DOMAIN runs :
                          runs'[j].task = t /\ runs'[j].reported /\ ~ runs'[j].found
      BY <1>8 DEF FirstReported
  <2>1. CASE latest[t] # NoRun
      BY <1>2, <1>8, <2>1 DEF FirstReported
  <2>2. CASE latest[t] = NoRun
    <3>1. t = task /\ ~ refused
        BY <1>9, <2>2
    <3>2. ~ runs[r].found
        BY <1>2, <2>2, <3>1
    <3> QED
        BY <1>1, <1>4, <1>8, <3>1, <3>2
  <2> QED
      BY <2>1, <2>2
<1>14. SuccessIsStored'
  <2> SUFFICES ASSUME NEW t \in Tasks, latest'[t] # NoRun
               PROVE  /\ latest'[t].at <= taskClock'
                      /\ latest'[t].status =>
                            \E j \in DOMAIN runs' :
                                /\ runs'[j].task = t /\ runs'[j].step = "ended"
                                /\ runs'[j].outcome = "fine" /\ runs'[j].stored
                                /\ runs'[j].at = latest'[t].at
      BY Zenon DEF SuccessIsStored
  <2>1. CASE t = task /\ ~ refused
      BY <1>0, <1>1, <1>2, <1>4, <1>7, <1>8, <1>9, <2>1
  <2>2. CASE ~ (t = task /\ ~ refused)
    <3>1. latest'[t] = latest[t]
        BY <1>9, <2>2
    <3>2. latest[t].at <= taskClock
        BY <3>1 DEF SuccessIsStored
    <3>3. ASSUME latest[t].status
          PROVE  \E j \in DOMAIN runs' :
                     /\ runs'[j].task = t /\ runs'[j].step = "ended"
                     /\ runs'[j].outcome = "fine" /\ runs'[j].stored
                     /\ runs'[j].at = latest[t].at
      <4>1. PICK j \in DOMAIN runs :
                /\ runs[j].task = t /\ runs[j].step = "ended"
                /\ runs[j].outcome = "fine" /\ runs[j].stored
                /\ runs[j].at = latest[t].at
          BY <3>1, <3>3 DEF SuccessIsStored
      <4>2. j # r
          BY SMTT(30), <1>2, <4>1
      <4> QED
          BY <1>8, <4>1, <4>2
    <3>4. latest'[t].at <= taskClock'
        BY <1>0, <3>1, <3>2
    <3> QED
        BY <3>1, <3>3, <3>4
  <2> QED
      BY <2>1, <2>2
<1>15. QuietIsHealthy'
    BY <1>2, <1>0, <1>8 DEF QuietIsHealthy
<1>16. ResultsKept'
  <2> SUFFICES ASSUME NEW i \in DOMAIN runs
               PROVE  /\ runs'[i].step = "ended" /\ runs'[i].outcome \in {"fine", "partial"}
                           => \/ runs'[i].stored
                              \/ \E j \in DOMAIN runs \ {i} :
                                    /\ runs'[j].task = runs'[i].task /\ runs'[j].reported
                                    /\ ~ runs'[i].found /\ ~ runs'[j].found
                      /\ runs'[i].outcome \in {"failed", "broken"} => ~ runs'[i].stored
      BY <1>8 DEF ResultsKept
  <2>1. CASE i = r /\ ~ refused
      BY <1>2, <1>4, <1>8, <2>1
  <2>2. CASE i = r /\ refused
    <3>1. ~ runs[r].found /\ latest[task] # NoRun
        BY <2>2 DEF refused
    <3>2. PICK j \in DOMAIN runs :
              runs[j].task = task /\ runs[j].reported /\ ~ runs[j].found
        BY <1>2, <3>1 DEF FirstReported
    <3>3. j # r
        BY <1>2, <3>2
    <3> QED
        BY ZenonT(30), <1>2, <1>4, <1>8, <2>2, <3>1, <3>2, <3>3
  <2>3. CASE i # r
      BY <1>2, <1>8, <2>3 DEF ResultsKept
  <2> QED
      BY <2>1, <2>2, <2>3
<1> QED
    BY <1>10, <1>11, <1>12, <1>13, <1>14, <1>15, <1>16

LEMMA StartPassOK ==
    ASSUME TaskInv, StartPass
    PROVE  TaskInv'
<1> USE DEF TaskInv, StartPass
<1>1. TaskTypes'
    BY DEF TaskTypes
<1>2. UnderWay' /\ RunsSoFar' /\ FirstReported' /\ SuccessIsStored' /\ ResultsKept'
    BY DEF UnderWay, RunsSoFar, FirstReported, SuccessIsStored, ResultsKept
<1>3. QuietIsHealthy'
    BY DEF QuietIsHealthy
<1> QED
    BY <1>1, <1>2, <1>3

\* The monitor is silent about a task only after it read a row of a recent success.
LEMMA CheckTaskOK ==
    ASSUME TaskInv, CheckTask, monitor \in DOMAIN Listed
    PROVE  TaskInv'
<1> USE DEF TaskInv
<1> DEFINE task == Listed[monitor]
           thisRun == latest[task]
           quiet == [task |-> task, at |-> taskClock]
<1>1. /\ silent' = IF thisRun # NoRun /\ Healthy(thisRun) THEN silent \cup {quiet} ELSE silent
      /\ monitor' = IF thisRun # NoRun /\ monitor < Len(Listed) THEN monitor + 1 ELSE 0
      /\ UNCHANGED <<latest, runs, doing, taskClock, killed>>
    BY DEF CheckTask
<1>2. task \in Tasks /\ quiet \in [task : Tasks, at : Nat]
    BY DEF TaskTypes, Tasks
<1>3. TaskTypes'
    BY <1>1, <1>2 DEF TaskTypes
<1>4. UnderWay' /\ RunsSoFar' /\ FirstReported' /\ SuccessIsStored' /\ ResultsKept'
    BY <1>1 DEF UnderWay, RunsSoFar, FirstReported, SuccessIsStored, ResultsKept
<1>5. ASSUME thisRun # NoRun, Healthy(thisRun)
      PROVE  \E i \in DOMAIN runs :
                 /\ runs[i].task = quiet.task /\ runs[i].step = "ended"
                 /\ runs[i].outcome = "fine" /\ runs[i].stored
                 /\ runs[i].at \in Nat
                 /\ quiet.at - Interval <= runs[i].at /\ runs[i].at <= quiet.at
  <2>1. thisRun \in [at : Nat, status : BOOLEAN] /\ thisRun.at <= taskClock
      BY <1>2, <1>5 DEF TaskTypes, SuccessIsStored
  <2>2. thisRun.at >= taskClock - Interval /\ thisRun.status
      BY <1>5 DEF Healthy
  <2>3. PICK i \in DOMAIN runs :
            /\ runs[i].task = task /\ runs[i].step = "ended"
            /\ runs[i].outcome = "fine" /\ runs[i].stored
            /\ runs[i].at = thisRun.at
      BY <1>2, <1>5, <2>2 DEF SuccessIsStored
  <2>4. taskClock - Interval <= thisRun.at /\ thisRun.at \in Nat
      BY <2>1, <2>2, TaskRunsAssumption DEF TaskTypes
  <2> QED
      BY <2>1, <2>3, <2>4
<1>6. QuietIsHealthy'
  <2> HIDE DEF quiet, thisRun
  <2>1. \A q \in silent' : q \in silent \/ (thisRun # NoRun /\ Healthy(thisRun) /\ q = quiet)
      BY <1>1
  <2> QED
      BY <1>1, <1>5, <2>1 DEF QuietIsHealthy
<1> QED
    BY <1>3, <1>4, <1>6

LEMMA PassTaskTimeOK ==
    ASSUME TaskInv, PassTaskTime
    PROVE  TaskInv'
<1> USE DEF TaskInv, PassTaskTime
<1>1. taskClock \in Nat /\ taskClock' = taskClock + 1 /\ TaskTypes'
    BY DEF TaskTypes
<1>2. UnderWay' /\ FirstReported' /\ QuietIsHealthy' /\ ResultsKept'
    BY DEF UnderWay, FirstReported, QuietIsHealthy, ResultsKept
<1>3. RunsSoFar'
    BY <1>1 DEF RunsSoFar
<1>4. SuccessIsStored'
  <2>1. \A t \in Tasks : latest[t] # NoRun => latest[t].at \in Nat
      BY DEF TaskTypes
  <2> QED
      BY <1>1, <2>1 DEF SuccessIsStored
<1> QED
    BY <1>1, <1>2, <1>3, <1>4

\* The place of the monitor in its list.
Place == monitor \in 0..Len(Listed)

\* The pass of the monitor is at one of the tasks, or between two passes.
LEMMA PlaceOK ==
    /\ TInit => Place
    /\ Place /\ [TNext]_tvars => Place'
<1> USE TaskRunsAssumption DEF Place
<1>1. Len(Listed) \in Nat \ {0}
    OBVIOUS
<1>2. TInit => Place
    BY <1>1 DEF TInit
<1>3. ASSUME Place, [TNext]_tvars PROVE Place'
  <2>1. CASE StartPass
      BY <1>1, <2>1 DEF StartPass
  <2>2. CASE CheckTask
      BY <1>1, <1>3, <2>2 DEF CheckTask
  <2>3. CASE UNCHANGED monitor
      BY <1>3, <2>3
  <2> QED
      BY Zenon, <1>3, <2>1, <2>2, <2>3
         DEF TNext, StartTask, EndWork, Record, Commit, KillTask, PassTaskTime, tvars
<1> QED
    BY <1>2, <1>3

LEMMA StepOK == TaskInv /\ Place /\ [TNext]_tvars => TaskInv'
<1> SUFFICES ASSUME TaskInv, Place, [TNext]_tvars PROVE TaskInv'
    OBVIOUS
<1>1. ASSUME NEW p \in Runners, NEW t \in Tasks, StartTask(p, t) PROVE TaskInv'
    BY <1>1, StartTaskOK DEF Tasks
<1>2. ASSUME NEW p \in Runners, EndWork(p) PROVE TaskInv'
    BY <1>2, EndWorkOK
<1>3. ASSUME NEW p \in Runners, Record(p) PROVE TaskInv'
    BY <1>3, RecordOK
<1>4. ASSUME NEW p \in Runners, Commit(p) PROVE TaskInv'
    BY <1>4, CommitOK
<1>5. ASSUME NEW p \in Runners, KillTask(p) PROVE TaskInv'
    BY <1>5, KillTaskOK
<1>6. CASE StartPass
    BY <1>6, StartPassOK
<1>7. CASE CheckTask
  <2>1. monitor \in DOMAIN Listed
      BY <1>7, TaskRunsAssumption DEF Place, CheckTask
  <2> QED
      BY <1>7, <2>1, CheckTaskOK
<1>8. CASE PassTaskTime
    BY <1>8, PassTaskTimeOK
<1>9. CASE UNCHANGED tvars
    BY <1>9 DEF tvars, TaskInv, TaskTypes, UnderWay, RunsSoFar, FirstReported, SuccessIsStored,
                QuietIsHealthy, ResultsKept
<1> QED
    BY <1>1, <1>2, <1>3, <1>4, <1>5, <1>6, <1>7, <1>8, <1>9 DEF TNext

LEMMA Inductive == TSpec => []TaskInv
<1>1. TInit => TaskInv /\ Place
    BY TaskInitOK, PlaceOK
<1>2. TaskInv /\ Place /\ [TNext]_tvars => (TaskInv /\ Place)'
    BY StepOK, PlaceOK
<1> QED
    BY <1>1, <1>2, PTL DEF TSpec

-----------------------------------------------------------------------------

\* Results that can be stored are stored, whatever becomes of the report, but for the
\* race of two first runs; a failed run stores nothing.
THEOREM TaskResultsKept == TSpec => []ResultsKept
<1>1. TaskInv => ResultsKept
    BY DEF TaskInv
<1> QED
    BY <1>1, Inductive, PTL

\* A task the monitor is silent about did run successfully not longer ago than allowed.
THEOREM SilentTasksAreHealthy == TSpec => []SilenceMeansHealthy
<1>1. TaskInv => SilenceMeansHealthy
    BY DEF TaskInv, QuietIsHealthy, SilenceMeansHealthy
<1> QED
    BY <1>1, Inductive, PTL

-----------------------------------------------------------------------------
(* The monitor of absent users.                                            *)

Entry == [user : Users, seen : Nat]

Pass == [selected : Nat, recorded : Nat \cup {NeverRun}]

UserTypes ==
    /\ lastSeen \in [Users -> Nat]
    /\ recorded \in Nat \cup {NeverRun}
    /\ run \in [step : {"none", "mails", "records"}, newly : BOOLEAN,
                selectedAt : Nat, chosen : SUBSET Entry]
    /\ alerts \in Seq([newly : BOOLEAN, about : SUBSET Entry])
    /\ passes \in Seq(Pass)
    /\ userClock \in Nat
    /\ aborts \in Nat

\* Nothing lies in the future, and the last record is one of some run.
InOrder ==
    /\ \A u \in Users : lastSeen[u] <= userClock
    /\ run.step = "none" => run = NotRunning
    /\ run.selectedAt <= userClock
    /\ \A e \in run.chosen : e.seen + Delta < run.selectedAt
    /\ \A i \in DOMAIN passes : passes[i].selected <= userClock
    /\ recorded # NeverRun =>
          recorded <= userClock /\ \E j \in DOMAIN passes : passes[j].recorded = recorded

NewAlerts(e) == {i \in DOMAIN alerts : e \in alerts[i].about /\ alerts[i].newly}

Chasing(e) == run.newly /\ e \in run.chosen

\* Alerts about one absence are paid for by killed runs, but for one; that one leaves
\* a record behind, or its run is about to.
Paid ==
    \A e \in Entry :
        LET count == Cardinality(NewAlerts(e))
        IN /\ count \in Nat
           /\ run.step = "mails" /\ Chasing(e) => count <= aborts
           /\ \/ count <= aborts
              \/ /\ count <= 1 + aborts
                 /\ \/ run.step = "records" /\ Chasing(e)
                    \/ recorded # NeverRun /\ e.seen + Delta <= recorded

Alerted(u) == AlertsAbout(u, lastSeen[u]) # {}

Overtaken(u, j) ==
    /\ passes[j].recorded # NeverRun
    /\ passes[j].selected <= lastSeen[u] + Delta
    /\ lastSeen[u] + Delta <= passes[j].recorded

\* A run accounts for those absent when it selected users.
Accounted ==
    /\ run.step # "none" =>
          \A u \in Users : lastSeen[u] + Delta < run.selectedAt =>
              \/ [user |-> u, seen |-> lastSeen[u]] \in run.chosen
              \/ Alerted(u)
              \/ \E j \in DOMAIN passes : Overtaken(u, j)
    /\ run.step = "records" =>
          \A e \in run.chosen : AlertsAbout(e.user, e.seen) # {}

UserInv == UserTypes /\ InOrder /\ Paid /\ Accounted /\ NobodyMissed

-----------------------------------------------------------------------------

\* Any set of numbers up to n is finite.
LEMMA FiniteRange ==
    ASSUME NEW n \in Nat, NEW S \in SUBSET (1..n)
    PROVE  IsFiniteSet(S)
<1>1. IsFiniteSet(1..n)
    BY FS_Interval
<1> QED
    BY <1>1, FS_Subset

LEMMA UserInitOK == UInit => UserInv
<1> SUFFICES ASSUME UInit PROVE UserInv
    OBVIOUS
<1> USE UserMonitorAssumption DEF UInit, NotRunning
<1>1. UserTypes
    BY DEF UserTypes
<1>2. InOrder
    BY DEF InOrder, NotRunning
<1>3. Paid
  <2> SUFFICES ASSUME NEW e \in Entry
               PROVE  Cardinality(NewAlerts(e)) = 0
      BY DEF Paid, Chasing
  <2>1. NewAlerts(e) = {}
      BY DEF NewAlerts
  <2> QED
      BY <2>1, FS_EmptySet
<1>4. Accounted /\ NobodyMissed
    BY DEF Accounted, NobodyMissed
<1> QED
    BY <1>1, <1>2, <1>3, <1>4 DEF UserInv

\* Nobody to be told about has had an alert that is not paid for.
LEMMA ChosenArePaidFor ==
    ASSUME UserInv, run = NotRunning, NEW e \in Chosen(TRUE)
    PROVE  e \in Entry /\ Cardinality(NewAlerts(e)) <= aborts
<1> USE UserMonitorAssumption DEF UserInv
<1>1. PICK u \in NewlyAbsent : e = [user |-> u, seen |-> lastSeen[u]]
    BY DEF Chosen
<1>2. /\ u \in Users /\ e.seen = lastSeen[u] /\ e \in Entry
      /\ recorded # NeverRun => e.seen + Delta > recorded
    BY <1>1 DEF NewlyAbsent, Absent, UserTypes, Entry
<1>3. run.step = "none"
    BY DEF NotRunning
<1>4. recorded \in Nat \/ recorded = NeverRun
    BY DEF UserTypes
<1>5. e.seen + Delta \in Nat
    BY <1>1, <1>2 DEF UserTypes
<1>6. ~ (recorded # NeverRun /\ e.seen + Delta <= recorded)
    BY <1>2, <1>4, <1>5
<1> QED
    BY <1>2, <1>3, <1>6 DEF Paid

\* Whoever is absent now will be told about, has been, or fell between two runs.
LEMMA AbsentAreAccountedFor ==
    ASSUME UserInv, NEW newly \in BOOLEAN, NEW u \in Users,
           lastSeen[u] + Delta < userClock
    PROVE  \/ [user |-> u, seen |-> lastSeen[u]] \in Chosen(newly)
           \/ Alerted(u)
           \/ \E j \in DOMAIN passes : Overtaken(u, j)
<1> USE UserMonitorAssumption DEF UserInv
<1>1. lastSeen[u] \in Nat /\ userClock \in Nat
    BY DEF UserTypes
<1>2. u \in Absent
    BY <1>1 DEF Absent
<1>3. CASE ~ newly \/ u \in NewlyAbsent
    BY <1>2, <1>3 DEF Chosen
<1>4. CASE newly /\ u \notin NewlyAbsent
  <2>1. recorded # NeverRun /\ recorded \in Nat /\ lastSeen[u] + Delta <= recorded
      BY <1>1, <1>2, <1>4 DEF NewlyAbsent, UserTypes
  <2>2. PICK j \in DOMAIN passes : passes[j].recorded = recorded
      BY <2>1 DEF InOrder
  <2>0. passes[j] \in Pass
      BY DEF UserTypes
  <2>3. passes[j].selected \in Nat
      BY <2>0 DEF Pass
  <2>4. CASE passes[j].selected <= lastSeen[u] + Delta
      BY <2>1, <2>2, <2>4 DEF Overtaken
  <2>5. CASE lastSeen[u] + Delta < passes[j].selected
      BY <2>5 DEF NobodyMissed, Alerted, Overtaken
  <2> QED
      BY <1>1, <2>3, <2>4, <2>5
<1> QED
    BY <1>3, <1>4

\* A run that came to an end is added to those before it.
LEMMA PassAdded ==
    ASSUME UserInv, NEW pass \in Pass, passes' = Append(passes, pass),
           UNCHANGED <<lastSeen, alerts>>,
           \A u \in Users : lastSeen[u] + Delta < pass.selected =>
               Alerted(u) \/ \E j \in DOMAIN passes : Overtaken(u, j)
    PROVE  NobodyMissed'
<1> USE UserMonitorAssumption DEF UserInv
<1>1. /\ Len(passes) \in Nat /\ DOMAIN passes = 1..Len(passes)
      /\ DOMAIN passes' = 1..Len(passes) + 1
      /\ passes'[Len(passes) + 1] = pass
      /\ \A i \in DOMAIN passes : passes'[i] = passes[i]
    BY DEF UserTypes
<1>2. SUFFICES ASSUME NEW u \in Users, NEW i \in DOMAIN passes',
                      lastSeen[u] + Delta < passes'[i].selected,
                      AlertsAbout(u, lastSeen[u]) = {}
               PROVE  \E j \in DOMAIN passes : j < i /\ Overtaken(u, j)
    BY <1>1 DEF NobodyMissed, Overtaken, AlertsAbout
<1>3. CASE i \in DOMAIN passes
    BY <1>1, <1>2, <1>3 DEF NobodyMissed, Overtaken
<1>4. CASE i = Len(passes) + 1
    BY <1>1, <1>2, <1>4 DEF Alerted
<1> QED
    BY <1>1, <1>3, <1>4

LEMMA SelectOK ==
    ASSUME UserInv, NEW newly \in BOOLEAN, Select(newly)
    PROVE  UserInv'
<1> USE UserMonitorAssumption DEF UserInv, Select
<1>1. \A e \in Chosen(newly) :
          e \in Entry /\ e.seen + Delta < userClock
    BY DEF Chosen, NewlyAbsent, Absent, UserTypes, Entry
<1>2. CASE Chosen(newly) = {}
  <2> DEFINE pass == [selected |-> userClock, recorded |-> NeverRun]
  <2>1. pass \in Pass /\ passes' = Append(passes, pass)
      BY <1>2 DEF Pass, UserTypes
  <2>2. /\ Len(passes) \in Nat /\ DOMAIN passes' = 1..Len(passes) + 1
        /\ passes' \in Seq(Pass)
        /\ DOMAIN passes = 1..Len(passes)
        /\ passes'[Len(passes) + 1] = pass
        /\ \A i \in DOMAIN passes : passes'[i] = passes[i]
      BY <2>1 DEF UserTypes
  <2>3. UNCHANGED run
      BY <1>2
  <2>4. UserTypes'
      BY <2>2, <2>3 DEF UserTypes
  <2>5. InOrder'
    <3>1. \A i \in DOMAIN passes' : passes'[i].selected <= userClock
        BY SMTT(30), <2>2 DEF InOrder, UserTypes
    <3>2. recorded # NeverRun => \E j \in DOMAIN passes' : passes'[j].recorded = recorded
        BY <2>2 DEF InOrder
    <3> QED
        BY <2>3, <3>1, <3>2 DEF InOrder, NotRunning
  <2>6. Paid'
      BY <2>3 DEF Paid, NewAlerts, Chasing
  <2>7. Accounted'
      BY <2>3 DEF Accounted, NotRunning
  <2>8. NobodyMissed'
    <3>1. \A u \in Users : lastSeen[u] + Delta < pass.selected =>
              Alerted(u) \/ \E j \in DOMAIN passes : Overtaken(u, j)
        BY <1>2, AbsentAreAccountedFor
    <3> QED
        BY <2>1, <3>1, PassAdded
  <2> QED
      BY <2>4, <2>5, <2>6, <2>7, <2>8
<1>3. CASE Chosen(newly) # {}
  <2>1. run' = [step |-> "mails", newly |-> newly,
                selectedAt |-> userClock, chosen |-> Chosen(newly)]
      BY <1>3
  <2>2. UNCHANGED <<lastSeen, recorded, alerts, passes, userClock, aborts>>
      BY <1>3
  <2>3. UserTypes'
      BY <1>1, <2>1, <2>2 DEF UserTypes
  <2>4. InOrder'
      BY <1>1, <2>1, <2>2 DEF InOrder, UserTypes, NotRunning
  <2>5. Paid'
    <3> SUFFICES ASSUME NEW e \in Entry
                 PROVE  /\ Cardinality(NewAlerts(e)) \in Nat
                        /\ newly /\ e \in Chosen(newly) => Cardinality(NewAlerts(e)) <= aborts
                        /\ \/ Cardinality(NewAlerts(e)) <= aborts
                           \/ /\ Cardinality(NewAlerts(e)) <= 1 + aborts
                              /\ recorded # NeverRun /\ e.seen + Delta <= recorded
        BY <2>1, <2>2 DEF Paid, NewAlerts, Chasing
    <3>1. newly /\ e \in Chosen(newly) => Cardinality(NewAlerts(e)) <= aborts
        BY ChosenArePaidFor
    <3>2. run.step = "none"
        BY DEF NotRunning
    <3> QED
        BY <3>1, <3>2 DEF Paid
  <2>6. Accounted'
    <3> SUFFICES ASSUME NEW u \in Users, lastSeen[u] + Delta < userClock
                 PROVE  \/ [user |-> u, seen |-> lastSeen[u]] \in Chosen(newly)
                        \/ Alerted(u)
                        \/ \E j \in DOMAIN passes : Overtaken(u, j)
        BY <2>1, <2>2 DEF Accounted, Alerted, AlertsAbout, Overtaken
    <3> QED
        BY AbsentAreAccountedFor
  <2>7. NobodyMissed'
      BY <2>2 DEF NobodyMissed, AlertsAbout
  <2> QED
      BY <2>3, <2>4, <2>5, <2>6, <2>7
<1> QED
    BY <1>2, <1>3

LEMMA MailOK ==
    ASSUME UserInv, Mail
    PROVE  UserInv'
<1> USE DEF UserInv, Mail
<1> DEFINE alert == [newly |-> run.newly, about |-> run.chosen]
           next == Len(alerts) + 1
<1>1. /\ alert \in [newly : BOOLEAN, about : SUBSET Entry]
      /\ run' = [step |-> "records", newly |-> run.newly,
                 selectedAt |-> run.selectedAt, chosen |-> run.chosen]
    BY DEF UserTypes
<1>2. /\ alerts' \in Seq([newly : BOOLEAN, about : SUBSET Entry])
      /\ Len(alerts) \in Nat /\ DOMAIN alerts = 1..Len(alerts)
      /\ DOMAIN alerts' = 1..next
      /\ alerts'[next] = alert
      /\ \A i \in DOMAIN alerts : alerts'[i] = alerts[i]
    BY <1>1 DEF UserTypes
<1>3. UserTypes'
    BY <1>1, <1>2 DEF UserTypes
<1>4. InOrder'
    BY <1>1 DEF InOrder, NotRunning
<1>5. ASSUME NEW u, NEW seen, AlertsAbout(u, seen) # {}
      PROVE  AlertsAbout(u, seen)' # {}
  <2>1. PICK i \in DOMAIN alerts : [user |-> u, seen |-> seen] \in alerts[i].about
      BY <1>5 DEF AlertsAbout
  <2>2. i \in DOMAIN alerts' /\ [user |-> u, seen |-> seen] \in alerts'[i].about
      BY <1>2, <2>1
  <2> QED
      BY <2>2 DEF AlertsAbout
<1>6. Paid'
  <2> SUFFICES ASSUME NEW e \in Entry
               PROVE  LET count == Cardinality(NewAlerts(e)')
                      IN /\ count \in Nat
                         /\ \/ count <= aborts
                            \/ /\ count <= 1 + aborts
                               /\ \/ Chasing(e)
                                  \/ recorded # NeverRun /\ e.seen + Delta <= recorded
      BY <1>1 DEF Paid, Chasing
  <2>1. NewAlerts(e) \subseteq 1..Len(alerts)
      BY <1>2 DEF NewAlerts
  <2>2. IsFiniteSet(NewAlerts(e))
      BY <1>2, <2>1, FiniteRange
  <2>3. next \notin NewAlerts(e)
      BY <1>2, <2>1
  <2>4. Cardinality(NewAlerts(e)) \in Nat /\ aborts \in Nat
      BY DEF Paid, UserTypes
  <2>5. CASE Chasing(e)
    <3>1. NewAlerts(e)' = NewAlerts(e) \cup {next}
        BY <1>2, <2>5 DEF NewAlerts, Chasing
    <3>2. Cardinality(NewAlerts(e)') = Cardinality(NewAlerts(e)) + 1
        BY <2>2, <2>3, <3>1, FS_AddElement
    <3>3. Cardinality(NewAlerts(e)) <= aborts
        BY <2>5 DEF Paid
    <3> QED
        BY <2>4, <2>5, <3>2, <3>3
  <2>6. CASE ~ Chasing(e)
    <3>1. NewAlerts(e)' = NewAlerts(e)
        BY <1>2, <2>6 DEF NewAlerts, Chasing
    <3> QED
        BY <2>6, <3>1 DEF Paid
  <2> QED
      BY <2>5, <2>6
<1>7. Accounted'
  <2>1. ASSUME NEW e \in run.chosen
        PROVE  AlertsAbout(e.user, e.seen)' # {}
    <3>1. e = [user |-> e.user, seen |-> e.seen]
        BY DEF UserTypes, Entry
    <3>2. next \in AlertsAbout(e.user, e.seen)'
        BY <1>2, <3>1 DEF AlertsAbout
    <3> QED
        BY <3>2
  <2>2. ASSUME NEW u \in Users, lastSeen[u] + Delta < run.selectedAt
        PROVE  \/ [user |-> u, seen |-> lastSeen[u]] \in run.chosen
               \/ AlertsAbout(u, lastSeen[u])' # {}
               \/ \E j \in DOMAIN passes : Overtaken(u, j)
      BY <1>5, <2>2 DEF Accounted, Alerted
  <2>3. run'.step = "records" /\ run'.chosen = run.chosen /\ run'.selectedAt = run.selectedAt
      BY <1>1
  <2>4. \A u \in Users : Alerted(u)' <=> AlertsAbout(u, lastSeen[u])' # {}
      BY DEF Alerted, AlertsAbout
  <2>5. \A u \in Users : \A j : Overtaken(u, j)' <=> Overtaken(u, j)
      BY DEF Overtaken
  <2>6. \A e \in run'.chosen : AlertsAbout(e.user, e.seen)' # {}
      BY <2>1, <2>3
  <2>7. \A u \in Users : lastSeen'[u] + Delta < run'.selectedAt =>
              \/ [user |-> u, seen |-> lastSeen'[u]] \in run'.chosen
              \/ Alerted(u)'
              \/ \E j \in DOMAIN passes' : Overtaken(u, j)'
      BY <2>2, <2>3, <2>4, <2>5
  <2> QED
      BY <2>6, <2>7 DEF Accounted, AlertsAbout
<1>8. NobodyMissed'
    BY <1>5 DEF NobodyMissed, AlertsAbout
<1> QED
    BY <1>3, <1>4, <1>6, <1>7, <1>8

LEMMA RecordRunOK ==
    ASSUME UserInv, RecordRun
    PROVE  UserInv'
<1> USE UserMonitorAssumption DEF UserInv, RecordRun
<1> DEFINE pass == [selected |-> run.selectedAt, recorded |-> userClock]
<1>1. pass \in Pass
    BY DEF Pass, UserTypes
<1>2. /\ Len(passes) \in Nat /\ DOMAIN passes = 1..Len(passes)
      /\ DOMAIN passes' = 1..Len(passes) + 1
      /\ passes' \in Seq(Pass)
      /\ passes'[Len(passes) + 1] = pass
      /\ \A i \in DOMAIN passes : passes'[i] = passes[i]
    BY <1>1 DEF UserTypes
<1>3. UserTypes'
    BY <1>2 DEF UserTypes, NotRunning
<1>4. InOrder'
  <2>1. \A i \in DOMAIN passes' : passes'[i].selected <= userClock
      BY <1>2 DEF InOrder
  <2>2. \E j \in DOMAIN passes' : passes'[j].recorded = recorded'
      BY <1>2
  <2> QED
      BY <2>1, <2>2 DEF InOrder, NotRunning, UserTypes
<1>5. Paid'
  <2> SUFFICES ASSUME NEW e \in Entry
               PROVE  LET count == Cardinality(NewAlerts(e))
                      IN /\ count \in Nat
                         /\ \/ count <= aborts
                            \/ count <= 1 + aborts /\ e.seen + Delta <= userClock
      BY DEF Paid, NewAlerts, Chasing, NotRunning, UserTypes
  <2>1. Chasing(e) => e.seen + Delta <= userClock
      BY DEF Chasing, InOrder, UserTypes, Entry
  <2>2. recorded # NeverRun /\ e.seen + Delta <= recorded => e.seen + Delta <= userClock
      BY DEF InOrder, UserTypes, Entry
  <2> QED
      BY <2>1, <2>2 DEF Paid
<1>6. Accounted'
    BY DEF Accounted, NotRunning
<1>7. NobodyMissed'
  <2>1. ASSUME NEW u \in Users, lastSeen[u] + Delta < run.selectedAt
        PROVE  Alerted(u) \/ \E j \in DOMAIN passes : Overtaken(u, j)
      BY <2>1 DEF Accounted, Alerted
  <2> QED
      BY <1>1, <2>1, PassAdded
<1> QED
    BY <1>3, <1>4, <1>5, <1>6, <1>7

LEMMA KillRunOK ==
    ASSUME UserInv, KillRun
    PROVE  UserInv'
<1> USE DEF UserInv, KillRun
<1>1. UserTypes'
    BY DEF UserTypes, NotRunning
<1>2. InOrder'
    BY DEF InOrder, NotRunning, UserTypes
<1>3. Paid'
  <2>1. \A e \in Entry : NewAlerts(e)' = NewAlerts(e) /\ ~ Chasing(e)'
      BY DEF NewAlerts, Chasing, NotRunning
  <2>2. aborts \in Nat /\ aborts' = aborts + 1
      BY DEF UserTypes
  <2>3. \A e \in Entry : Cardinality(NewAlerts(e)) \in Nat
                          /\ Cardinality(NewAlerts(e)) <= 1 + aborts
      BY <2>2 DEF Paid
  <2>4. \A e \in Entry : Cardinality(NewAlerts(e)) <= aborts'
      BY <2>2, <2>3
  <2> QED
      BY <2>1, <2>3, <2>4 DEF Paid, NotRunning
<1>4. Accounted'
    BY DEF Accounted, NotRunning
<1>5. NobodyMissed'
    BY DEF NobodyMissed, AlertsAbout
<1> QED
    BY <1>1, <1>2, <1>3, <1>4, <1>5

LEMMA RequestOK ==
    ASSUME UserInv, NEW v \in Users, Request(v)
    PROVE  UserInv'
<1> USE UserMonitorAssumption DEF UserInv, Request
<1>1. UserTypes'
    BY DEF UserTypes
<1>2. InOrder'
    BY DEF InOrder, UserTypes
<1>3. Paid'
    BY DEF Paid, NewAlerts, Chasing
<1>4. \A u \in Users : lastSeen'[u] = IF u = v THEN userClock ELSE lastSeen[u]
    BY DEF UserTypes
<1>5. run.selectedAt <= userClock /\ run.selectedAt \in Nat /\ userClock \in Nat
    BY DEF InOrder, UserTypes
<1>6. Accounted'
  <2>1. \A u \in Users : lastSeen'[u] + Delta < run.selectedAt => u # v
      BY <1>4, <1>5
  <2>2. \A u \in Users : lastSeen'[u] + Delta < run.selectedAt /\ run.step # "none" =>
              \/ [user |-> u, seen |-> lastSeen'[u]] \in run.chosen
              \/ AlertsAbout(u, lastSeen'[u]) # {}
              \/ \E j \in DOMAIN passes :
                    /\ passes[j].recorded # NeverRun
                    /\ passes[j].selected <= lastSeen'[u] + Delta
                    /\ lastSeen'[u] + Delta <= passes[j].recorded
      BY <1>4, <2>1 DEF Accounted, Alerted, Overtaken
  <2> QED
      BY <2>2 DEF Accounted, Alerted, Overtaken, AlertsAbout
<1>7. NobodyMissed'
  <2> SUFFICES ASSUME NEW u \in Users, NEW i \in DOMAIN passes,
                      lastSeen'[u] + Delta < passes[i].selected
               PROVE  \/ AlertsAbout(u, lastSeen'[u]) # {}
                      \/ \E j \in DOMAIN passes :
                            /\ j < i /\ passes[j].recorded # NeverRun
                            /\ passes[j].selected <= lastSeen'[u] + Delta
                            /\ lastSeen'[u] + Delta <= passes[j].recorded
      BY DEF NobodyMissed, AlertsAbout
  <2>0. passes[i] \in Pass
      BY DEF UserTypes
  <2>1. passes[i].selected <= userClock /\ passes[i].selected \in Nat
      BY <2>0 DEF InOrder, Pass
  <2>2. u # v /\ lastSeen'[u] = lastSeen[u]
      BY <1>4, <1>5, <2>1
  <2> QED
      BY <2>2 DEF NobodyMissed
<1> QED
    BY <1>1, <1>2, <1>3, <1>6, <1>7

LEMMA PassUserTimeOK ==
    ASSUME UserInv, PassUserTime
    PROVE  UserInv'
<1> USE DEF UserInv, PassUserTime
<1>1. UserTypes'
    BY DEF UserTypes
<1>2. InOrder'
  <2>1. \A n \in Nat : n <= userClock => n <= userClock'
      BY DEF UserTypes
  <2>2. \A i \in DOMAIN passes : passes[i] \in Pass
      BY DEF UserTypes
  <2>3. \A i \in DOMAIN passes : passes[i].selected \in Nat
      BY <2>2 DEF Pass
  <2> QED
      BY <2>1, <2>3 DEF InOrder, UserTypes, NotRunning
<1>3. Paid' /\ Accounted' /\ NobodyMissed'
    BY DEF Paid, NewAlerts, Chasing, Accounted, Alerted, Overtaken, NobodyMissed,
           AlertsAbout
<1> QED
    BY <1>1, <1>2, <1>3

LEMMA StutterOK ==
    ASSUME UserInv, UNCHANGED uvars
    PROVE  UserInv'
<1> USE DEF UserInv, uvars
<1>1. UserTypes' /\ InOrder'
    BY DEF UserTypes, InOrder, NotRunning
<1>2. Paid' /\ Accounted' /\ NobodyMissed'
    BY DEF Paid, NewAlerts, Chasing, Accounted, Alerted, Overtaken, NobodyMissed,
           AlertsAbout
<1> QED
    BY <1>1, <1>2

LEMMA Invariance == USpec => []UserInv
<1>1. UserInv /\ [UNext]_uvars => UserInv'
    BY SelectOK, MailOK, RecordRunOK, KillRunOK, RequestOK, PassUserTimeOK, StutterOK
       DEF UNext
<1> QED
    BY UserInitOK, <1>1, PTL DEF USpec

\* Once per absence, but for runs killed between mailing and recording (monitor.py
\* keeps no other trace of an alert than the time of its own last run).
THEOREM AlertsArePaidFor == USpec => []AlertedOnce
<1>1. UserInv => AlertedOnce
  <2> SUFFICES ASSUME UserInv, NEW u \in Users, NEW seen \in 0..MaxUserTime
               PROVE  Cardinality({i \in AlertsAbout(u, seen) : alerts[i].newly})
                          <= 1 + aborts
      BY DEF AlertedOnce
  <2> DEFINE e == [user |-> u, seen |-> seen]
  <2>1. e \in Entry
      BY UserMonitorAssumption DEF Entry
  <2>2. {i \in AlertsAbout(u, seen) : alerts[i].newly} = NewAlerts(e)
      BY DEF AlertsAbout, NewAlerts
  <2>3. Cardinality(NewAlerts(e)) \in Nat /\ aborts \in Nat
      BY <2>1 DEF UserInv, Paid, UserTypes
  <2>4. Cardinality(NewAlerts(e)) <= 1 + aborts
      BY <2>1, <2>3 DEF UserInv, Paid
  <2> QED
      BY <2>2, <2>4
<1> QED
    BY Invariance, <1>1, PTL

\* An absence goes unreported only if it began between the query of a run and the
\* record of that run (get_absent_users against latest_task_runs).
THEOREM AbsenceIsReported == USpec => []NobodyMissed
<1>1. UserInv => NobodyMissed
    BY DEF UserInv
<1> QED
    BY Invariance, <1>1, PTL

=============================================================================
