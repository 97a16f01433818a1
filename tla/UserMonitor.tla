------------------------------ MODULE UserMonitor ------------------------------
(***************************************************************************)
(* monitor last-seen: alerts about users whose last request was too long   *)
(* ago, by default once per absence. What was alerted about already is     *)
(* derived from the time of the last recorded run, which is later than the *)
(* time at which that run selected users. Runs of one task name are taken  *)
(* not to overlap.                                                         *)
(***************************************************************************)
EXTENDS Integers, Sequences, FiniteSets

CONSTANTS
    Users,
    Delta,        \* --maximum-minutes-since-last-seen
    MaxUserTime, MaxMonitorRuns, MaxAborts,  \* bounds: clock, runs, killed runs
    NeverRun

ASSUME UserMonitorAssumption ==
    /\ Delta \in Nat /\ MaxUserTime \in Nat /\ MaxMonitorRuns \in Nat
    /\ MaxAborts \in Nat /\ NeverRun \notin Nat

VARIABLES
    lastSeen,   \* when each user made its last request
    recorded,   \* the time in the monitor's own row of latest_task_runs
    run,        \* what the present run is doing, and for whom
    alerts,     \* the alerts sent so far
    passes,     \* of the runs that came to an end: when they selected and recorded
    userClock,
    aborts

uvars == <<lastSeen, recorded, run, alerts, passes, userClock, aborts>>

NotRunning == [step |-> "none", newly |-> TRUE, selectedAt |-> 0, chosen |-> {}]

UInit ==
    /\ lastSeen = [u \in Users |-> 0]
    /\ recorded = NeverRun
    /\ run = NotRunning
    /\ alerts = << >>
    /\ passes = << >>
    /\ userClock = 0
    /\ aborts = 0

-----------------------------------------------------------------------------

\* get_absent_users
Absent == {u \in Users : lastSeen[u] < userClock - Delta}

\* Mutant: those who were seen after the last recorded run.
NewlyAbsentSeen == {u \in Absent : recorded # NeverRun => lastSeen[u] > recorded}

\* Those who became absent after the last recorded run.
NewlyAbsent ==
    {u \in Absent : recorded # NeverRun => lastSeen[u] + Delta > recorded}

Chosen(newly) ==
    {[user |-> u, seen |-> lastSeen[u]] : u \in IF newly THEN NewlyAbsent ELSE Absent}

\* Without users to report the command stops here and records nothing.
Select(newly) ==
    /\ run = NotRunning
    /\ Len(passes) + aborts < MaxMonitorRuns
    /\ IF Chosen(newly) = {}
       THEN /\ passes' = Append(passes, [selected |-> userClock, recorded |-> NeverRun])
            /\ UNCHANGED run
       ELSE /\ run' = [step |-> "mails", newly |-> newly,
                       selectedAt |-> userClock, chosen |-> Chosen(newly)]
            /\ UNCHANGED passes
    /\ UNCHANGED <<lastSeen, recorded, alerts, userClock, aborts>>

\* The alert to the monitoring recipients, one for all users.
Mail ==
    /\ run.step = "mails"
    /\ alerts' = Append(alerts, [newly |-> run.newly, about |-> run.chosen])
    /\ run' = [run EXCEPT !.step = "records"]
    /\ UNCHANGED <<lastSeen, recorded, passes, userClock, aborts>>

\* Mutant: the session is closed without a commit.
RecordRunForgotten ==
    /\ run.step = "records"
    /\ passes' = Append(passes, [selected |-> run.selectedAt, recorded |-> userClock])
    /\ run' = NotRunning
    /\ UNCHANGED <<lastSeen, recorded, alerts, userClock, aborts>>

\* record_run and commit: "remember that we checked at this time".
RecordRun ==
    /\ run.step = "records"
    /\ recorded' = userClock
    /\ passes' = Append(passes, [selected |-> run.selectedAt, recorded |-> userClock])
    /\ run' = NotRunning
    /\ UNCHANGED <<lastSeen, alerts, userClock, aborts>>

KillRun ==
    /\ aborts < MaxAborts
    /\ run # NotRunning
    /\ run' = NotRunning
    /\ aborts' = aborts + 1
    /\ UNCHANGED <<lastSeen, recorded, alerts, passes, userClock>>

\* remember_last_seen, on every request.
Request(u) ==
    /\ lastSeen' = [lastSeen EXCEPT ![u] = userClock]
    /\ UNCHANGED <<recorded, run, alerts, passes, userClock, aborts>>

PassUserTime ==
    /\ userClock < MaxUserTime
    /\ userClock' = userClock + 1
    /\ UNCHANGED <<lastSeen, recorded, run, alerts, passes, aborts>>

UNext ==
    \/ \E newly \in BOOLEAN : Select(newly)
    \/ Mail \/ RecordRun \/ KillRun \/ PassUserTime
    \/ \E u \in Users : Request(u)

USpec == UInit /\ [][UNext]_uvars

-----------------------------------------------------------------------------

AlertsAbout(u, seen) ==
    {i \in DOMAIN alerts : [user |-> u, seen |-> seen] \in alerts[i].about}

\* monitor.py:408 "only alert you once per absent user": each alert beyond the first
\* about the same absence takes a run that was killed before it recorded, unless all
\* absent users were asked for.
AlertedOnce ==
    \A u \in Users : \A seen \in 0..MaxUserTime :
        Cardinality({i \in AlertsAbout(u, seen) : alerts[i].newly}) <= 1 + aborts

\* A user absent when some run selected users, and since, has been alerted about once
\* that run came to an end. The exception are absences that began while an earlier
\* run was mailing: they are older than that run's record and newer than its query.
NobodyMissed ==
    \A u \in Users : \A i \in DOMAIN passes :
        lastSeen[u] + Delta < passes[i].selected =>
            \/ AlertsAbout(u, lastSeen[u]) # {}
            \/ \E j \in DOMAIN passes :
                  /\ j < i /\ passes[j].recorded # NeverRun
                  /\ passes[j].selected <= lastSeen[u] + Delta
                  /\ lastSeen[u] + Delta <= passes[j].recorded

=============================================================================
