---------------------------- MODULE SchedulePolls ----------------------------
(***************************************************************************)
(* GET /sensors/<id>/schedules/<uuid> beside the processes of              *)
(* SchedulingJobs: clients that hold a job id and poll it.                 *)
(*                                                                         *)
(* One poll reads Redis in up to seven trips.  Job.fetch brings the meta   *)
(* of the job, which is not read again, while is_failed, is_finished and   *)
(* get_status each ask for the status anew: workers, expiries and RQ get   *)
(* in between, and an answer can combine an old meta with a new status.    *)
(***************************************************************************)
EXTENDS SchedulingJobs

CONSTANT Pollers    \* clients, each polling the one id it was given

VARIABLE poll       \* control state of each client's poll, and its last answer

\* What the poll holds: the job last fetched, the status, fallback_job_id and
\* data_source_info its hash had then.
NoPoll == [pc |-> "idle", id |-> None, job |-> None, seen |-> None, link |-> None,
           source |-> FALSE, told |-> "none"]

PollInit == Init /\ poll = [p \in Pollers |-> NoPoll]

-----------------------------------------------------------------------------
(* The endpoint, one trip after the other.                                 *)

Ask(p, label) == poll' = [poll EXCEPT ![p].pc = label]

\* The poll ends without an answer, or with one. A failure is final only if the
\* job's hash said so from the start.
End(p, answer) ==
    poll' = [poll EXCEPT ![p] = [NoPoll EXCEPT !.id = poll[p].id, !.told = answer]]

TellFailure(p, answer) ==
    End(p, IF poll[p].seen = "failed" THEN answer ELSE "premature")

\* The client polls the id a trigger or a redirect gave it.
StartPoll(p, j) ==
    /\ poll[p].pc = "idle"
    /\ poll[p].id \in {None, j}
    /\ status[j] # "absent"
    /\ poll' = [poll EXCEPT ![p].pc = "fetch", ![p].id = j]

\* Job.fetch of a hash that exists.
Held(p, j, label) ==
    poll' = [poll EXCEPT ![p] =
                [@ EXCEPT !.pc = label, !.job = j, !.seen = status[j],
                          !.link = fallback[j], !.source = j \in sourced]]

FetchPolled(p) ==
    /\ poll[p].pc = "fetch"
    /\ LET j == poll[p].id IN
         \/ /\ JobExists(j)
            /\ Held(p, j, IF FallbackRedirect THEN "finished" ELSE "follow")
         \/ /\ ~JobExists(j)
            /\ End(p, "unrecognized")

\* not FLEXMEASURES_FALLBACK_REDIRECT and job.is_failed and fallback_job_id
FollowFallback(p) ==
    /\ poll[p].pc = "follow"
    /\ \/ /\ status[poll[p].job] = "failed"
          /\ poll[p].link # None
          /\ Ask(p, "fallback")
       \/ /\ status[poll[p].job] # "failed" \/ poll[p].link = None
          /\ Ask(p, "finished")

\* Mutant: a fallback job that is gone is logged and not answered.
FetchFallbackGoesOn(p) ==
    /\ poll[p].pc = "fallback"
    /\ \/ /\ JobExists(poll[p].link)
          /\ Held(p, poll[p].link, "finished")
       \/ /\ ~JobExists(poll[p].link)
          /\ Ask(p, "finished")

\* Job.fetch of the fallback job, followed once.
FetchFallback(p) ==
    /\ poll[p].pc = "fallback"
    /\ \/ /\ JobExists(poll[p].link)
          /\ Held(p, poll[p].link, "finished")
       \/ /\ ~JobExists(poll[p].link)
          /\ End(p, "unrecognized")

\* job.is_finished: the schedule is read under the data source in the meta, and
\* get_data_source_for_job raises when the meta was fetched before it was there.
AskFinished(p) ==
    /\ poll[p].pc = "finished"
    /\ \/ /\ status[poll[p].job] = "finished"
          /\ End(p, IF poll[p].source THEN "processed" ELSE poll[p].told)
       \/ /\ status[poll[p].job] # "finished"
          /\ Ask(p, "redirect")

\* job.is_failed and fallback_job_id: 303, whatever the setting.
AskRedirect(p) ==
    /\ poll[p].pc = "redirect"
    /\ \/ /\ status[poll[p].job] = "failed"
          /\ poll[p].link # None
          /\ TellFailure(p, "redirect")
       \/ /\ status[poll[p].job] # "failed" \/ poll[p].link = None
          /\ Ask(p, "failed")

\* job.is_failed once more: 400 UNKNOWN_SCHEDULE.
AskFailed(p) ==
    /\ poll[p].pc = "failed"
    /\ \/ /\ status[poll[p].job] = "failed"
          /\ TellFailure(p, "unknown")
       \/ /\ status[poll[p].job] # "failed"
          /\ Ask(p, "report")

\* job.get_status: 202, also when the job has just finished or failed. A hash
\* that is gone or has no status yet is a server error.
ReportStatus(p) ==
    /\ poll[p].pc = "report"
    /\ End(p, IF status[poll[p].job] \in {"created", "gone"} THEN poll[p].told
              ELSE "pending")

\* The client or the web process gives up.
AbortPoll(p) ==
    /\ poll[p].pc # "idle"
    /\ End(p, poll[p].told)

PollStep(p) ==
    \/ \E j \in JobId : StartPoll(p, j)
    \/ FetchPolled(p) \/ FollowFallback(p) \/ FetchFallback(p) \/ AskFinished(p)
    \/ AskRedirect(p) \/ AskFailed(p) \/ ReportStatus(p) \/ AbortPoll(p)

PollNext ==
    \/ Next /\ UNCHANGED poll
    \/ \E p \in Pollers : PollStep(p) /\ UNCHANGED vars

PollSpec == PollInit /\ [][PollNext]_<<vars, poll>>

-----------------------------------------------------------------------------
AnswersOf == INSTANCE ScheduleAnswers WITH told <- [p \in Pollers |-> poll[p].told]

\* What successive polls of a client answer is what ScheduleAnswers allows: a
\* schedule it was given, and a failure of a job that had failed when the poll
\* fetched it, are never taken back, although each answer is put together from
\* several reads of up to two jobs and a failing job hands over to its fallback in
\* several writes. (With callers that requeue failed jobs this is not promised.)
AnswersImplemented == AnswersOf!Spec

=============================================================================
