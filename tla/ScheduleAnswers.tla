---------------------------- MODULE ScheduleAnswers ----------------------------
(***************************************************************************)
(* What a client that holds a schedule id and polls it, one poll after the *)
(* other, may rely on, whatever processes run behind                       *)
(* GET /sensors/<id>/schedules/<uuid>: once it was given a schedule it is  *)
(* never told anything else, except that the id is forgotten; and a        *)
(* failure is final if the job had failed before the poll began.           *)
(***************************************************************************)
CONSTANT Pollers

VARIABLE told   \* the last answer each client got

\* 200 with values, and of a job that had failed when the poll fetched it: 303 to
\* a fallback schedule, and 400 UNKNOWN_SCHEDULE.
Final == {"processed", "redirect", "unknown"}

\* "premature": a 303 or UNKNOWN_SCHEDULE of a job that failed during the poll;
\* the client cannot tell it from a final one. "none": not told anything yet.
Answers == Final \cup {"none", "pending", "premature", "unrecognized"}

Moves ==
    ({"none", "pending", "premature"} \X (Answers \ {"none"}))
    \cup (Final \X {"unrecognized"})

Init == told = [p \in Pollers |-> "none"]

Next ==
    \E p \in Pollers, a \in Answers :
        /\ <<told[p], a>> \in Moves
        /\ told' = [told EXCEPT ![p] = a]

Spec == Init /\ [][Next]_told

=============================================================================
