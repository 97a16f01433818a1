---------------------------- MODULE MCSchedulePolls ----------------------------
(* A small instance of SchedulePolls for TLC. *)
EXTENDS SchedulePolls, TLC

CONSTANTS first, second, third  \* scheduler classes, each the next one's fallback

Chained == (first :> second) @@ (second :> third) @@ (third :> None)

AllFirst == [a \in Args |-> first]

\* Ids are drawn in a fixed order and so are not interchangeable; processes are.
Symmetry == Permutations(Workers)

=============================================================================
