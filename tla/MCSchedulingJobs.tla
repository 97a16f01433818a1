--------------------------- MODULE MCSchedulingJobs ---------------------------
(* Small instances of SchedulingJobs for TLC. *)
EXTENDS SchedulingJobs, TLC

CONSTANTS first, second, third  \* scheduler classes, each the next one's fallback

\* Two levels of fallback: first -> second -> third.
TwoLevels == (first :> second) @@ (second :> third) @@ (third :> None)

\* One level: only first has a fallback.
OneLevel == (first :> second) @@ (second :> None)

NoFallback == first :> None

AllFirst == [a \in Args |-> first]

\* Ids are drawn in a fixed order and so are not interchangeable; processes are.
Symmetry == Permutations(Clients) \cup Permutations(Workers)

=============================================================================
