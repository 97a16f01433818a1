--------------------------- MODULE ProcessScheduler ---------------------------
(***************************************************************************)
(* The scheduler of loads that run at a constant power for some duration   *)
(* (process.py): as soon as possible (INFLEXIBLE), in the best block       *)
(* (SHIFTABLE) or in the best separate slots (BREAKABLE).                  *)
(*                                                                         *)
(* A process p has p.length slots of p.resolution time units each, a       *)
(* p.duration in time units, p.kind, p.sense ("MIN" or "MAX"), the slots   *)
(* p.restricted in which it must not run, and p.price, a function from the *)
(* slots for which a price is known when the schedule is computed.         *)
(***************************************************************************)
EXTENDS Integers, FiniteSets, FiniteSetsExt

CONSTANTS
    Loads,  \* the processes schedules are asked for
    Price,      \* the prices there may be
    NoProcess

ASSUME LoadsAssumption ==
    /\ Price \subseteq Int
    /\ NoProcess \notin Loads /\ NoProcess # [kind |-> "refused"]
    /\ \A p \in Loads :
          /\ p.length \in Nat \ {0}
          /\ p.resolution \in Nat \ {0} /\ p.duration \in Nat \ {0}
          /\ p.kind \in {"INFLEXIBLE", "SHIFTABLE", "BREAKABLE"}
          /\ p.sense \in {"MIN", "MAX"}
          /\ p.restricted \subseteq 0..p.length - 1
          /\ DOMAIN p.price \subseteq 0..p.length - 1
          /\ \A s \in DOMAIN p.price : p.price[s] \in Price

VARIABLES
    process,  \* the process to be scheduled, NoProcess before one is asked for
    plan      \* NoProcess, a refusal, or the slots in which the process runs

pvars == <<process, plan>>

Refusal == [kind |-> "refused"]

Running(slots) == [kind |-> "runs", slots |-> slots]

-----------------------------------------------------------------------------

Slots(p) == 0..p.length - 1

Free(p) == Slots(p) \ p.restricted

Priced(p) == DOMAIN p.price

\* Slots the process takes: the duration rounded up, at most the whole window.
RowsToFill(p) ==
    LET needed == (p.duration + p.resolution - 1) \div p.resolution
    IN IF needed < p.length THEN needed ELSE p.length

Block(p, s) == s..s + RowsToFill(p) - 1

\* Mutant: only the first slot must be free.
BlockedStartFirst(p, s) ==
    \/ s + RowsToFill(p) - 1 \notin Slots(p)
    \/ s \in p.restricted

\* Mutant: the window is closed at both ends.
BlockedStartClosed(p, s) ==
    LET last == s + RowsToFill(p) - 1
    IN \/ last \notin Slots(p)
       \/ \E r \in p.restricted : r <= last /\ (last - r) * p.resolution <= p.duration

\* A rolling maximum over the duration, closed at the right, shifted back by the rows
\* to fill: the window that ends with the block's last slot and reaches back over the
\* duration, counted from slot start to slot start. Past the end it is missing.
BlockedStart(p, s) ==
    LET last == s + RowsToFill(p) - 1
    IN \/ last \notin Slots(p)
       \/ \E r \in p.restricted : r <= last /\ (last - r) * p.resolution < p.duration

Starts(p) == {s \in Slots(p) : ~ BlockedStart(p, s)}

\* Earlier or better by price, the earlier of two equal ones.
Better(p, costA, a, costB, b) ==
    \/ IF p.sense = "MIN" THEN costA < costB ELSE costB < costA
    \/ costA = costB /\ a < b

\* A rolling sum over as many prices as there are rows to fill, counting the prices
\* that are known; it is missing when fewer are left.
Window(p, s) ==
    CHOOSE W \in SUBSET Priced(p) :
        /\ Cardinality(W) = RowsToFill(p)
        /\ \A w \in W : s <= w
        /\ \A t \in Priced(p) : s <= t /\ (\E w \in W : t <= w) => t \in W

HasWindow(p, s) ==
    s \in Priced(p) /\ RowsToFill(p) <= Cardinality({t \in Priced(p) : s <= t})

BlockCost(p, s) == MapThenSumSet(LAMBDA w : p.price[w], Window(p, s))

FillWindow(p) ==
    IF p.restricted = {} THEN Running(Slots(p)) ELSE Refusal

Inflexible(p) ==
    IF Starts(p) = {} THEN Refusal ELSE Running(Block(p, Min(Starts(p))))

\* Mutant: the first block that has a price.
ShiftableFirst(p) ==
    LET candidates == {s \in Starts(p) : HasWindow(p, s)}
    IN IF candidates = {} THEN Refusal ELSE Running(Block(p, Min(candidates)))

\* idxmin and idxmax skip missing block costs, and raise when all are missing.
Shiftable(p) ==
    LET candidates == {s \in Starts(p) : HasWindow(p, s)}
    IN IF candidates = {} THEN Refusal
       ELSE Running(Block(p, CHOOSE s \in candidates : \A t \in candidates \ {s} :
                                 Better(p, BlockCost(p, s), s, BlockCost(p, t), t)))

\* The best slots among those with a price, as many as there are rows to fill, or all
\* of them if there are fewer.
Breakable(p) ==
    IF Cardinality(Free(p)) < RowsToFill(p) THEN Refusal
    ELSE LET ranked == Free(p) \cap Priced(p)
         IN Running({s \in ranked :
                Cardinality({t \in ranked :
                    Better(p, p.price[t], t, p.price[s], s)}) < RowsToFill(p)})

Scheduled(p) ==
    CASE RowsToFill(p) = p.length -> FillWindow(p)
      [] RowsToFill(p) # p.length /\ p.kind = "INFLEXIBLE" -> Inflexible(p)
      [] RowsToFill(p) # p.length /\ p.kind = "SHIFTABLE" -> Shiftable(p)
      [] RowsToFill(p) # p.length /\ p.kind = "BREAKABLE" -> Breakable(p)

-----------------------------------------------------------------------------

PInit == process = NoProcess /\ plan = NoProcess

AskFor ==
    /\ process = NoProcess
    /\ process' \in Loads
    /\ UNCHANGED plan

\* compute: the schedule, or a ValueError that fails the scheduling job.
Compute ==
    /\ process # NoProcess
    /\ plan = NoProcess
    /\ plan' = Scheduled(process)
    /\ UNCHANGED process

PNext == AskFor \/ Compute

PSpec == PInit /\ [][PNext]_pvars

-----------------------------------------------------------------------------
(* Properties. A fit is a set of slots in which the process may run: as    *)
(* many as its duration takes, none of them restricted, and one after the  *)
(* other unless it can be broken up.                                       *)

IsFit(p, slots) ==
    /\ slots \subseteq Free(p)
    /\ IF p.kind = "BREAKABLE"
       THEN Cardinality(slots) = RowsToFill(p)
       ELSE \E s \in Slots(p) : slots = Block(p, s)

Fits(p) == {slots \in SUBSET Slots(p) : IsFit(p, slots)}

AllPriced(p) == Priced(p) = Slots(p)

\* A schedule lets the process run for all its duration outside restricted periods.
\* Where prices are missing a breakable process may come out shorter: the slots
\* without a price are never used, and nothing checks how many are left.
RunsInFull ==
    plan # NoProcess /\ plan # Refusal =>
        \/ plan.slots \in Fits(process)
        \/ /\ process.kind = "BREAKABLE" /\ ~ AllPriced(process)
           /\ plan.slots \subseteq Free(process)

\* "Cannot allocate a block of time given the time restrictions provided"
\* (process.py:213): a process is refused only if it fits nowhere, or, when it is
\* shiftable, if prices are missing.
RefusedForRestrictions ==
    plan = Refusal =>
        \/ \A slots \in SUBSET Slots(process) : ~ IsFit(process, slots)
        \/ process.kind = "SHIFTABLE" /\ ~ AllPriced(process)

Total(f, slots) == MapThenSumSet(LAMBDA s : f[s], slots)

Delay(slots) == MapThenSumSet(LAMBDA s : s, slots)

\* With all prices known, no other fit is cheaper (or dearer, when cost is to be
\* maximized), and of those as good none is earlier; an inflexible process runs as
\* early as it fits.
BestFit ==
    plan # NoProcess /\ plan # Refusal /\ AllPriced(process) =>
        \A other \in Fits(process) :
            LET cost(slots) == Total(process.price, slots)
            IN IF process.kind = "INFLEXIBLE"
               THEN Delay(plan.slots) <= Delay(other)
               ELSE ~ Better(process, cost(other), Delay(other),
                             cost(plan.slots), Delay(plan.slots))

=============================================================================
