------------------------------- MODULE SchedulerProofs -------------------------------
(***************************************************************************)
(* Proofs about the schedulers: ProcessScheduler, for windows, durations,  *)
(* restrictions and prices of any size, and StorageConstraints, for        *)
(* flex-models with any number of ticks and events.                        *)
(***************************************************************************)
EXTENDS ProcessScheduler, StorageConstraints, FiniteSetTheorems,
        WellFoundedInduction, TLAPS

(* The process scheduler.                                                  *)

\* A set of natural numbers that is not empty has a smallest member.
LEMMA SmallestExists ==
    ASSUME NEW S \in SUBSET Nat, S # {}
    PROVE  \E x \in S : \A y \in S : x <= y
<1>1. PICK x \in S : \A y \in S : ~ (<<y, x>> \in OpToRel(<, Nat))
    BY WFMin, NatLessThanWellFounded, Zenon
<1>2. x \in Nat /\ \A y \in S : y \in Nat
    OBVIOUS
<1>3. \A y \in S : ~ (y < x)
    BY <1>1, <1>2, Zenon DEF OpToRel
<1> QED
    BY <1>2, <1>3

\* The rolling windows are about the process; what follows is about one.
Load(p) ==
    /\ p.length \in Nat \ {0}
    /\ p.resolution \in Nat \ {0} /\ p.duration \in Nat \ {0}
    /\ p.kind \in {"INFLEXIBLE", "SHIFTABLE", "BREAKABLE"}
    /\ p.restricted \subseteq 0..p.length - 1

\* The assumption on the processes that are asked for, one at a time.
LEMMA LoadsAreLoads ==
    ASSUME NEW p \in Loads
    PROVE  Load(p)
BY LoadsAssumption DEF Load

\* The rows to fill are the duration rounded up to whole slots, unless the window is
\* shorter.
LEMMA RowsAreEnough ==
    ASSUME NEW p, Load(p)
    PROVE  /\ RowsToFill(p) \in 1..p.length
           /\ (RowsToFill(p) - 1) * p.resolution < p.duration
           /\ RowsToFill(p) # p.length =>
                 p.duration <= RowsToFill(p) * p.resolution
<1> DEFINE n == p.length
           r == p.resolution
           d == p.duration
           needed == (d + r - 1) \div r
<1>1. n \in Nat \ {0} /\ r \in Nat \ {0} /\ d \in Nat \ {0}
    BY DEF Load
<1>2. RowsToFill(p) = IF needed < n THEN needed ELSE n
    BY DEF RowsToFill
<1>3. needed \in Nat /\ needed * r <= d + r - 1 /\ d + r - 1 < needed * r + r
    BY <1>1
<1> HIDE DEF n, r, d, needed
<1>4. needed # 0
    BY <1>1, <1>3
<1>5. (needed - 1) * r = needed * r - r
    BY <1>1, <1>3
<1>6. n <= needed => (n - 1) * r <= (needed - 1) * r
    BY <1>1, <1>3
<1>7. (RowsToFill(p) - 1) * r < d
  <2>1. (needed - 1) * r < d
      BY <1>1, <1>3, <1>5
  <2>2. CASE needed < n
      BY <1>2, <2>1, <2>2
  <2>3. CASE ~ (needed < n)
    <3>1. RowsToFill(p) = n /\ n <= needed
        BY <1>1, <1>2, <1>3, <2>3
    <3>2. (n - 1) * r \in Int /\ (needed - 1) * r \in Int
        BY <1>1, <1>3
    <3> QED
        BY <1>1, <1>6, <2>1, <3>1, <3>2
  <2> QED
      BY <2>2, <2>3
<1>8. RowsToFill(p) # n => d <= RowsToFill(p) * r
    BY <1>1, <1>2, <1>3, <1>5
<1>9. RowsToFill(p) \in 1..n
    BY <1>1, <1>2, <1>3, <1>4
<1> QED
    BY <1>7, <1>8, <1>9 DEF n, r, d

\* The rolling maximum, closed at the right and shifted back by the rows to fill,
\* says exactly whether the block that starts there is free.
LEMMA BlockedMeansNotFree ==
    ASSUME NEW p, Load(p), RowsToFill(p) # p.length, NEW s \in Slots(p)
    PROVE  BlockedStart(p, s) <=> ~ (Block(p, s) \subseteq Free(p))
<1> DEFINE rows == RowsToFill(p)
           last == s + rows - 1
           res == p.resolution
           d == p.duration
<1>1. /\ rows \in 1..p.length /\ (rows - 1) * res < d /\ d <= rows * res
      /\ p.length \in Nat \ {0} /\ res \in Nat \ {0} /\ d \in Nat \ {0}
      /\ p.restricted \subseteq 0..p.length - 1
    BY RowsAreEnough DEF Load
<1>2. s \in Nat /\ last \in Nat /\ s <= last
    BY <1>1 DEF Slots
<1>3. Block(p, s) = s..last
    BY DEF Block
<1>4. BlockedStart(p, s) <=>
          last \notin Slots(p) \/ \E x \in p.restricted : x <= last /\ (last - x) * res < d
    BY DEF BlockedStart
<1> HIDE DEF res, d
<1>5. ASSUME NEW x \in p.restricted, x <= last
      PROVE  (last - x) * res < d <=> s <= x
  <2>1. x \in Nat
      BY <1>1
  <2>2. CASE s <= x
    <3>1. last - x \in Nat /\ last - x <= rows - 1
        BY <1>1, <1>2, <1>5, <2>1, <2>2
    <3>2. \A a, b \in Nat : a <= b => a * res <= b * res
        BY <1>1
    <3>3. (last - x) * res <= (rows - 1) * res
        BY <1>1, <3>1, <3>2
    <3>4. (last - x) * res \in Int /\ (rows - 1) * res \in Int
        BY <1>1, <3>1
    <3> QED
        BY <1>1, <2>2, <3>3, <3>4
  <2>3. CASE x < s
    <3>1. last - x \in Nat /\ rows <= last - x
        BY <1>1, <1>2, <1>5, <2>1, <2>3
    <3>2. \A a, b \in Nat : a <= b => a * res <= b * res
        BY <1>1
    <3>3. rows * res <= (last - x) * res
        BY <1>1, <3>1, <3>2
    <3>4. (last - x) * res \in Int /\ rows * res \in Int
        BY <1>1, <3>1
    <3> QED
        BY <1>1, <1>2, <2>1, <2>3, <3>3, <3>4
  <2> QED
      BY <1>2, <2>1, <2>2, <2>3
<1> HIDE DEF last, rows
<1>6. CASE last \notin Slots(p)
    BY <1>2, <1>3, <1>4, <1>6 DEF Free
<1>7. CASE last \in Slots(p)
  <2>1. s..last \subseteq Slots(p)
      BY <1>1, <1>2, <1>7 DEF Slots
  <2>2. BlockedStart(p, s) <=> \E x \in p.restricted : x <= last /\ s <= x
      BY <1>4, <1>5, <1>7
  <2>3. (\E x \in p.restricted : x <= last /\ s <= x) <=> ~ (s..last \subseteq Free(p))
      BY <1>1, <1>2, <2>1 DEF Free
  <2> QED
      BY <1>3, <2>2, <2>3
<1> QED
    BY <1>6, <1>7

\* The slots that the rolling window leaves as starts are those of free blocks.
LEMMA StartsAreFree ==
    ASSUME NEW p, Load(p), RowsToFill(p) # p.length
    PROVE  Starts(p) = {s \in Slots(p) : Block(p, s) \subseteq Free(p)}
BY BlockedMeansNotFree DEF Starts

\* Any set of slots can be counted, and only all of them are as many as all.
LEMMA SlotsAreFinite ==
    ASSUME NEW p, Load(p), NEW S \in SUBSET Slots(p)
    PROVE  /\ IsFiniteSet(S) /\ Cardinality(S) \in Nat
           /\ Cardinality(S) <= p.length
           /\ Cardinality(S) = p.length => S = Slots(p)
           /\ Cardinality(Slots(p)) = p.length
<1>1. p.length \in Nat \ {0}
    BY DEF Load
<1>2. p.length - 1 \in Int
    BY <1>1
<1>3. IsFiniteSet(Slots(p)) /\ Cardinality(Slots(p)) = p.length
  <2>1. /\ IsFiniteSet(0..p.length - 1)
        /\ Cardinality(0..p.length - 1) =
              IF 0 > p.length - 1 THEN 0 ELSE (p.length - 1) - 0 + 1
      BY <1>2, FS_Interval
  <2> QED
      BY <1>1, <2>1 DEF Slots
<1>4. /\ IsFiniteSet(S) /\ Cardinality(S) <= Cardinality(Slots(p))
      /\ Cardinality(Slots(p)) = Cardinality(S) => Slots(p) = S
    BY <1>3, FS_Subset
<1>5. Cardinality(S) \in Nat
    BY <1>4, FS_CardinalityType
<1> QED
    BY <1>3, <1>4, <1>5

-----------------------------------------------------------------------------

\* With every slot priced, a free block is never short of prices.
LEMMA FreeBlocksHaveWindows ==
    ASSUME NEW p, Load(p), AllPriced(p), NEW s \in Slots(p),
           Block(p, s) \subseteq Free(p)
    PROVE  HasWindow(p, s)
<1> DEFINE last == s + RowsToFill(p) - 1
<1>1. p.length \in Nat \ {0} /\ RowsToFill(p) \in 1..p.length
    BY RowsAreEnough DEF Load
<1>2. s \in Nat /\ last \in Nat /\ s <= last
    BY <1>1 DEF Slots
<1>3. Block(p, s) = s..last
    BY DEF Block
<1>4. s..last \subseteq {t \in Priced(p) : s <= t}
    BY <1>2, <1>3 DEF AllPriced, Free
<1>5. IsFiniteSet({t \in Priced(p) : s <= t})
  <2>1. {t \in Priced(p) : s <= t} \in SUBSET Slots(p)
      BY DEF AllPriced
  <2> QED
      BY <2>1, SlotsAreFinite
<1>6. Cardinality(s..last) <= Cardinality({t \in Priced(p) : s <= t})
    BY <1>4, <1>5, FS_Subset
<1>7. Cardinality(s..last) = RowsToFill(p)
  <2>1. s \in Int /\ last \in Int
      BY <1>2
  <2>2. Cardinality(s..last) = IF s > last THEN 0 ELSE last - s + 1
      BY <2>1, FS_Interval
  <2> QED
      BY <1>1, <1>2, <2>2
<1> QED
    BY <1>6, <1>7 DEF HasWindow, AllPriced

\* A process that takes all of the window is refused only if a slot of it is restricted.
LEMMA FillWindowRefuses ==
    ASSUME NEW p, Load(p), RowsToFill(p) = p.length, FillWindow(p) = Refusal,
           NEW slots \in SUBSET Slots(p)
    PROVE  ~ IsFit(p, slots)
<1>1. PICK r : r \in p.restricted
    BY DEF FillWindow, Refusal, Running
<1>2. r \in Slots(p) /\ r \notin Free(p)
    BY <1>1 DEF Load, Slots, Free
<1>3. SUFFICES ASSUME slots \subseteq Free(p), slots = Slots(p)
               PROVE  FALSE
  <2>1. ASSUME IsFit(p, slots), p.kind = "BREAKABLE"
        PROVE  slots = Slots(p)
      BY <2>1, SlotsAreFinite DEF IsFit
  <2>2. ASSUME IsFit(p, slots), p.kind # "BREAKABLE"
        PROVE  slots = Slots(p)
    <3>1. PICK s \in Slots(p) : slots = Block(p, s)
        BY <2>2 DEF IsFit
    <3>2. p.length \in Nat \ {0}
        BY DEF Load
    <3>3. slots = s..s + p.length - 1 /\ s \in 0..p.length - 1
        BY <3>1 DEF Block, Slots
    <3>4. s + p.length - 1 \in 0..p.length - 1
        BY <3>2, <3>3 DEF Slots
    <3> QED
        BY <3>2, <3>3, <3>4 DEF Slots
  <2> QED
      BY <2>1, <2>2 DEF IsFit
<1> QED
    BY <1>2, <1>3

\* Any other is refused only if it fits nowhere.
LEMMA OtherwiseRefuses ==
    ASSUME NEW p, Load(p), RowsToFill(p) # p.length, Scheduled(p) = Refusal,
           p.kind = "SHIFTABLE" => AllPriced(p),
           NEW slots \in SUBSET Slots(p)
    PROVE  ~ IsFit(p, slots)
<1>1. CASE p.kind = "INFLEXIBLE"
  <2>1. Starts(p) = {}
      BY <1>1 DEF Scheduled, Inflexible, Refusal, Running
  <2> QED
      BY <1>1, <2>1, StartsAreFree DEF IsFit
<1>2. CASE p.kind = "SHIFTABLE"
  <2>1. {s \in Starts(p) : HasWindow(p, s)} = {}
      BY <1>2 DEF Scheduled, Shiftable, Refusal, Running
  <2> QED
      BY <1>2, <2>1, StartsAreFree, FreeBlocksHaveWindows DEF IsFit
<1>3. CASE p.kind = "BREAKABLE"
  <2>1. Cardinality(Free(p)) < RowsToFill(p)
      BY <1>3 DEF Scheduled, Breakable, Refusal, Running
  <2>2. Free(p) \in SUBSET Slots(p)
      BY DEF Free
  <2>3. IsFiniteSet(Free(p)) /\ Cardinality(Free(p)) \in Nat
      BY <2>2, SlotsAreFinite
  <2>4. RowsToFill(p) \in Nat
      BY RowsAreEnough DEF Load
  <2>5. slots \subseteq Free(p) => Cardinality(slots) <= Cardinality(Free(p))
      BY <2>3, FS_Subset
  <2>6. Cardinality(slots) \in Nat
      BY SlotsAreFinite
  <2> QED
      BY <1>3, <2>1, <2>3, <2>4, <2>5, <2>6 DEF IsFit
<1> QED
    BY <1>1, <1>2, <1>3 DEF Load

\* Either way.
LEMMA Refuses ==
    ASSUME NEW p, Load(p), Scheduled(p) = Refusal,
           p.kind = "SHIFTABLE" => AllPriced(p),
           NEW slots \in SUBSET Slots(p)
    PROVE  ~ IsFit(p, slots)
<1>1. CASE RowsToFill(p) = p.length
  <2>1. FillWindow(p) = Refusal
      BY <1>1 DEF Scheduled
  <2> QED
      BY <1>1, <2>1, FillWindowRefuses
<1>2. CASE RowsToFill(p) # p.length
    BY <1>2, OtherwiseRefuses
<1> QED
    BY <1>1, <1>2

-----------------------------------------------------------------------------

\* A plan is what the scheduler makes of the process.
PlanIsScheduled ==
    /\ process = NoProcess \/ process \in Loads
    /\ plan # NoProcess => process \in Loads /\ plan = Scheduled(process)

\* A plan is what the scheduler makes of the process that was asked for.
LEMMA PlanInvariance == PSpec => []PlanIsScheduled
<1>1. PInit => PlanIsScheduled
    BY DEF PInit, PlanIsScheduled
<1>2. PlanIsScheduled /\ [PNext]_pvars => PlanIsScheduled'
  <2> SUFFICES ASSUME PlanIsScheduled, [PNext]_pvars
               PROVE  PlanIsScheduled'
      OBVIOUS
  <2>1. CASE AskFor
      BY <2>1, LoadsAssumption DEF AskFor, PlanIsScheduled
  <2>2. CASE Compute
    <3>1. plan' = Scheduled(process) /\ process' = process /\ process \in Loads
        BY <2>2 DEF Compute, PlanIsScheduled
    <3>2. Scheduled(process') = Scheduled(process)
        BY <3>1
    <3> QED
        BY <3>1, <3>2 DEF PlanIsScheduled
  <2>3. CASE UNCHANGED pvars
      BY <2>3 DEF pvars, PlanIsScheduled
  <2> QED
      BY <2>1, <2>2, <2>3 DEF PNext
<1> QED
    BY <1>1, <1>2, PTL DEF PSpec

\* A process is refused only if the restrictions leave no room for it, or for want of
\* prices ("Cannot allocate a block of time given the time restrictions provided").
THEOREM RefusalsAreDue == PSpec => []RefusedForRestrictions
<1>1. PlanIsScheduled => RefusedForRestrictions
  <2> SUFFICES ASSUME PlanIsScheduled, plan = Refusal,
                      process.kind = "SHIFTABLE" => AllPriced(process),
                      NEW slots \in SUBSET Slots(process)
               PROVE  ~ IsFit(process, slots)
      BY DEF RefusedForRestrictions
  <2>1. process \in Loads /\ Scheduled(process) = Refusal
      BY LoadsAssumption DEF PlanIsScheduled, Refusal
  <2> QED
      BY <2>1, LoadsAreLoads, Refuses
<1> QED
    BY PlanInvariance, <1>1, PTL

\* An inflexible process shorter than its window runs in one block of free slots, and
\* no block of free slots starts earlier.
RunsAsSoonAsPossible ==
    /\ plan # NoProcess /\ plan # Refusal
    /\ process.kind = "INFLEXIBLE" /\ RowsToFill(process) # process.length
    => \E s \in Slots(process) :
          /\ plan = Running(Block(process, s))
          /\ Block(process, s) \subseteq Free(process)
          /\ \A t \in Slots(process) :
                Block(process, t) \subseteq Free(process) => s <= t

\* compute_inflexible: the first start that is not blocked.
THEOREM InflexibleRunsFirst == PSpec => []RunsAsSoonAsPossible
<1>1. PlanIsScheduled => RunsAsSoonAsPossible
  <2> SUFFICES ASSUME PlanIsScheduled, plan # NoProcess, plan # Refusal,
                      process.kind = "INFLEXIBLE",
                      RowsToFill(process) # process.length
               PROVE  \E s \in Slots(process) :
                         /\ plan = Running(Block(process, s))
                         /\ Block(process, s) \subseteq Free(process)
                         /\ \A t \in Slots(process) :
                               Block(process, t) \subseteq Free(process) => s <= t
      BY DEF RunsAsSoonAsPossible
  <2> DEFINE S == Starts(process)
             first == Min(S)
  <2>1. Load(process)
      BY LoadsAreLoads DEF PlanIsScheduled
  <2>2. S = {s \in Slots(process) : Block(process, s) \subseteq Free(process)}
      BY <2>1, StartsAreFree
  <2>3. plan = Inflexible(process)
      BY DEF PlanIsScheduled, Scheduled
  <2>4. S # {} /\ plan = Running(Block(process, first))
      BY <2>3 DEF Inflexible
  <2>5. S \subseteq Nat
      BY <2>1, <2>2 DEF Slots, Load
  <2>6. \E x \in S : \A y \in S : x <= y
      BY <2>4, <2>5, SmallestExists
  <2>7. first \in S /\ \A y \in S : first <= y
      BY <2>6 DEF Min
  <2> QED
      BY <2>2, <2>4, <2>7
<1> QED
    BY PlanInvariance, <1>1, PTL

-----------------------------------------------------------------------------
(* Constraints of the storage scheduler.                                   *)

\* A bounded set of integers that is not empty has a largest member.
LEMMA MaxIsThere ==
    ASSUME NEW S \in SUBSET Int, S # {}, NEW b \in Int, \A x \in S : x <= b
    PROVE  Max(S) \in S /\ \A y \in S : y <= Max(S)
<1> DEFINE D == {b - x : x \in S}
<1>0. \A x \in S : b - x \in Nat
    OBVIOUS
<1>1. D \in SUBSET Nat /\ D # {}
    BY <1>0
<1>2. PICK d \in D : \A e \in D : d <= e
    BY <1>1, SmallestExists
<1>3. PICK x \in S : d = b - x
    BY <1>2
<1>4. \A y \in S : x >= y
    BY <1>2, <1>3
<1>5. \E z \in S : \A y \in S : z >= y
    BY <1>4
<1> QED
    BY <1>5 DEF Max

\* And a smallest.
LEMMA MinIsThere ==
    ASSUME NEW S \in SUBSET Int, S # {}, NEW b \in Int, \A x \in S : b <= x
    PROVE  Min(S) \in S /\ \A y \in S : Min(S) <= y
<1> DEFINE D == {x - b : x \in S}
<1>0. \A x \in S : x - b \in Nat
    OBVIOUS
<1>1. D \in SUBSET Nat /\ D # {}
    BY <1>0
<1>2. PICK d \in D : \A e \in D : d <= e
    BY <1>1, SmallestExists
<1>3. PICK x \in S : d = x - b
    BY <1>2
<1>4. \A y \in S : x =< y
    BY <1>2, <1>3
<1>5. \E z \in S : \A y \in S : z =< y
    BY <1>4
<1> QED
    BY <1>5 DEF Min

-----------------------------------------------------------------------------
(* Where values of the rows come from.                                     *)

\* What the assumption on flex-models says of one.
FlexModel(p) ==
    /\ p.hour \in Nat \ {0} /\ p.res \in Nat \ {0} /\ p.ticks \in Nat \ {0}
    /\ p.consumption \in Nat /\ p.production \in Nat
    /\ p.up \in Nat /\ p.down \in Nat
    /\ p.socMin \in Limits /\ p.socMax \in Limits
    /\ p.start \in 0..MaxSoc /\ p.knownAt \in Nat
    /\ p.targets \in Seq(Events)
    /\ p.minima \in Seq(Events)
    /\ p.maxima \in Seq(Events)

\* The assumption on flex-models, one at a time.
LEMMA ProblemsAreFlexModels ==
    ASSUME NEW p \in Problems
    PROVE  FlexModel(p)
BY ProblemsAssumption DEF FlexModel

\* The ticks around a time.
LEMMA TicksAround ==
    ASSUME NEW p, FlexModel(p), NEW t \in Nat
    PROVE  /\ Previous(p, t) \in Nat /\ Following(p, t) \in Nat
           /\ Previous(p, t) <= t /\ t < Following(p, t)
<1> DEFINE r == p.res
           q == t \div r
<1>1. r \in Nat \ {0}
    BY DEF FlexModel
<1> HIDE DEF r
<1>2. q \in Nat /\ r * q <= t /\ t < r * q + r
    BY <1>1
<1> HIDE DEF q
<1>3. q * r = r * q /\ q * r \in Nat
    BY <1>1, <1>2
<1>4. Previous(p, t) = q * r /\ Following(p, t) = q * r + r
    BY DEF Previous, Following, q, r
<1> QED
    BY <1>1, <1>2, <1>3, <1>4

Fields == {"targets", "minima", "maxima", "at_start"}

\* Minima are projected onto bounds from below, maxima onto bounds from above.
LEMMA PolicyRules ==
    /\ \A rule \in Policy :
          /\ rule.field \in Fields /\ rule.bound \in {"min", "max"}
          /\ rule.tick \in {"previous", "next"}
          /\ rule.field = "minima" => rule.bound = "min"
          /\ rule.field = "maxima" => rule.bound = "max"
BY DEF Policy, Fields

\* Events between ticks are events of the flex-model.
LEMMA OffTickAreEvents ==
    ASSUME NEW p, FlexModel(p), NEW field \in Fields, NEW e \in OffTick(p, field)
    PROVE  e \in Events
<1>1. CASE field = "at_start"
    BY <1>1 DEF OffTick, Events, FlexModel
<1>2. CASE field # "at_start"
  <2>1. EventsOf(p, field) \in Seq(Events)
      BY <1>2 DEF EventsOf, FlexModel, Fields
  <2>2. PICK j \in DOMAIN EventsOf(p, field) : e = EventsOf(p, field)[j]
      BY <1>2 DEF OffTick
  <2> QED
      BY <2>1, <2>2
<1> QED
    BY <1>1, <1>2

\* What a device can charge or discharge in the rest of a step is an amount.
LEMMA ReachableIsAmount ==
    ASSUME NEW p, FlexModel(p), NEW rule \in Policy, NEW e \in Events
    PROVE  Reachable(p, rule, e) \in Nat
<1>1. e.end \in Nat
    BY DEF Events
<1>2. /\ e.end - Previous(p, e.end) \in Nat
      /\ Following(p, e.end) - e.end \in Nat
    BY <1>1, TicksAround
<1>4. \A a, b \in Nat : a * b \in Nat
    OBVIOUS
<1>3. p.consumption * p.up \in Nat /\ p.production * p.down \in Nat
  <2>1. p.consumption \in Nat /\ p.up \in Nat /\ p.production \in Nat /\ p.down \in Nat
      BY DEF FlexModel
  <2> QED
      BY <1>4, <2>1
<1>5. TimeToTick(p, rule, e) \in Nat
    BY <1>2 DEF TimeToTick
<1> QED
    BY <1>3, <1>4, <1>5 DEF Reachable

\* Before the schedule's end the capacities are known.
LEMMA ReachableWithin ==
    ASSUME NEW p, NEW rule \in Policy, NEW e, Previous(p, e.end) < p.ticks * p.res
    PROVE  Reachable(p, rule, e)
             = (IF rule.tick = "previous" THEN e.end - Previous(p, e.end)
                                          ELSE Following(p, e.end) - e.end)
               * (IF (rule.bound = "min") = (rule.tick = "previous")
                  THEN p.consumption * p.up ELSE p.production * p.down)
BY DEF Reachable, TimeToTick

\* Minima are only loosened downwards, maxima only upwards.
LEMMA LoosenedIsBounded ==
    ASSUME NEW p, FlexModel(p), NEW rule \in Policy, NEW e \in Events
    PROVE  /\ Loosened(p, rule, e) \in Int
           /\ rule.bound = "min" => Loosened(p, rule, e) <= MaxSoc
           /\ rule.bound = "max" => 0 <= Loosened(p, rule, e)
<1>1. e.value \in 0..MaxSoc /\ MaxSoc \in Nat
    BY ProblemsAssumption DEF Events
<1>2. Reachable(p, rule, e) \in Nat
    BY ReachableIsAmount
<1>3. p.socMin \in Limits /\ p.socMax \in Limits
    BY DEF FlexModel
<1> QED
    BY <1>1, <1>2, <1>3, PolicyRules, ProblemsAssumption
    DEF Loosened, AtLeast, AtMost, Larger, Smaller, Limits

Bounded(bound, values) ==
    /\ values \in SUBSET Int
    /\ bound = "min" => \A v \in values : v <= MaxSoc
    /\ bound = "max" => \A v \in values : 0 <= v

\* Projected bounds are integers, of which there are not arbitrarily large or small ones.
LEMMA ProjectedIsBounded ==
    ASSUME NEW p, FlexModel(p), NEW bound \in {"min", "max"}, NEW k
    PROVE  Bounded(bound, Projected(p, bound, k))
<1> SUFFICES ASSUME NEW v \in Projected(p, bound, k)
             PROVE  /\ v \in Int
                    /\ bound = "min" => v <= MaxSoc
                    /\ bound = "max" => 0 <= v
    BY DEF Bounded
<1>1. PICK rule \in Policy : \E e \in OffTick(p, rule.field) :
          rule.bound = bound /\ v = Loosened(p, rule, e)
    BY DEF Projected
<1>2. PICK e \in OffTick(p, rule.field) : rule.bound = bound /\ v = Loosened(p, rule, e)
    BY <1>1
<1>3. e \in Events
    BY <1>2, PolicyRules, OffTickAreEvents
<1> QED
    BY <1>2, <1>3, LoosenedIsBounded

\* The strictest of some bounds is one of them.
LEMMA StrictestIsThere ==
    ASSUME NEW bound \in {"min", "max"}, NEW values, Bounded(bound, values), values # {}
    PROVE  Strictest(bound, values) \in values
<1>0. MaxSoc \in Int
    BY ProblemsAssumption
<1>1. CASE bound = "min"
    BY <1>0, <1>1, MaxIsThere DEF Bounded, Strictest
<1>2. CASE bound = "max"
    BY <1>2, MinIsThere DEF Bounded, Strictest
<1> QED
    BY <1>1, <1>2

Values(p, events, k) == {events[i].value : i \in Covering(p, events, k)}

\* So are the values that are stated for a tick.
LEMMA ValuesAreBounded ==
    ASSUME NEW p, NEW events \in Seq(Events), NEW k, NEW bound
    PROVE  Bounded(bound, Values(p, events, k))
<1>1. \A i \in DOMAIN events : events[i] \in Events
    OBVIOUS
<1> QED
    BY <1>1, ProblemsAssumption DEF Bounded, Values, Covering, Events

\* Whatever the order in which values are written and merged, the one that counts is
\* one of those that apply to the tick.
LEMMA HardValueApplies ==
    ASSUME NEW p, NEW events \in Seq(Events), NEW k, NEW bound \in {"min", "max"},
           NEW projected, Bounded(bound, projected)
    PROVE  LET v == HardValue(p, bound, events, projected, k)
           IN v = None \/ v \in projected \cup Values(p, events, k)
<1> DEFINE covering == Covering(p, events, k)
           points == {i \in covering : events[i].start = events[i].end}
           v == HardValue(p, bound, events, projected, k)
           last == Max(covering)
<1>1. CASE covering = {} \/ (projected # {} /\ points = {})
  <2>1. v = IF projected = {} THEN None ELSE Strictest(bound, projected)
      BY <1>1 DEF HardValue
  <2> QED
      BY <2>1, StrictestIsThere
<1>2. CASE ~ (covering = {} \/ (projected # {} /\ points = {}))
  <2>1. last \in covering
    <3>1. covering \in SUBSET Int /\ covering # {}
        BY <1>2 DEF Covering
    <3>2. Len(events) \in Int /\ \A i \in covering : i <= Len(events)
        BY DEF Covering
    <3> HIDE DEF covering
    <3> QED
        BY <3>1, <3>2, MaxIsThere
  <2>2. events[last].value \in Values(p, events, k)
      BY <2>1 DEF Values
  <2>3. v = IF projected # {} /\ last = Min(points)
            THEN Strictest(bound, projected \cup {events[last].value})
            ELSE events[last].value
      BY <1>2 DEF HardValue
  <2>4. Bounded(bound, projected \cup {events[last].value})
      BY <2>2, ValuesAreBounded DEF Bounded
  <2>5. Strictest(bound, projected \cup {events[last].value})
            \in projected \cup {events[last].value}
      BY <2>4, StrictestIsThere
  <2> QED
      BY <2>2, <2>3, <2>5
<1> QED
    BY <1>1, <1>2

\* A relaxed bound is a value that was stated or projected.
LEMMA SoftValueApplies ==
    ASSUME NEW p, NEW events \in Seq(Events), NEW k, NEW bound \in {"min", "max"},
           NEW projected, Bounded(bound, projected)
    PROVE  LET v == SoftValue(p, bound, events, projected, k)
           IN v = None \/ v \in projected \cup Values(p, events, k)
<1> DEFINE values == projected \cup Values(p, events, k)
<1>1. Bounded(bound, values)
    BY ValuesAreBounded DEF Bounded
<1>2. SoftValue(p, bound, events, projected, k) =
          IF values = {} THEN None ELSE Strictest(bound, values)
    BY DEF SoftValue, Values
<1> QED
    BY <1>1, <1>2, StrictestIsThere

\* A target is an integer or there is none.
LEMMA TargetValueApplies ==
    ASSUME NEW p, FlexModel(p), NEW k
    PROVE  TargetValue(p, k, FALSE) \in Int \cup {None}
<1> DEFINE events == MovedTargets(p)
           covering == Covering(p, events, k)
<1>1. DOMAIN events = DOMAIN p.targets /\ DOMAIN p.targets = 1..Len(p.targets)
      /\ Len(p.targets) \in Nat
    BY DEF MovedTargets, FlexModel
<1>2. \A i \in DOMAIN events : events[i].value \in Int
  <2> SUFFICES ASSUME NEW i \in DOMAIN p.targets
               PROVE  events[i].value \in Int
      BY <1>1
  <2>1. p.targets[i] \in Events
      BY DEF FlexModel
  <2>2. events[i].value = p.targets[i].value
      BY <2>1 DEF MovedTargets, Events
  <2> QED
      BY <2>1, <2>2, ProblemsAssumption DEF Events
<1>3. CASE covering = {}
    BY <1>3 DEF TargetValue
<1>4. CASE covering # {}
  <2>1. covering \in SUBSET Int /\ \A i \in covering : i <= Len(p.targets)
      BY <1>1 DEF Covering
  <2>2. Len(p.targets) \in Int
      BY <1>1
  <2>3. Max(covering) \in covering
    <3> HIDE DEF covering
    <3> QED
        BY <1>4, <2>1, <2>2, MaxIsThere
  <2>4. Max(covering) \in DOMAIN events
      BY <2>3 DEF Covering
  <2>5. TargetValue(p, k, FALSE) = events[Max(covering)].value
      BY <1>4 DEF TargetValue
  <2> QED
      BY <1>2, <2>4, <2>5
<1> QED
    BY <1>3, <1>4

-----------------------------------------------------------------------------

\* Clipping brings a value within the limits of the device, and keeps it on the same side
\* of any stock that is within them.
LEMMA ClipIsBetween ==
    ASSUME NEW p, FlexModel(p), NEW v \in Int \cup {None}, NEW w \in Int,
           WithinLimits(p, w)
    PROVE  /\ Clip(p, v) \in Int \cup {None}
           /\ Clip(p, v) = None <=> v = None
           /\ v # None =>
                 /\ p.socMin # None => p.socMin <= Clip(p, v)
                 /\ p.socMax # None => Clip(p, v) <= p.socMax
                 /\ v <= w => Clip(p, v) <= w
                 /\ w <= v => w <= Clip(p, v)
<1> DEFINE a == p.socMin
           b == p.socMax
<1>1. /\ a \in Int \cup {None} /\ b \in Int \cup {None} /\ None \notin Int
      /\ a # None => a <= w
      /\ b # None => w <= b
    BY ProblemsAssumption
       DEF WithinLimits, FlexModel, Limits, AtLeast, AtMost, Larger, Smaller
<1>2. Clip(p, v) = IF v = None THEN None
                   ELSE IF a = None \/ b = None THEN AtMost(b, AtLeast(a, v))
                   ELSE Smaller(Larger(a, b), Larger(Smaller(a, b), v))
  <2>1. None \in {a, b} <=> a = None \/ b = None
      OBVIOUS
  <2> QED
      BY <2>1 DEF Clip
<1> HIDE DEF a, b
<1>3. CASE v = None
    BY <1>1, <1>2, <1>3
<1>4. CASE v # None /\ a = None
    BY <1>1, <1>2, <1>4 DEF AtMost, AtLeast, Smaller, a, b
<1>5. CASE v # None /\ a # None /\ b = None
    BY <1>1, <1>2, <1>5 DEF AtMost, AtLeast, Larger, a, b
<1>6. CASE v # None /\ a # None /\ b # None
  <2>1. Clip(p, v) = Smaller(b, Larger(a, v))
      BY <1>1, <1>2, <1>6 DEF Smaller, Larger
  <2> QED
      BY <1>1, <1>6, <2>1 DEF Smaller, Larger, a, b
<1> QED
    BY <1>3, <1>4, <1>5, <1>6

\* The types of a row, and that its values are within the limits of the device.
LEMMA RowValues ==
    ASSUME NEW p, FlexModel(p), NEW k \in Int, NEW w \in Int, WithinLimits(p, w)
    PROVE  /\ Row(p, k).min \in Int \cup {None}
           /\ Row(p, k).max \in Int \cup {None}
           /\ Row(p, k).equals \in Int \cup {None}
           /\ Row(p, k).min # None /\ p.socMin # None => p.socMin <= Row(p, k).min
           /\ Row(p, k).min # None /\ p.socMax # None => Row(p, k).min <= p.socMax
           /\ Row(p, k).max # None /\ p.socMin # None => p.socMin <= Row(p, k).max
           /\ Row(p, k).max # None /\ p.socMax # None => Row(p, k).max <= p.socMax
<1> DEFINE low == Projected(p, "min", k)
           high == Projected(p, "max", k)
           hardMin == IF "minima" \in p.relaxed THEN None
                      ELSE HardValue(p, "min", p.minima, low, k)
           hardMax == IF "maxima" \in p.relaxed THEN None
                      ELSE HardValue(p, "max", p.maxima, high, k)
<1>1. Bounded("min", low) /\ Bounded("max", high)
    BY ProjectedIsBounded
<1>2. p.minima \in Seq(Events) /\ p.maxima \in Seq(Events)
    BY DEF FlexModel
<1>3. /\ Values(p, p.minima, k) \in SUBSET Int
      /\ Values(p, p.maxima, k) \in SUBSET Int
    BY <1>2, ValuesAreBounded DEF Bounded
<1>4. hardMin \in Int \cup {None} /\ hardMax \in Int \cup {None}
  <2>1. HardValue(p, "min", p.minima, low, k) \in Int \cup {None}
      BY <1>1, <1>2, <1>3, HardValueApplies DEF Bounded
  <2>2. HardValue(p, "max", p.maxima, high, k) \in Int \cup {None}
      BY <1>1, <1>2, <1>3, HardValueApplies DEF Bounded
  <2> QED
      BY <2>1, <2>2
<1>5. /\ OrElse(hardMin, p.socMin) \in Int \cup {None}
      /\ OrElse(hardMax, p.socMax) \in Int \cup {None}
    BY <1>4, ProblemsAssumption DEF OrElse, FlexModel, Limits
<1>6. /\ Row(p, k).min = Clip(p, OrElse(hardMin, p.socMin))
      /\ Row(p, k).max = Clip(p, OrElse(hardMax, p.socMax))
      /\ Row(p, k).equals \in {None, TargetValue(p, k, FALSE)}
    BY DEF Row
<1>7. Row(p, k).equals \in Int \cup {None}
    BY <1>6, TargetValueApplies
<1> DEFINE v == OrElse(hardMin, p.socMin)
           u == OrElse(hardMax, p.socMax)
<1>8. Row(p, k).min = Clip(p, v) /\ Row(p, k).max = Clip(p, u)
    BY <1>6
<1>9. v \in Int \cup {None} /\ u \in Int \cup {None}
    BY <1>5
<1> HIDE DEF v, u
<1> QED
    BY <1>7, <1>8, <1>9, ClipIsBetween

\* Comparisons of stock, written without fractions.
LEMMA Scaled ==
    ASSUME NEW a \in Int, NEW b \in Int, NEW s \in Int, NEW r \in Nat \ {0},
           NEW power \in Nat
    PROVE  /\ (a - s) * r \in Int
           /\ a <= b <=> (a - s) * r <= (b - s) * r
           /\ a - b <= r * power => (a - s) * r - (b - s) * r <= power * r * r
           /\ b - a <= r * power => - (power * r * r) <= (a - s) * r - (b - s) * r
<1>1. (a - s) * r \in Int /\ (b - s) * r \in Int
    OBVIOUS
<1>2. (a - s) * r - (b - s) * r = (a - b) * r
    OBVIOUS
<1>3. (b - s) * r - (a - s) * r = (b - a) * r
    OBVIOUS
<1>4. \A x, y \in Int : x <= y <=> x * r <= y * r
    OBVIOUS
<1>5. (r * power) * r = power * r * r /\ (r * power) * r \in Int
    OBVIOUS
<1>6. a <= b <=> a - s <= b - s
    OBVIOUS
<1>7. a <= b <=> (a - s) * r <= (b - s) * r
    BY <1>4, <1>6
<1>8. a - b <= r * power => (a - b) * r <= (r * power) * r
    BY <1>4
<1>9. b - a <= r * power => (b - a) * r <= (r * power) * r
    BY <1>4
<1> QED
    BY <1>1, <1>2, <1>3, <1>5, <1>7, <1>8, <1>9

-----------------------------------------------------------------------------
(* No check fails of which some schedule keeps to both rows.               *)

\* A difference within a limit does not exceed it.
LEMMA Apart ==
    ASSUME NEW a, NEW b, NEW x \in Int, NEW y \in Int, NEW m \in Int, a = x, b = y
    PROVE  /\ x - y <= m => ~ (m < a - b)
           /\ m <= x - y => ~ (a - b < m)
OBVIOUS

\* None of the eleven checks fails on rows that some schedule follows.
LEMMA NoCheckFails ==
    ASSUME NEW p, FlexModel(p), Comparable(p, Rows(p)),
           NEW s \in [1..p.ticks -> Int], Follows(p, Rows(p), s),
           NEW name \in {"A1", "A2", "B1", "B2", "B3", "C1", "C2", "C3", "C4", "C5", "C6"},
           NEW k \in 1..p.ticks
    PROVE  LET c == Checks(p, Rows(p), k)[name] IN ~ Exceeds(c[1], c[2])
<1> DEFINE row == Row(p, k)
           v == s[k]
           u == IF k = 1 THEN p.start ELSE s[k - 1]
           r == p.res
           C(x) == (x - p.start) * r
           most == p.consumption * r * r
           least == - (p.production * r * r)
<1>1. /\ r \in Nat \ {0} /\ p.start \in Int /\ p.consumption \in Nat
      /\ p.production \in Nat /\ p.ticks \in Nat \ {0} /\ None \notin Int
      /\ p.socMin \in Int \cup {None} /\ p.socMax \in Int \cup {None}
      /\ p.hour = r /\ p.up = 1 /\ p.down = 1
    BY ProblemsAssumption DEF FlexModel, Limits, Comparable
<1>2. /\ v \in Int /\ u \in Int /\ k \in Int
      /\ k # 1 => k - 1 \in 1..p.ticks /\ u = s[k - 1]
      /\ k = 1 => u = p.start
    BY <1>1
<1>3. Rows(p)[k] = row /\ (k # 1 => Rows(p)[k - 1] = Row(p, k - 1))
    BY <1>1, <1>2 DEF Rows
<1>4. WithinHard(row, v) /\ WithinLimits(p, v) /\ MovesFrom(p, u, v, r)
    BY <1>3 DEF Follows
<1>5. k # 1 => WithinHard(Row(p, k - 1), u) /\ WithinLimits(p, u)
    BY <1>2, <1>3 DEF Follows
<1>6. /\ row.min \in Int \cup {None} /\ row.max \in Int \cup {None}
      /\ row.equals \in Int \cup {None}
      /\ row.min # None /\ p.socMin # None => p.socMin <= row.min
      /\ row.min # None /\ p.socMax # None => row.min <= p.socMax
      /\ row.max # None /\ p.socMin # None => p.socMin <= row.max
      /\ row.max # None /\ p.socMax # None => row.max <= p.socMax
    BY <1>2, <1>4, RowValues
<1>7. k # 1 => /\ Row(p, k - 1).min \in Int \cup {None}
               /\ Row(p, k - 1).max \in Int \cup {None}
               /\ Row(p, k - 1).equals \in Int \cup {None}
    BY <1>2, <1>5, RowValues
<1>8. /\ p.socMin # None => p.socMin <= v
      /\ p.socMax # None => v <= p.socMax
    BY <1>1, <1>2, <1>4 DEF WithinLimits, AtLeast, AtMost, Larger, Smaller
<1>9. v - u <= r * p.consumption /\ u - v <= r * p.production
    BY <1>1, <1>4 DEF MovesFrom, Rise, Fall
<1>10. /\ row.min # None => row.min <= v
       /\ row.max # None => v <= row.max
       /\ row.equals # None => v = row.equals
    BY <1>4 DEF WithinHard
<1>11. k # 1 => /\ Row(p, k - 1).min # None => Row(p, k - 1).min <= u
                /\ Row(p, k - 1).max # None => u <= Row(p, k - 1).max
                /\ Row(p, k - 1).equals # None => u = Row(p, k - 1).equals
    BY <1>5 DEF WithinHard
<1> HIDE DEF row, v, u, r
\* Both sides scale alike.
<1>12. \A x \in Int : C(x) \in Int /\ Change(p, x) = C(x)
    BY <1>1 DEF Change, r
<1>13. Change(p, None) = None
    BY DEF Change
<1>14. \A x, y \in Int : x <= y => C(x) <= C(y)
    BY <1>1, Scaled
<1>15. /\ most \in Nat /\ least \in Int /\ least <= 0
       /\ \A x, y \in Int : x - y <= r * p.consumption => C(x) - C(y) <= most
       /\ \A x, y \in Int : y - x <= r * p.production => least <= C(x) - C(y)
  <2>1. \A x, y \in Int : x - y <= r * p.consumption => C(x) - C(y) <= most
      BY <1>1, Scaled
  <2>2. \A x, y \in Int : y - x <= r * p.production => least <= C(x) - C(y)
      BY <1>1, Scaled
  <2>3. \A x, y \in Nat : x * y \in Nat
      OBVIOUS
  <2>4. most \in Nat /\ p.production * r * r \in Nat
      BY <1>1, <2>3
  <2> QED
      BY <2>1, <2>2, <2>4
<1> DEFINE P(column) == Before(p, Rows(p), column, k)
           low == Change(p, row.min)
           high == Change(p, row.max)
           exact == Change(p, row.equals)
<1>16. Checks(p, Rows(p), k) =
         [A1 |-> <<Change(p, p.socMin), low>>,
          A2 |-> <<high, Change(p, p.socMax)>>,
          B1 |-> <<low, high>>,
          B2 |-> <<low, exact>>,
          B3 |-> <<exact, high>>,
          C1 |-> <<Minus(exact, P("equals")), most>>,
          C2 |-> <<least, Minus(exact, P("equals"))>>,
          C3 |-> <<Minus(low, P("max")), most>>,
          C4 |-> <<least, Minus(high, P("min"))>>,
          C5 |-> <<Minus(exact, P("max")), most>>,
          C6 |-> <<least, Minus(exact, P("min"))>>]
    BY <1>3 DEF Checks, r
<1>17. /\ low \in Int \cup {None} /\ high \in Int \cup {None} /\ exact \in Int \cup {None}
       /\ Change(p, p.socMin) \in Int \cup {None}
       /\ Change(p, p.socMax) \in Int \cup {None}
       /\ low # None => row.min \in Int /\ low = C(row.min)
       /\ high # None => row.max \in Int /\ high = C(row.max)
       /\ exact # None => row.equals = v /\ exact = C(v)
    BY <1>1, <1>6, <1>10, <1>12, <1>13
\* What comes before: on the side that leaves room.
<1>18. P("equals") # None /\ exact # None => P("equals") = C(u)
  <2>1. CASE k = 1
    <3>1. P("equals") = p.start * r
        BY <1>2, <2>1 DEF Before, r
    <3>2. exact # None => Rows(p)[1].equals # None
        BY <1>3, <1>13, <2>1
    <3>3. exact # None => p.start = 0
        BY <3>2 DEF Comparable
    <3>4. C(p.start) = 0 /\ 0 * r = 0
        BY <1>1
    <3> QED
        BY <1>2, <2>1, <3>1, <3>3, <3>4
  <2>2. CASE k # 1
    <3>1. P("equals") = Change(p, Row(p, k - 1).equals)
        BY <1>2, <1>3, <2>2 DEF Before
    <3> QED
        BY <1>2, <1>7, <1>11, <1>12, <1>13, <2>2, <3>1
  <2> QED
      BY <2>1, <2>2
<1>19. P("max") # None =>
          \E b \in Int : /\ P("max") = C(b)
                         /\ k # 1 => u <= b
                         /\ k = 1 => b = p.socMax
  <2>1. CASE k = 1
    <3>1. P("max") = Change(p, p.socMax)
        BY <1>2, <2>1 DEF Before
    <3> QED
        BY <1>1, <1>12, <1>13, <2>1, <3>1
  <2>2. CASE k # 1
    <3>1. P("max") = Change(p, Row(p, k - 1).max)
        BY <1>2, <1>3, <2>2 DEF Before
    <3> QED
        BY <1>2, <1>7, <1>11, <1>12, <1>13, <2>2, <3>1
  <2> QED
      BY <2>1, <2>2
<1>20. P("min") # None =>
          \E b \in Int : /\ P("min") = C(b)
                         /\ k # 1 => b <= u
                         /\ k = 1 => b = p.socMin
  <2>1. CASE k = 1
    <3>1. P("min") = Change(p, p.socMin)
        BY <1>2, <2>1 DEF Before
    <3> QED
        BY <1>1, <1>12, <1>13, <2>1, <3>1
  <2>2. CASE k # 1
    <3>1. P("min") = Change(p, Row(p, k - 1).min)
        BY <1>2, <1>3, <2>2 DEF Before
    <3> QED
        BY <1>2, <1>7, <1>11, <1>12, <1>13, <2>2, <3>1
  <2> QED
      BY <2>1, <2>2
\* Rises between the rows and falls between them are no larger than the schedule's.
<1>21. ASSUME NEW a \in Int, NEW b \in Int, a <= v, b # None,
              k # 1 => u <= b, k = 1 => a <= b
       PROVE  C(a) - C(b) <= most
  <2>1. CASE k = 1
    <3>1. C(a) <= C(b) /\ C(a) \in Int /\ C(b) \in Int
        BY <1>12, <1>14, <1>21, <2>1
    <3> QED
        BY <1>15, <3>1
  <2>2. CASE k # 1
    <3>1. r * p.consumption \in Int
        BY <1>1
    <3>2. a - b <= r * p.consumption
        BY <1>2, <1>9, <1>21, <2>2, <3>1
    <3> QED
        BY <1>15, <3>2
  <2> QED
      BY <2>1, <2>2
<1>22. ASSUME NEW a \in Int, NEW b \in Int, v <= a,
              k # 1 => b <= u, k = 1 => b <= a
       PROVE  least <= C(a) - C(b)
  <2>1. CASE k = 1
    <3>1. C(b) <= C(a) /\ C(a) \in Int /\ C(b) \in Int
        BY <1>12, <1>14, <1>22, <2>1
    <3> QED
        BY <1>15, <3>1
  <2>2. CASE k # 1
    <3>1. r * p.production \in Int
        BY <1>1
    <3>2. b - a <= r * p.production
        BY <1>2, <1>9, <1>22, <2>2, <3>1
    <3> QED
        BY <1>15, <3>2
  <2> QED
      BY <2>1, <2>2
<1> HIDE DEF P, low, high, exact, most, least, C
<1>32. most \in Int
    BY <1>15
\* Values that are ordered lead to columns that are.
<1>30. ASSUME NEW a, NEW b, a # None => \E x \in Int : a = C(x) /\ x <= v,
              b # None => \E y \in Int : b = C(y) /\ v <= y
       PROVE  ~ Exceeds(a, b)
  <2> SUFFICES ASSUME a # None, b # None
               PROVE  ~ (b < a)
      BY DEF Exceeds
  <2>1. PICK x \in Int : a = C(x) /\ x <= v
      BY <1>30
  <2>2. PICK y \in Int : b = C(y) /\ v <= y
      BY <1>30
  <2>3. x <= y
      BY <1>2, <2>1, <2>2
  <2>4. C(x) <= C(y) /\ C(x) \in Int /\ C(y) \in Int
      BY <1>12, <1>14, <2>3
  <2> QED
      BY <2>1, <2>2, <2>4
<1>31. /\ low # None => row.min \in Int /\ low = C(row.min) /\ row.min <= v
       /\ high # None => row.max \in Int /\ high = C(row.max) /\ v <= row.max
       /\ exact # None => v \in Int /\ exact = C(v) /\ v <= v
    BY <1>1, <1>2, <1>10, <1>17
<1>23. ~ Exceeds(Change(p, p.socMin), low) /\ ~ Exceeds(high, Change(p, p.socMax))
  <2>1. ASSUME Change(p, p.socMin) # None, low # None
        PROVE  ~ (low < Change(p, p.socMin))
    <3>1. p.socMin \in Int /\ p.socMin <= row.min /\ Change(p, p.socMin) = C(p.socMin)
        BY <1>1, <1>6, <1>12, <1>13, <1>31, <2>1
    <3>2. C(p.socMin) <= C(row.min) /\ C(p.socMin) \in Int /\ C(row.min) \in Int
        BY <1>12, <1>14, <1>31, <2>1, <3>1
    <3> QED
        BY <1>31, <2>1, <3>1, <3>2
  <2>2. ASSUME Change(p, p.socMax) # None, high # None
        PROVE  ~ (Change(p, p.socMax) < high)
    <3>1. p.socMax \in Int /\ row.max <= p.socMax /\ Change(p, p.socMax) = C(p.socMax)
        BY <1>1, <1>6, <1>12, <1>13, <1>31, <2>2
    <3>2. C(row.max) <= C(p.socMax) /\ C(p.socMax) \in Int /\ C(row.max) \in Int
        BY <1>12, <1>14, <1>31, <2>2, <3>1
    <3> QED
        BY <1>31, <2>2, <3>1, <3>2
  <2> QED
      BY <2>1, <2>2 DEF Exceeds
<1>24. /\ ~ Exceeds(low, high) /\ ~ Exceeds(low, exact) /\ ~ Exceeds(exact, high)
    BY <1>30, <1>31
<1>25. ~ Exceeds(Minus(exact, P("equals")), most) /\ ~ Exceeds(least, Minus(exact, P("equals")))
  <2>1. C(v) - C(u) <= most
      BY <1>2, <1>9, <1>15
  <2>2. least <= C(v) - C(u)
      BY <1>2, <1>9, <1>15
  <2>3. C(v) \in Int /\ C(u) \in Int
      BY <1>2, <1>12
  <2> SUFFICES ASSUME exact # None, P("equals") # None
               PROVE  ~ (most < exact - P("equals")) /\ ~ (exact - P("equals") < least)
      BY DEF Exceeds, Minus
  <2>4. exact = C(v) /\ P("equals") = C(u)
      BY <1>17, <1>18
  <2> QED
      BY <1>15, <1>32, <2>1, <2>2, <2>3, <2>4, Apart
<1>26. ~ Exceeds(Minus(low, P("max")), most)
  <2> SUFFICES ASSUME low # None, P("max") # None
               PROVE  ~ (most < low - P("max"))
      BY DEF Exceeds, Minus
  <2>1. PICK b \in Int : P("max") = C(b) /\ (k # 1 => u <= b) /\ (k = 1 => b = p.socMax)
      BY <1>19
  <2>2. row.min \in Int /\ low = C(row.min) /\ row.min # None /\ row.min <= v
      BY <1>1, <1>10, <1>17
  <2>3. k = 1 => row.min <= b
      BY <1>1, <1>6, <2>1, <2>2
  <2>4. C(row.min) - C(b) <= most
      BY <1>1, <1>21, <2>1, <2>2, <2>3
  <2> QED
      BY <1>12, <1>32, <2>1, <2>2, <2>4, Apart
<1>27. ~ Exceeds(least, Minus(high, P("min")))
  <2> SUFFICES ASSUME high # None, P("min") # None
               PROVE  ~ (high - P("min") < least)
      BY DEF Exceeds, Minus
  <2>1. PICK b \in Int : P("min") = C(b) /\ (k # 1 => b <= u) /\ (k = 1 => b = p.socMin)
      BY <1>20
  <2>2. row.max \in Int /\ high = C(row.max) /\ row.max # None /\ v <= row.max
      BY <1>1, <1>10, <1>17
  <2>3. k = 1 => b <= row.max
      BY <1>1, <1>6, <2>1, <2>2
  <2>4. least <= C(row.max) - C(b)
      BY <1>22, <2>1, <2>2, <2>3
  <2> QED
      BY <1>12, <1>15, <2>1, <2>2, <2>4, Apart
<1>28. ~ Exceeds(Minus(exact, P("max")), most)
  <2> SUFFICES ASSUME exact # None, P("max") # None
               PROVE  ~ (most < exact - P("max"))
      BY DEF Exceeds, Minus
  <2>1. PICK b \in Int : P("max") = C(b) /\ (k # 1 => u <= b) /\ (k = 1 => b = p.socMax)
      BY <1>19
  <2>2. k = 1 => v <= b
      BY <1>1, <1>8, <2>1
  <2>3. C(v) - C(b) <= most
      BY <1>1, <1>2, <1>21, <2>1, <2>2
  <2> QED
      BY <1>2, <1>12, <1>15, <1>17, <2>1, <2>3
<1>29. ~ Exceeds(least, Minus(exact, P("min")))
  <2> SUFFICES ASSUME exact # None, P("min") # None
               PROVE  ~ (exact - P("min") < least)
      BY DEF Exceeds, Minus
  <2>1. PICK b \in Int : P("min") = C(b) /\ (k # 1 => b <= u) /\ (k = 1 => b = p.socMin)
      BY <1>20
  <2>2. k = 1 => b <= v
      BY <1>1, <1>8, <2>1
  <2>3. least <= C(v) - C(b)
      BY <1>2, <1>22, <2>1, <2>2
  <2> QED
      BY <1>2, <1>12, <1>15, <1>17, <2>1, <2>3
<1> QED
    BY <1>16, <1>23, <1>24, <1>25, <1>26, <1>27, <1>28, <1>29

-----------------------------------------------------------------------------
(* What a schedule that does as asked has at a tick.                       *)

Times(p) == 0..p.ticks * p.res

Rule(p, f) ==
    /\ \A t \in Times(p) : At(p, f, t) \in Int /\ WithinLimits(p, At(p, f, t))
    /\ \A t, u \in Times(p) : t < u => MovesFrom(p, At(p, f, t), At(p, f, u), u - t)

\* A stock that does as asked changes, between any two times, by no more than the device can
\* charge or discharge meanwhile.
LEMMA AskedRules ==
    ASSUME NEW p, FlexModel(p), NEW f \in [1..p.ticks * p.res -> Int],
           DoesAsAsked(p, f)
    PROVE  Rule(p, f)
<1>1. /\ \A t \in Times(p) : WithinLimits(p, At(p, f, t))
      /\ \A t, u \in Times(p) : t < u => MovesFrom(p, At(p, f, t), At(p, f, u), u - t)
    BY DEF DoesAsAsked, Times
<1>2. ASSUME NEW t \in Times(p)
      PROVE  At(p, f, t) \in Int
  <2>1. p.start \in Int
      BY ProblemsAssumption DEF FlexModel
  <2>2. p.ticks * p.res \in Int
      BY DEF FlexModel
  <2>3. t # 0 => t \in 1..p.ticks * p.res
      BY <2>2 DEF Times
  <2> QED
      BY <2>1, <2>3 DEF At
<1> QED
    BY <1>1, <1>2 DEF Rule

\* The stock an event asks for is within reach of the projected bound.
LEMMA BoundsAreReached ==
    ASSUME NEW p, FlexModel(p), NEW f, Rule(p, f),
           NEW rule \in Policy, NEW e \in Events, e.end \in Times(p),
           TickOf(p, rule, e) \in Times(p)
    PROVE  LET v == At(p, f, TickOf(p, rule, e))
           IN /\ rule.bound = "min" /\ e.value <= At(p, f, e.end) =>
                    Loosened(p, rule, e) <= v
              /\ rule.bound = "max" /\ At(p, f, e.end) <= e.value =>
                    v <= Loosened(p, rule, e)
<1> DEFINE T == TickOf(p, rule, e)
           v == At(p, f, T)
           w == At(p, f, e.end)
           up == p.consumption * p.up
           down == p.production * p.down
           reach == Reachable(p, rule, e)
           ahead == rule.tick = "previous"
<1>1. v \in Int /\ w \in Int /\ WithinLimits(p, v)
    BY DEF Rule
<1>2. e.end \in Nat /\ e.value \in Int
    BY ProblemsAssumption DEF Events
<1>3. /\ ahead => T = Previous(p, e.end)
      /\ ~ ahead => T = Following(p, e.end)
    BY DEF TickOf
<1>4. T \in Nat /\ (ahead => T <= e.end) /\ (~ ahead => e.end < T)
    BY <1>2, <1>3, TicksAround
<1>5. reach \in Nat
    BY ReachableIsAmount
<1>16. Previous(p, e.end) \in Nat /\ p.ticks * p.res \in Nat /\ p.res \in Nat \ {0}
  <2>1. p.ticks \in Nat /\ p.res \in Nat \ {0}
      BY DEF FlexModel
  <2> QED
      BY <1>2, <2>1, TicksAround
<1>17. T = e.end \/ Previous(p, e.end) < p.ticks * p.res
  <2>1. T <= p.ticks * p.res /\ e.end <= p.ticks * p.res
      BY <1>16 DEF Times
  <2>2. ~ ahead => T = Previous(p, e.end) + p.res
      BY <1>3 DEF Following
  <2> QED
      BY <1>2, <1>3, <1>4, <1>16, <2>1, <2>2
<1>6. T = e.end \/ /\ ahead /\ rule.bound = "min" => reach = (e.end - T) * up
                   /\ ahead /\ rule.bound = "max" => reach = (e.end - T) * down
                   /\ ~ ahead /\ rule.bound = "min" => reach = (T - e.end) * down
                   /\ ~ ahead /\ rule.bound = "max" => reach = (T - e.end) * up
    BY <1>3, <1>17, ReachableWithin
<1>7. /\ T < e.end => MovesFrom(p, v, w, e.end - T)
      /\ e.end < T => MovesFrom(p, w, v, T - e.end)
    BY DEF Rule
<1>8. /\ T < e.end => w - v <= (e.end - T) * up /\ v - w <= (e.end - T) * down
      /\ e.end < T => v - w <= (T - e.end) * up /\ w - v <= (T - e.end) * down
    BY <1>7 DEF MovesFrom, Rise, Fall
<1>9. T = e.end => v = w
    OBVIOUS
<1> HIDE DEF T, v, w, up, down, reach, ahead
<1>10. rule.bound = "min" => w - v <= reach
    BY <1>1, <1>2, <1>4, <1>5, <1>6, <1>8, <1>9
<1>11. rule.bound = "max" => v - w <= reach
    BY <1>1, <1>2, <1>4, <1>5, <1>6, <1>8, <1>9
<1>12. /\ p.socMin # None => p.socMin \in Int /\ p.socMin <= v
       /\ p.socMax # None => p.socMax \in Int /\ v <= p.socMax
    BY <1>1, ProblemsAssumption
       DEF WithinLimits, FlexModel, Limits, AtLeast, AtMost, Larger, Smaller
<1>13. Loosened(p, rule, e) = IF rule.bound = "min" THEN AtLeast(p.socMin, e.value - reach)
                              ELSE AtMost(p.socMax, e.value + reach)
    BY DEF Loosened, reach
<1>14. rule.bound = "min" /\ e.value <= w => Loosened(p, rule, e) <= v
    BY <1>1, <1>2, <1>5, <1>10, <1>12, <1>13 DEF AtLeast, Larger
<1>15. rule.bound = "max" /\ w <= e.value => v <= Loosened(p, rule, e)
    BY <1>1, <1>2, <1>5, <1>11, <1>12, <1>13 DEF AtMost, Smaller
<1> QED
    BY <1>14, <1>15 DEF T, v, w

\* A schedule that does as asked meets the events that are projected.
LEMMA OffTickIsMet ==
    ASSUME NEW p, FlexModel(p), EndInside(p), NEW f, DoesAsAsked(p, f),
           NEW field \in Fields, NEW e \in OffTick(p, field)
    PROVE  /\ e.end \in Times(p)
           /\ field # "maxima" => e.value <= At(p, f, e.end)
           /\ field # "minima" => At(p, f, e.end) <= e.value
<1>0. e \in Events
    BY OffTickAreEvents
<1>1. e.end \in Nat /\ e.value \in Int
    BY <1>0, ProblemsAssumption DEF Events
<1>2. p.ticks \in Nat \ {0} /\ p.res \in Nat \ {0} /\ p.ticks * p.res \in Nat
    BY DEF FlexModel
<1>3. p.res <= p.ticks * p.res
  <2>1. \A a \in Nat \ {0}, b \in Nat \ {0} : b <= a * b
      OBVIOUS
  <2> QED
      BY <1>2, <2>1
<1>4. CASE field = "at_start"
  <2>1. /\ e = [start |-> p.knownAt, end |-> p.knownAt, value |-> p.start]
        /\ 0 < p.knownAt /\ p.knownAt < p.res
      BY <1>4 DEF OffTick
  <2>2. e.end = p.knownAt /\ e.value = p.start /\ p.knownAt \in Nat
      BY <2>1 DEF FlexModel
  <2>3. e.end \in Times(p)
      BY <1>2, <1>3, <2>1, <2>2 DEF Times
  <2>4. At(p, f, e.end) = p.start
    <3>1. \A t \in Times(p) : t <= p.knownAt /\ p.knownAt < p.res => At(p, f, t) = p.start
        BY DEF DoesAsAsked, Times
    <3> QED
        BY <1>1, <2>1, <2>2, <2>3, <3>1
  <2> QED
      BY <1>1, <2>2, <2>3, <2>4
<1>5. CASE field # "at_start"
  <2>1. PICK j \in DOMAIN EventsOf(p, field) :
            e = EventsOf(p, field)[j] /\ e.start = e.end
      BY <1>5 DEF OffTick
  <2>2. e.end \in Times(p)
    <3>1. e.end <= p.ticks * p.res
        BY <1>5 DEF EndInside, Fields
    <3> QED
        BY <1>1, <1>2, <3>1 DEF Times
  <2>3. e.end \in {t \in Times(p) : e.start <= t /\ t <= e.end}
      BY <1>1, <2>1, <2>2
  <2>4. CASE field = "targets"
    <3>1. EventsOf(p, field) = p.targets
        BY <2>4 DEF EventsOf
    <3>2. At(p, f, e.end) = e.value
        BY <2>1, <2>3, <3>1 DEF DoesAsAsked, Times
    <3> QED
        BY <1>1, <2>2, <3>2
  <2>5. CASE field = "minima"
    <3>1. EventsOf(p, field) = p.minima
        BY <2>5 DEF EventsOf
    <3>2. e.value <= At(p, f, e.end)
        BY <2>1, <2>3, <3>1 DEF DoesAsAsked, Times
    <3> QED
        BY <2>2, <2>5, <3>2
  <2>6. CASE field = "maxima"
    <3>1. EventsOf(p, field) = p.maxima
        BY <2>6 DEF EventsOf
    <3>2. At(p, f, e.end) <= e.value
        BY <2>1, <2>3, <3>1 DEF DoesAsAsked, Times
    <3> QED
        BY <2>2, <2>6, <3>2
  <2> QED
      BY <1>5, <2>4, <2>5, <2>6 DEF Fields
<1> QED
    BY <1>4, <1>5

\* It keeps to every projected bound,
LEMMA ProjectedIsKept ==
    ASSUME NEW p, FlexModel(p), EndInside(p),
           NEW f \in [1..p.ticks * p.res -> Int], DoesAsAsked(p, f),
           NEW k, k * p.res \in Times(p)
    PROVE  /\ \A x \in Projected(p, "min", k) : x <= At(p, f, k * p.res)
           /\ \A x \in Projected(p, "max", k) : At(p, f, k * p.res) <= x
<1> SUFFICES ASSUME NEW bound \in {"min", "max"}, NEW x \in Projected(p, bound, k)
             PROVE  /\ bound = "min" => x <= At(p, f, k * p.res)
                    /\ bound = "max" => At(p, f, k * p.res) <= x
    OBVIOUS
<1>1. PICK rule \in Policy : rule.bound = bound /\ \E e \in OffTick(p, rule.field) :
          TickOf(p, rule, e) = k * p.res /\ x = Loosened(p, rule, e)
    BY DEF Projected
<1>2. PICK e \in OffTick(p, rule.field) :
          TickOf(p, rule, e) = k * p.res /\ x = Loosened(p, rule, e)
    BY <1>1
<1>3. /\ rule.field \in Fields
      /\ bound = "min" => rule.field # "maxima"
      /\ bound = "max" => rule.field # "minima"
    BY <1>1, PolicyRules
<1>4. e \in Events
    BY <1>2, <1>3, OffTickAreEvents
<1>5. /\ e.end \in Times(p)
      /\ bound = "min" => e.value <= At(p, f, e.end)
      /\ bound = "max" => At(p, f, e.end) <= e.value
    BY <1>2, <1>3, OffTickIsMet
<1>6. Rule(p, f)
    BY AskedRules
<1> QED
    BY <1>1, <1>2, <1>4, <1>5, <1>6, BoundsAreReached

\* to every stated value,
LEMMA ValuesAreKept ==
    ASSUME NEW p, FlexModel(p), NEW f, DoesAsAsked(p, f),
           NEW k, k * p.res \in Times(p)
    PROVE  /\ \A x \in Values(p, p.minima, k) : x <= At(p, f, k * p.res)
           /\ \A x \in Values(p, p.maxima, k) : At(p, f, k * p.res) <= x
<1>1. ASSUME NEW i \in Covering(p, p.minima, k)
      PROVE  p.minima[i].value <= At(p, f, k * p.res)
  <2>1. /\ i \in DOMAIN p.minima
        /\ k * p.res \in {t \in Times(p) : p.minima[i].start <= t /\ t <= p.minima[i].end}
      BY DEF Covering
  <2> QED
      BY <2>1 DEF DoesAsAsked, Times
<1>2. ASSUME NEW i \in Covering(p, p.maxima, k)
      PROVE  At(p, f, k * p.res) <= p.maxima[i].value
  <2>1. /\ i \in DOMAIN p.maxima
        /\ k * p.res \in {t \in Times(p) : p.maxima[i].start <= t /\ t <= p.maxima[i].end}
      BY DEF Covering
  <2> QED
      BY <2>1 DEF DoesAsAsked, Times
<1> QED
    BY <1>1, <1>2 DEF Values

\* and so to the rows.
LEMMA RowsRuleNothingOut ==
    ASSUME NEW p, FlexModel(p), EndInside(p),
           NEW f \in [1..p.ticks * p.res -> Int], DoesAsAsked(p, f),
           NEW k \in 1..p.ticks
    PROVE  LET r == Row(p, k)
               v == f[k * p.res]
           IN /\ r.min # None => r.min <= v
              /\ r.max # None => v <= r.max
              /\ r.softMin # None => r.softMin <= v
              /\ r.softMax # None => v <= r.softMax
<1> DEFINE T == k * p.res
           v == f[T]
           low == Projected(p, "min", k)
           high == Projected(p, "max", k)
           lows == low \cup Values(p, p.minima, k)
           highs == high \cup Values(p, p.maxima, k)
           hardMin == IF "minima" \in p.relaxed THEN None
                      ELSE HardValue(p, "min", p.minima, low, k)
           hardMax == IF "maxima" \in p.relaxed THEN None
                      ELSE HardValue(p, "max", p.maxima, high, k)
<1>1. T \in 1..p.ticks * p.res /\ T \in Times(p) /\ At(p, f, T) = v /\ v \in Int
  <2>1. p.ticks \in Nat /\ p.res \in Nat \ {0} /\ k \in Nat \ {0} /\ k <= p.ticks
      BY DEF FlexModel
  <2>2. \A a, b \in Nat, c \in Nat \ {0} : a <= b => a * c <= b * c
      OBVIOUS
  <2>3. \A a, b \in Nat \ {0} : a * b \in Nat \ {0}
      OBVIOUS
  <2>4. T \in Nat \ {0} /\ T <= p.ticks * p.res
      BY <2>1, <2>2, <2>3
  <2>5. p.ticks * p.res \in Nat
      BY <2>1
  <2>6. T \in 1..p.ticks * p.res /\ T \in Times(p)
      BY <2>4, <2>5 DEF Times
  <2> QED
      BY <2>4, <2>6 DEF At
<1>2. /\ \A x \in lows : x \in Int /\ x <= v
      /\ \A x \in highs : x \in Int /\ v <= x
  <2>1. p.minima \in Seq(Events) /\ p.maxima \in Seq(Events)
      BY DEF FlexModel
  <2>2. \A x \in lows \cup highs : x \in Int
      BY <2>1, ProjectedIsBounded, ValuesAreBounded DEF Bounded
  <2>3. /\ \A x \in low : x <= v
        /\ \A x \in high : v <= x
      BY <1>1, ProjectedIsKept
  <2>4. /\ \A x \in Values(p, p.minima, k) : x <= v
        /\ \A x \in Values(p, p.maxima, k) : v <= x
      BY <1>1, ValuesAreKept
  <2> QED
      BY <2>2, <2>3, <2>4
<1>3. WithinLimits(p, v)
    BY <1>1, AskedRules DEF Rule
<1>4. /\ Bounded("min", low) /\ Bounded("max", high)
      /\ p.minima \in Seq(Events) /\ p.maxima \in Seq(Events)
    BY ProjectedIsBounded DEF FlexModel
<1>5. hardMin \in lows \cup {None} /\ hardMax \in highs \cup {None}
    BY <1>4, HardValueApplies
<1>6. /\ Row(p, k).softMin \in lows \cup {None}
      /\ Row(p, k).softMax \in highs \cup {None}
    BY <1>4, SoftValueApplies DEF Row
<1>7. /\ Row(p, k).min = Clip(p, OrElse(hardMin, p.socMin))
      /\ Row(p, k).max = Clip(p, OrElse(hardMax, p.socMax))
    BY DEF Row
<1>8. /\ p.socMin \in Int \cup {None} /\ p.socMax \in Int \cup {None}
      /\ p.socMin # None => p.socMin <= v
      /\ p.socMax # None => v <= p.socMax
    BY SMTT(30), <1>1, <1>3, ProblemsAssumption
       DEF WithinLimits, FlexModel, Limits, AtLeast, AtMost, Larger, Smaller
<1> HIDE DEF hardMin, hardMax, v, lows, highs
<1>9. /\ OrElse(hardMin, p.socMin) \in Int \cup {None}
      /\ OrElse(hardMin, p.socMin) # None => OrElse(hardMin, p.socMin) <= v
    BY <1>2, <1>5, <1>8 DEF OrElse
<1>10. /\ OrElse(hardMax, p.socMax) \in Int \cup {None}
       /\ OrElse(hardMax, p.socMax) # None => v <= OrElse(hardMax, p.socMax)
    BY <1>2, <1>5, <1>8 DEF OrElse
<1> DEFINE stated == OrElse(hardMin, p.socMin)
           capped == OrElse(hardMax, p.socMax)
<1> HIDE DEF stated, capped
<1>14. v \in Int
    BY <1>1
<1>11. Row(p, k).min # None => Row(p, k).min <= v
  <2>1. /\ stated \in Int \cup {None}
        /\ stated # None => stated <= v
        /\ Row(p, k).min = Clip(p, stated)
      BY <1>7, <1>9 DEF stated
  <2> QED
      BY <1>3, <1>14, <2>1, ClipIsBetween
<1>12. Row(p, k).max # None => v <= Row(p, k).max
  <2>1. /\ capped \in Int \cup {None}
        /\ capped # None => v <= capped
        /\ Row(p, k).max = Clip(p, capped)
      BY <1>7, <1>10 DEF capped
  <2> QED
      BY <1>3, <1>14, <2>1, ClipIsBetween
<1>13. /\ Row(p, k).softMin # None => Row(p, k).softMin <= v
       /\ Row(p, k).softMax # None => v <= Row(p, k).softMax
    BY <1>2, <1>6
<1> QED
    BY <1>11, <1>12, <1>13 DEF v

-----------------------------------------------------------------------------

\* What is prepared is made of the flex-model that was sent.
PreparedFromProblem ==
    /\ problem # None => problem \in Problems
    /\ problem = None => prepared = None
    /\ prepared # None =>
          /\ problem \in Problems
          /\ prepared.rows = Rows(problem)
          /\ prepared.refused => Violations(problem, Rows(problem)) # {}

\* What was prepared was prepared from the flex-model that was triggered.
LEMMA PreparedInvariance == SSpec => []PreparedFromProblem
<1>1. SInit => PreparedFromProblem
    BY DEF SInit, PreparedFromProblem
<1>2. PreparedFromProblem /\ [SNext]_svars => PreparedFromProblem'
  <2> SUFFICES ASSUME PreparedFromProblem, [SNext]_svars
               PROVE  PreparedFromProblem'
      OBVIOUS
  <2>1. CASE Trigger
      BY <2>1 DEF Trigger, PreparedFromProblem
  <2>2. CASE Prepare
    <3> DEFINE refused == Violations(problem, Rows(problem)) # {}
               rows == Rows(problem)
    <3>1. /\ prepared' = [rows |-> rows, refused |-> refused]
          /\ problem' = problem /\ problem # None
        BY <2>2 DEF Prepare
    <3>2. problem \in Problems /\ Rows(problem') = rows
          /\ (Violations(problem', Rows(problem')) # {}) = refused
        BY <3>1 DEF PreparedFromProblem
    <3> HIDE DEF refused, rows
    <3>3. prepared'.rows = rows /\ prepared'.refused = refused
        BY <3>1, Zenon
    <3> QED
        BY <3>1, <3>2, <3>3 DEF PreparedFromProblem
  <2>3. CASE UNCHANGED svars
      BY <2>3 DEF svars, PreparedFromProblem
  <2> QED
      BY <2>1, <2>2, <2>3 DEF SNext
<1> QED
    BY <1>1, <1>2, PTL DEF SSpec

\* validate_storage_constraints looks at two rows at a time, but where it compares like
\* with like it refuses no problem that has a solution.
THEOREM RefusedProblemsAreInfeasible == SSpec => []AlarmsAreReal
<1>1. PreparedFromProblem => AlarmsAreReal
  <2> SUFFICES ASSUME PreparedFromProblem, prepared # None, prepared.refused,
                      Comparable(problem, prepared.rows),
                      NEW s \in [1..problem.ticks -> Soc],
                      Follows(problem, prepared.rows, s)
               PROVE  FALSE
      BY DEF AlarmsAreReal
  <2>1. /\ prepared.rows = Rows(problem) /\ problem \in Problems
        /\ Violations(problem, Rows(problem)) # {}
      BY DEF PreparedFromProblem
  <2>2. FlexModel(problem)
      BY <2>1, ProblemsAreFlexModels
  <2>3. s \in [1..problem.ticks -> Int]
      BY ProblemsAssumption
  <2>4. PICK x \in {"A1", "A2", "B1", "B2", "B3", "C1", "C2", "C3", "C4", "C5", "C6"}
                  \X (1..problem.ticks) :
            Exceeds(Checks(problem, Rows(problem), x[2])[x[1]][1],
                    Checks(problem, Rows(problem), x[2])[x[1]][2])
      BY <2>1 DEF Violations
  <2>5. /\ x[1] \in {"A1", "A2", "B1", "B2", "B3", "C1", "C2", "C3", "C4", "C5", "C6"}
        /\ x[2] \in 1..problem.ticks
      BY <2>4
  <2> QED
      BY <2>1, <2>2, <2>3, <2>4, <2>5, NoCheckFails
<1> QED
    BY PreparedInvariance, <1>1, PTL

\* The bounds project_soc_events puts on the ticks are met by every schedule that meets
\* the events where they are.
THEOREM ProjectionRulesNothingOut == SSpec => []NothingRuledOut
<1>1. PreparedFromProblem => NothingRuledOut
  <2> SUFFICES ASSUME PreparedFromProblem, prepared # None, EndInside(problem),
                      NEW f \in [1..problem.ticks * problem.res -> Soc],
                      DoesAsAsked(problem, f), NEW k \in 1..problem.ticks
               PROVE  LET r == prepared.rows[k]
                          v == f[k * problem.res]
                      IN /\ r.min # None => r.min <= v
                         /\ r.max # None => v <= r.max
                         /\ r.softMin # None => r.softMin <= v
                         /\ r.softMax # None => v <= r.softMax
      BY DEF NothingRuledOut
  <2>1. prepared.rows[k] = Row(problem, k) /\ problem \in Problems
      BY DEF PreparedFromProblem, Rows
  <2>2. FlexModel(problem)
      BY <2>1, ProblemsAreFlexModels
  <2>3. f \in [1..problem.ticks * problem.res -> Int]
      BY ProblemsAssumption
  <2> QED
      BY <2>1, <2>2, <2>3, RowsRuleNothingOut
<1> QED
    BY PreparedInvariance, <1>1, PTL

-----------------------------------------------------------------------------
(* The value of a tick is the strictest of those that apply to it, unless  *)
(* two events of a list overlap there.                                     *)

\* The strictest value is at least as strict as each.
LEMMA StrictestIsStrictest ==
    ASSUME NEW bound \in {"min", "max"}, NEW values, Bounded(bound, values),
           NEW v \in values
    PROVE  /\ Strictest(bound, values) \in Int
           /\ bound = "min" => v <= Strictest(bound, values)
           /\ bound = "max" => Strictest(bound, values) <= v
<1>0. MaxSoc \in Int
    BY ProblemsAssumption
<1>1. CASE bound = "min"
    BY <1>0, <1>1, MaxIsThere DEF Bounded, Strictest
<1>2. CASE bound = "max"
  <2>1. values \in SUBSET Int /\ values # {} /\ 0 \in Int /\ \A x \in values : 0 <= x
      BY <1>2 DEF Bounded
  <2>2. Min(values) \in values /\ \A y \in values : Min(values) <= y
      BY <2>1, MinIsThere
  <2> QED
      BY <1>2, <2>1, <2>2 DEF Strictest
<1> QED
    BY <1>1, <1>2

\* Of one event there is no last.
LEMMA OneIsLast ==
    ASSUME NEW i \in Int
    PROVE  Max({i}) = i /\ Min({i}) = i
<1>1. {i} \in SUBSET Int /\ {i} # {} /\ \A x \in {i} : x <= i /\ i <= x
    OBVIOUS
<1> QED
    BY <1>1, MaxIsThere, MinIsThere

\* The list that a kind of bound is stated in.
ListOf(bound) == IF bound = "min" THEN "minima" ELSE "maxima"

\* All that applies to the k-th tick.
Applying(p, bound, k) ==
    Projected(p, bound, k) \cup Values(p, EventsOf(p, ListOf(bound)), k)

\* Of what applies to a tick the strictest can be taken.
LEMMA ApplyingIsBounded ==
    ASSUME NEW p, FlexModel(p), NEW bound \in {"min", "max"}, NEW k
    PROVE  /\ EventsOf(p, ListOf(bound)) \in Seq(Events)
           /\ Bounded(bound, Projected(p, bound, k))
           /\ Bounded(bound, Applying(p, bound, k))
<1>1. EventsOf(p, ListOf(bound)) \in Seq(Events)
    BY DEF EventsOf, ListOf, FlexModel
<1> QED
    BY <1>1, ProjectedIsBounded, ValuesAreBounded DEF Bounded, Applying

\* A hard bound, where no two events overlap.
LEMMA HardValueIsStrictest ==
    ASSUME NEW p, FlexModel(p), NEW bound \in {"min", "max"}, NEW k,
           ~ Overlap(p, ListOf(bound), k), NEW v \in Applying(p, bound, k)
    PROVE  LET h == HardValue(p, bound, EventsOf(p, ListOf(bound)),
                              Projected(p, bound, k), k)
           IN /\ h \in Int
              /\ bound = "min" => v <= h
              /\ bound = "max" => h <= v
<1> DEFINE events == EventsOf(p, ListOf(bound))
           projected == Projected(p, bound, k)
           covering == Covering(p, events, k)
           points == {i \in covering : events[i].start = events[i].end}
           h == HardValue(p, bound, events, projected, k)
<1>1. /\ events \in Seq(Events) /\ Bounded(bound, projected)
      /\ Bounded(bound, projected \cup Values(p, events, k))
      /\ v \in projected \cup Values(p, events, k)
    BY ApplyingIsBounded DEF Applying
<1>2. /\ \A i, j \in covering : i = j
      /\ projected # {} => \A i \in covering : events[i].start = events[i].end
    BY DEF Overlap, Landed, ListOf
<1>3. \A i \in covering : i \in Int /\ events[i].value \in Int
  <2>1. \A i \in DOMAIN events : i \in Int /\ events[i] \in Events
      BY <1>1
  <2>2. covering \subseteq DOMAIN events
      BY DEF Covering
  <2> QED
      BY <2>1, <2>2, ProblemsAssumption DEF Events
<1>4. CASE covering = {}
  <2>1. v \in projected
      BY <1>1, <1>4 DEF Values
  <2>2. h = Strictest(bound, projected)
      BY <1>4, <2>1 DEF HardValue
  <2> QED
      BY <1>1, <2>1, <2>2, StrictestIsStrictest
<1>5. ASSUME NEW i \in covering PROVE h \in Int /\ (bound = "min" => v <= h)
                                      /\ (bound = "max" => h <= v)
  <2>1. covering = {i} /\ i \in Int
      BY <1>2, <1>3, <1>5
  <2>2. Max(covering) = i
      BY <2>1, OneIsLast
  <2>3. Values(p, events, k) = {events[i].value}
      BY <2>1 DEF Values
  <2>4. CASE projected = {}
    <3>1. h = events[i].value
        BY <2>1, <2>2, <2>4 DEF HardValue
    <3> QED
        BY <1>1, <1>3, <2>3, <2>4, <3>1
  <2>5. CASE projected # {}
    <3>1. points = {i}
        BY <1>2, <2>1, <2>5
    <3>2. Min(points) = i
        BY <2>1, <3>1, OneIsLast
    <3>3. h = Strictest(bound, projected \cup {events[i].value})
        BY <2>1, <2>2, <2>5, <3>1, <3>2 DEF HardValue
    <3> QED
        BY <1>1, <2>3, <3>3, StrictestIsStrictest
  <2> QED
      BY <2>4, <2>5
<1> QED
    BY <1>4, <1>5

\* The soft one always.
LEMMA SoftValueIsStrictest ==
    ASSUME NEW p, FlexModel(p), NEW bound \in {"min", "max"}, NEW k,
           NEW v \in Applying(p, bound, k)
    PROVE  LET s == SoftValue(p, bound, EventsOf(p, ListOf(bound)),
                              Projected(p, bound, k), k)
           IN /\ s \in Int
              /\ bound = "min" => v <= s
              /\ bound = "max" => s <= v
<1> DEFINE events == EventsOf(p, ListOf(bound))
<1>1. SoftValue(p, bound, events, Projected(p, bound, k), k)
        = Strictest(bound, Applying(p, bound, k))
    BY DEF SoftValue, Applying, Values
<1> QED
    BY <1>1, ApplyingIsBounded, StrictestIsStrictest

\* Clipping loosens a bound up to the limit on the other side at most.
LEMMA ClipKeeps ==
    ASSUME NEW p, FlexModel(p), NEW h \in Int, NEW v \in Int
    PROVE  /\ Clip(p, h) \in Int
           /\ v <= h => AtMost(p.socMax, v) <= Clip(p, h)
           /\ h <= v => Clip(p, h) <= AtLeast(p.socMin, v)
<1> DEFINE a == p.socMin
           b == p.socMax
<1>1. a \in Int \cup {None} /\ b \in Int \cup {None} /\ None \notin Int
    BY ProblemsAssumption DEF FlexModel, Limits
<1>2. Clip(p, h) = IF a = None \/ b = None THEN AtMost(b, AtLeast(a, h))
                   ELSE Smaller(Larger(a, b), Larger(Smaller(a, b), h))
  <2>1. None \in {a, b} <=> a = None \/ b = None
      OBVIOUS
  <2> QED
      BY <1>1, <2>1 DEF Clip
<1> HIDE DEF a, b
<1>3. CASE a = None
    BY <1>1, <1>2, <1>3 DEF AtMost, AtLeast, Smaller, a, b
<1>4. CASE a # None /\ b = None
    BY <1>1, <1>2, <1>4 DEF AtMost, AtLeast, Larger, a, b
<1>5. CASE a # None /\ b # None
    BY <1>1, <1>2, <1>5 DEF AtMost, AtLeast, Smaller, Larger, a, b
<1> QED
    BY <1>3, <1>4, <1>5

\* What applies to a tick without overlap is in its row, as far as the limits go.
LEMMA AppliesInRow ==
    ASSUME NEW p, FlexModel(p), NEW k
    PROVE  /\ Soft(p, "minima") \/ ~ Overlap(p, "minima", k) =>
                 \A v \in Applying(p, "min", k) :
                     \E x \in {Row(p, k).min, Row(p, k).softMin} \ {None} :
                         x \in Int /\ AtMost(p.socMax, v) <= x
           /\ Soft(p, "maxima") \/ ~ Overlap(p, "maxima", k) =>
                 \A v \in Applying(p, "max", k) :
                     \E x \in {Row(p, k).max, Row(p, k).softMax} \ {None} :
                         x \in Int /\ x <= AtLeast(p.socMin, v)
<1> DEFINE low == Projected(p, "min", k)
           high == Projected(p, "max", k)
           hmin == HardValue(p, "min", p.minima, low, k)
           hmax == HardValue(p, "max", p.maxima, high, k)
           smin == SoftValue(p, "min", p.minima, low, k)
           smax == SoftValue(p, "max", p.maxima, high, k)
<1>0. /\ None \notin Int /\ p.socMin \in Int \cup {None} /\ p.socMax \in Int \cup {None}
      /\ "min" \in {"min", "max"} /\ "max" \in {"min", "max"}
    BY ProblemsAssumption DEF FlexModel, Limits
<1>1. /\ ListOf("min") = "minima" /\ ListOf("max") = "maxima"
      /\ EventsOf(p, "minima") = p.minima /\ EventsOf(p, "maxima") = p.maxima
    BY DEF ListOf, EventsOf
<1>2. /\ \A v \in Applying(p, "min", k) : v \in Int
      /\ \A v \in Applying(p, "max", k) : v \in Int
    BY <1>0, ApplyingIsBounded DEF Bounded
<1>3. ASSUME NEW v \in Applying(p, "min", k), Soft(p, "minima")
      PROVE  \E x \in {Row(p, k).min, Row(p, k).softMin} \ {None} :
                 x \in Int /\ AtMost(p.socMax, v) <= x
  <2>1. Row(p, k).softMin = smin
      BY <1>3 DEF Row, Soft
  <2>2. smin \in Int /\ v <= smin
      BY <1>0, <1>1, SoftValueIsStrictest
  <2>3. AtMost(p.socMax, v) <= v
      BY <1>0, <1>2 DEF AtMost, Smaller
  <2>4. AtMost(p.socMax, v) \in Int
      BY <1>0, <1>2 DEF AtMost, Smaller
  <2> HIDE DEF smin
  <2> QED
      BY <1>0, <1>2, <2>1, <2>2, <2>3, <2>4
<1>4. ASSUME NEW v \in Applying(p, "min", k), ~ Soft(p, "minima"),
             ~ Overlap(p, "minima", k)
      PROVE  \E x \in {Row(p, k).min, Row(p, k).softMin} \ {None} :
                 x \in Int /\ AtMost(p.socMax, v) <= x
  <2>1. hmin \in Int /\ v <= hmin
      BY <1>0, <1>1, <1>4, HardValueIsStrictest
  <2>2. Row(p, k).min = Clip(p, OrElse(hmin, p.socMin))
      BY <1>4 DEF Row, Soft
  <2> HIDE DEF hmin
  <2>3. OrElse(hmin, p.socMin) = hmin
      BY <1>0, <2>1 DEF OrElse
  <2> QED
      BY <1>0, <1>2, <2>1, <2>2, <2>3, ClipKeeps
<1>5. ASSUME NEW v \in Applying(p, "max", k), Soft(p, "maxima")
      PROVE  \E x \in {Row(p, k).max, Row(p, k).softMax} \ {None} :
                 x \in Int /\ x <= AtLeast(p.socMin, v)
  <2>1. Row(p, k).softMax = smax
      BY <1>5 DEF Row, Soft
  <2>2. smax \in Int /\ smax <= v
      BY <1>0, <1>1, SoftValueIsStrictest
  <2>3. v <= AtLeast(p.socMin, v)
      BY <1>0, <1>2 DEF AtLeast, Larger
  <2>4. AtLeast(p.socMin, v) \in Int
      BY <1>0, <1>2 DEF AtLeast, Larger
  <2> HIDE DEF smax
  <2> QED
      BY <1>0, <1>2, <2>1, <2>2, <2>3, <2>4
<1>6. ASSUME NEW v \in Applying(p, "max", k), ~ Soft(p, "maxima"),
             ~ Overlap(p, "maxima", k)
      PROVE  \E x \in {Row(p, k).max, Row(p, k).softMax} \ {None} :
                 x \in Int /\ x <= AtLeast(p.socMin, v)
  <2>1. hmax \in Int /\ hmax <= v
      BY <1>0, <1>1, <1>6, HardValueIsStrictest
  <2>2. Row(p, k).max = Clip(p, OrElse(hmax, p.socMax))
      BY <1>6 DEF Row, Soft
  <2> HIDE DEF hmax
  <2>3. OrElse(hmax, p.socMax) = hmax
      BY <1>0, <2>1 DEF OrElse
  <2> QED
      BY <1>0, <1>2, <2>1, <2>2, <2>3, ClipKeeps
<1> QED
    BY <1>3, <1>4, <1>5, <1>6

\* Where one target applies to a tick, or targets are relaxed, the row has the first.
LEMMA TargetInRow ==
    ASSUME NEW p, FlexModel(p), NEW k,
           LET covering == Covering(p, MovedTargets(p), k)
           IN covering # {} /\ (TargetsRelaxed(p) \/ \A i, j \in covering : i = j)
    PROVE  LET first == MovedTargets(p)[Min(Covering(p, MovedTargets(p), k))].value
           IN /\ TargetsRelaxed(p) => Row(p, k).softTarget = first
              /\ ~ TargetsRelaxed(p) => Row(p, k).equals = first
<1> DEFINE covering == Covering(p, MovedTargets(p), k)
<1>1. CASE TargetsRelaxed(p)
    BY <1>1 DEF Row, TargetValue
<1>2. CASE ~ TargetsRelaxed(p)
  <2>1. PICK i \in covering : covering = {i}
      BY <1>2
  <2>2. i \in Int
    <3>1. DOMAIN MovedTargets(p) = DOMAIN p.targets /\ DOMAIN p.targets \subseteq Int
      <4>1. DOMAIN MovedTargets(p) = DOMAIN p.targets
          BY DEF MovedTargets
      <4>2. p.targets \in Seq(Events)
          BY DEF FlexModel
      <4> QED
          BY <4>1, <4>2
    <3> QED
        BY <3>1 DEF Covering
  <2>3. Max(covering) = i /\ Min(covering) = i
      BY <2>1, <2>2, OneIsLast
  <2> QED
      BY <1>2, <2>1, <2>3 DEF Row, TargetValue
<1> QED
    BY <1>1, <1>2

\* Where events do not overlap, or their list is relaxed, each stated value is in the row
\* of its ticks.
THEOREM StatedValuesAreKept == SSpec => []StatedValuesKept
<1>1. PreparedFromProblem => StatedValuesKept
  <2> SUFFICES ASSUME PreparedFromProblem, prepared # None,
                      NEW k \in 1..problem.ticks, NEW field \in Lists,
                      Soft(problem, field) \/ ~ Overlap(problem, field, k)
               PROVE  Resolved(problem, prepared.rows[k], field, k)
      BY DEF StatedValuesKept
  <2>1. prepared.rows[k] = Row(problem, k) /\ problem \in Problems
      BY DEF PreparedFromProblem, Rows
  <2>2. FlexModel(problem)
      BY <2>1, ProblemsAreFlexModels
  <2>3. CASE field = "targets"
    <3>1. Landed(problem, field) = MovedTargets(problem)
        BY <2>3 DEF Landed
    <3>2. TargetsRelaxed(problem)
            \/ \A i, j \in Covering(problem, MovedTargets(problem), k) : i = j
        BY <2>3, <3>1 DEF Soft, Overlap
    <3> QED
        BY <2>1, <2>2, <2>3, <3>1, <3>2, TargetInRow DEF Resolved
  <2>4. CASE field = "minima"
    <3>1. Landed(problem, field) = problem.minima
        BY <2>4 DEF Landed, EventsOf
    <3>2. \A i \in Covering(problem, problem.minima, k) :
              problem.minima[i].value \in Applying(problem, "min", k)
        BY DEF Applying, Values, ListOf, EventsOf
    <3> QED
        BY <2>1, <2>2, <2>4, <3>1, <3>2, AppliesInRow DEF Resolved
  <2>5. CASE field = "maxima"
    <3>1. Landed(problem, field) = problem.maxima
        BY <2>5 DEF Landed, EventsOf
    <3>2. \A i \in Covering(problem, problem.maxima, k) :
              problem.maxima[i].value \in Applying(problem, "max", k)
        BY DEF Applying, Values, ListOf, EventsOf
    <3> QED
        BY <2>1, <2>2, <2>5, <3>1, <3>2, AppliesInRow DEF Resolved
  <2> QED
      BY <2>3, <2>4, <2>5 DEF Lists
<1> QED
    BY PreparedInvariance, <1>1, PTL


-----------------------------------------------------------------------------
(* What is asked between two ticks can be met by stock that keeps to both. *)

\* No amount of stock between two that are possible is impossible, and events state
\* possible ones.
SocIsDense ==
    /\ 0..MaxSoc \subseteq Soc
    /\ \A a, b \in Soc : a..b \subseteq Soc

\* Products of durations and rates.
LEMMA RatesAdd ==
    ASSUME NEW c \in Nat, NEW x \in Int, NEW y \in Int
    PROVE  /\ x * c \in Int
           /\ x <= y => (y - x) * c \in Nat
           /\ (y - x) * c = y * c - x * c
           /\ x <= y => x * c <= y * c
<1>1. \A m, n \in Nat : m * n \in Nat
    OBVIOUS
<1>2. (y - x) * c = y * c - x * c /\ x * c \in Int /\ y * c \in Int
    OBVIOUS
<1>3. x <= y => y - x \in Nat
    OBVIOUS
<1> QED
    BY <1>1, <1>2, <1>3

\* As fast up from a as possible, no higher than top, and as late down to b as possible.
Peak(p, S, T, a, b, top, t) ==
    Smaller(Smaller(a + (t - S) * Rise(p), b + (T - t) * Fall(p)), top)

\* As fast down from a as possible, no lower than bottom, and as late up to b.
Valley(p, S, T, a, b, bottom, t) ==
    Larger(Larger(a - (t - S) * Fall(p), b - (T - t) * Rise(p)), bottom)

\* Devices charge and discharge at amounts per unit of time.
LEMMA RatesAreRates ==
    ASSUME NEW p, FlexModel(p)
    PROVE  Rise(p) \in Nat /\ Fall(p) \in Nat
<1>1. \A m, n \in Nat : m * n \in Nat
    OBVIOUS
<1> QED
    BY <1>1 DEF Rise, Fall, FlexModel

\* How far the two slopes move between two times.
LEMMA Slopes ==
    ASSUME NEW c \in Nat, NEW S \in Int, NEW T \in Int, NEW t \in Int, NEW u \in Int,
           t <= u
    PROVE  /\ (t - S) * c \in Int /\ (u - S) * c \in Int
           /\ (T - t) * c \in Int /\ (T - u) * c \in Int /\ (u - t) * c \in Nat
           /\ (u - S) * c = (t - S) * c + (u - t) * c
           /\ (T - t) * c = (T - u) * c + (u - t) * c
<1>1. /\ (u - t) * c = u * c - t * c /\ (u - t) * c \in Nat
    BY RatesAdd
<1>2. /\ (t - S) * c = t * c - S * c /\ (u - S) * c = u * c - S * c
      /\ (T - t) * c = T * c - t * c /\ (T - u) * c = T * c - u * c
      /\ t * c \in Int /\ u * c \in Int /\ S * c \in Int /\ T * c \in Int
    OBVIOUS
<1> QED
    BY <1>1, <1>2

\* A stock that rises as fast as it can to the top, stays, and falls in time: it is between its
\* ends and the top, and never moves faster than the device.
LEMMA PeakMoves ==
    ASSUME NEW p, FlexModel(p), NEW S \in Int, NEW T \in Int, S <= T,
           NEW a \in Int, NEW b \in Int, NEW top \in Int, a <= top, b <= top,
           MovesFrom(p, a, b, T - S)
    PROVE  /\ Peak(p, S, T, a, b, top, S) = a /\ Peak(p, S, T, a, b, top, T) = b
           /\ \A t \in S..T : /\ Peak(p, S, T, a, b, top, t) \in Smaller(a, b)..top
           /\ \A t, u \in S..T : t < u =>
                 MovesFrom(p, Peak(p, S, T, a, b, top, t), Peak(p, S, T, a, b, top, u),
                           u - t)
<1> DEFINE r == Rise(p)
           d == Fall(p)
<1>1. r \in Nat /\ d \in Nat
    BY RatesAreRates
<1>2. b - a <= (T - S) * r /\ a - b <= (T - S) * d
    BY DEF MovesFrom
<1> HIDE DEF r, d
<1>3. \A t : Peak(p, S, T, a, b, top, t)
                = Smaller(Smaller(a + (t - S) * r, b + (T - t) * d), top)
    BY DEF Peak, r, d
<1>4. \A x, y, n : MovesFrom(p, x, y, n) <=> y - x <= n * r /\ x - y <= n * d
    BY DEF MovesFrom, r, d
<1>5. /\ (S - S) * r = 0 /\ (T - T) * d = 0
      /\ (T - S) * r \in Int /\ (T - S) * d \in Int
    BY <1>1
<1>6. Peak(p, S, T, a, b, top, S) = a /\ Peak(p, S, T, a, b, top, T) = b
    BY <1>2, <1>3, <1>5 DEF Smaller
<1>7. ASSUME NEW t \in S..T
      PROVE  Peak(p, S, T, a, b, top, t) \in Smaller(a, b)..top
  <2>1. (t - S) * r \in Nat /\ (T - t) * d \in Nat
      BY <1>1, RatesAdd
  <2> QED
      BY <1>3, <2>1 DEF Smaller
<1>8. ASSUME NEW t \in S..T, NEW u \in S..T, t < u
      PROVE  MovesFrom(p, Peak(p, S, T, a, b, top, t), Peak(p, S, T, a, b, top, u), u - t)
  <2> DEFINE x == (t - S) * r
             y == (T - u) * d
             m == (u - t) * r
             n == (u - t) * d
  <2>1. /\ x \in Int /\ y \in Int /\ m \in Nat /\ n \in Nat
        /\ (u - S) * r = x + m /\ (T - t) * d = y + n
      BY <1>1, <1>8, Slopes
  <2>2. /\ Peak(p, S, T, a, b, top, t) = Smaller(Smaller(a + x, b + (y + n)), top)
        /\ Peak(p, S, T, a, b, top, u) = Smaller(Smaller(a + (x + m), b + y), top)
      BY <1>3, <2>1
  <2> HIDE DEF x, y, m, n
  <2>3. /\ Peak(p, S, T, a, b, top, u) - Peak(p, S, T, a, b, top, t) <= m
        /\ Peak(p, S, T, a, b, top, t) - Peak(p, S, T, a, b, top, u) <= n
      BY <2>1, <2>2 DEF Smaller
  <2> QED
      BY <1>4, <2>3 DEF m, n
<1> QED
    BY <1>6, <1>7, <1>8

\* The mirror image: it falls to the bottom first.
LEMMA ValleyMoves ==
    ASSUME NEW p, FlexModel(p), NEW S \in Int, NEW T \in Int, S <= T,
           NEW a \in Int, NEW b \in Int, NEW bottom \in Int, bottom <= a, bottom <= b,
           MovesFrom(p, a, b, T - S)
    PROVE  /\ Valley(p, S, T, a, b, bottom, S) = a
           /\ Valley(p, S, T, a, b, bottom, T) = b
           /\ \A t \in S..T : /\ Valley(p, S, T, a, b, bottom, t) \in bottom..Larger(a, b)
           /\ \A t, u \in S..T : t < u =>
                 MovesFrom(p, Valley(p, S, T, a, b, bottom, t),
                           Valley(p, S, T, a, b, bottom, u), u - t)
<1> DEFINE r == Rise(p)
           d == Fall(p)
<1>1. r \in Nat /\ d \in Nat
    BY RatesAreRates
<1>2. b - a <= (T - S) * r /\ a - b <= (T - S) * d
    BY DEF MovesFrom
<1> HIDE DEF r, d
<1>3. \A t : Valley(p, S, T, a, b, bottom, t)
                = Larger(Larger(a - (t - S) * d, b - (T - t) * r), bottom)
    BY DEF Valley, r, d
<1>4. \A x, y, n : MovesFrom(p, x, y, n) <=> y - x <= n * r /\ x - y <= n * d
    BY DEF MovesFrom, r, d
<1>5. /\ (S - S) * d = 0 /\ (T - T) * r = 0
      /\ (T - S) * r \in Int /\ (T - S) * d \in Int
    BY <1>1
<1>6. Valley(p, S, T, a, b, bottom, S) = a /\ Valley(p, S, T, a, b, bottom, T) = b
    BY <1>2, <1>3, <1>5 DEF Larger
<1>7. ASSUME NEW t \in S..T
      PROVE  Valley(p, S, T, a, b, bottom, t) \in bottom..Larger(a, b)
  <2>1. (t - S) * d \in Nat /\ (T - t) * r \in Nat
      BY <1>1, RatesAdd
  <2> QED
      BY <1>3, <2>1 DEF Larger
<1>8. ASSUME NEW t \in S..T, NEW u \in S..T, t < u
      PROVE  MovesFrom(p, Valley(p, S, T, a, b, bottom, t),
                       Valley(p, S, T, a, b, bottom, u), u - t)
  <2> DEFINE x == (t - S) * d
             y == (T - u) * r
             m == (u - t) * r
             n == (u - t) * d
  <2>1. /\ x \in Int /\ y \in Int /\ m \in Nat /\ n \in Nat
        /\ (u - S) * d = x + n /\ (T - t) * r = y + m
      BY <1>1, <1>8, Slopes
  <2>2. /\ Valley(p, S, T, a, b, bottom, t) = Larger(Larger(a - x, b - (y + m)), bottom)
        /\ Valley(p, S, T, a, b, bottom, u) = Larger(Larger(a - (x + n), b - y), bottom)
      BY <1>3, <2>1
  <2> HIDE DEF x, y, m, n
  <2>3. /\ Valley(p, S, T, a, b, bottom, u) - Valley(p, S, T, a, b, bottom, t) <= m
        /\ Valley(p, S, T, a, b, bottom, t) - Valley(p, S, T, a, b, bottom, u) <= n
      BY <2>1, <2>2 DEF Larger
  <2> QED
      BY <1>4, <2>3 DEF m, n
<1> QED
    BY <1>6, <1>7, <1>8

\* The bounds on tick j hold of stock x, as far as the limits go.
Keeps(p, j, x) ==
    /\ \A v \in Projected(p, "min", j) : AtMost(p.socMax, v) <= x
    /\ \A v \in Projected(p, "max", j) : x <= AtLeast(p.socMin, v)

\* A stock within the row of a tick keeps to every bound projected onto it.
LEMMA RowKeeps ==
    ASSUME NEW p, FlexModel(p), NEW k, NEW x \in Int,
           \A field \in Lists : Soft(p, field) \/ ~ Overlap(p, field, k),
           WithinHard(Row(p, k), x), WithinSoft(Row(p, k), x)
    PROVE  Keeps(p, k, x)
<1>1. /\ Projected(p, "min", k) \subseteq Applying(p, "min", k)
      /\ Projected(p, "max", k) \subseteq Applying(p, "max", k)
    BY DEF Applying
<1>2. /\ Soft(p, "minima") \/ ~ Overlap(p, "minima", k)
      /\ Soft(p, "maxima") \/ ~ Overlap(p, "maxima", k)
    BY DEF Lists
<1>3. p.socMin \in Int \cup {None} /\ p.socMax \in Int \cup {None}
    BY ProblemsAssumption DEF FlexModel, Limits
<1>4. ASSUME NEW v \in Projected(p, "min", k) PROVE AtMost(p.socMax, v) <= x
  <2>1. v \in Int
      BY <1>4, ProjectedIsBounded DEF Bounded
  <2>2. AtMost(p.socMax, v) \in Int
      BY <1>3, <2>1 DEF AtMost, Smaller
  <2>3. PICK y \in {Row(p, k).min, Row(p, k).softMin} \ {None} :
            y \in Int /\ AtMost(p.socMax, v) <= y
      BY <1>1, <1>2, <1>4, AppliesInRow
  <2>4. y <= x
      BY <2>3 DEF WithinHard, WithinSoft
  <2> QED
      BY <2>2, <2>3, <2>4
<1>5. ASSUME NEW v \in Projected(p, "max", k) PROVE x <= AtLeast(p.socMin, v)
  <2>1. v \in Int
      BY <1>5, ProjectedIsBounded DEF Bounded
  <2>2. AtLeast(p.socMin, v) \in Int
      BY <1>3, <2>1 DEF AtLeast, Larger
  <2>3. PICK y \in {Row(p, k).max, Row(p, k).softMax} \ {None} :
            y \in Int /\ y <= AtLeast(p.socMin, v)
      BY <1>1, <1>2, <1>5, AppliesInRow
  <2>4. x <= y
      BY <2>3 DEF WithinHard, WithinSoft
  <2> QED
      BY <2>2, <2>3, <2>4
<1> QED
    BY <1>4, <1>5 DEF Keeps

\* Stock that keeps the bounds of a tick is within reach of the events they come from.
LEMMA WithinReach ==
    ASSUME NEW p, FlexModel(p), p.projects, NEW j, NEW x \in Int, Keeps(p, j, x),
           NEW rule \in Policy, NEW e \in OffTick(p, rule.field),
           TickOf(p, rule, e) = j * p.res, WithinLimits(p, e.value)
    PROVE  /\ rule.bound = "min" => e.value - Reachable(p, rule, e) <= x
           /\ rule.bound = "max" => x <= e.value + Reachable(p, rule, e)
<1>1. e \in Events /\ rule.bound \in {"min", "max"}
    BY OffTickAreEvents, PolicyRules
<1>2. e.value \in Int /\ Reachable(p, rule, e) \in Nat
    BY <1>1, ReachableIsAmount, ProblemsAssumption DEF Events
<1>3. Loosened(p, rule, e) \in Projected(p, rule.bound, j)
  <2>1. e \in {d \in OffTick(p, rule.field) : TickOf(p, rule, d) = j * p.res}
      OBVIOUS
  <2>2. rule \in {r \in Policy : p.projects /\ r.bound = rule.bound}
      OBVIOUS
  <2> QED
      BY <2>1, <2>2 DEF Projected
<1>4. /\ p.socMin \in Int \cup {None} /\ p.socMax \in Int \cup {None} /\ None \notin Int
      /\ p.socMin # None => p.socMin <= e.value
      /\ p.socMax # None => e.value <= p.socMax
    BY SMTT(30), <1>2, ProblemsAssumption
       DEF WithinLimits, FlexModel, Limits, AtLeast, AtMost, Larger, Smaller
<1>5. CASE rule.bound = "min"
  <2>1. AtMost(p.socMax, AtLeast(p.socMin, e.value - Reachable(p, rule, e))) <= x
      BY <1>3, <1>5 DEF Keeps, Loosened
  <2> QED
      BY <1>2, <1>4, <1>5, <2>1 DEF AtMost, AtLeast, Smaller, Larger
<1>6. CASE rule.bound = "max"
  <2>1. x <= AtLeast(p.socMin, AtMost(p.socMax, e.value + Reachable(p, rule, e)))
      BY <1>3, <1>6 DEF Keeps, Loosened
  <2> QED
      BY <1>2, <1>4, <1>6, <2>1 DEF AtMost, AtLeast, Smaller, Larger
<1> QED
    BY <1>1, <1>5, <1>6



\* The ticks around a time within the k-th step.
LEMMA StepAround ==
    ASSUME NEW p, FlexModel(p), NEW k \in Nat \ {0}, NEW t \in Nat,
           (k - 1) * p.res < t, t < k * p.res
    PROVE  Previous(p, t) = (k - 1) * p.res /\ Following(p, t) = k * p.res
<1> DEFINE r == p.res
           q == t \div r
<1>1. r \in Nat \ {0}
    BY DEF FlexModel
<1> HIDE DEF r
<1>2. q \in Nat /\ r * q <= t /\ t < r * q + r
    BY <1>1
<1> HIDE DEF q
<1>3. \A m, n \in Int : m <= n => m * r <= n * r
    BY <1>1
<1>4. k * r = (k - 1) * r + r /\ (q + 1) * r = q * r + r /\ q * r = r * q
      /\ (k - 1) * r < t /\ t < k * r
    BY <1>1, <1>2 DEF r
<1>5. ~ (k <= q)
    BY <1>1, <1>2, <1>3, <1>4
<1>6. ~ (q + 1 <= k - 1)
    BY <1>1, <1>2, <1>3, <1>4
<1>7. q = k - 1
    BY <1>2, <1>5, <1>6
<1> QED
    BY <1>1, <1>2, <1>4, <1>7 DEF Previous, Following, q, r

\* An event inside a step has the ticks of that step around it.
LEMMA InsideIsOffTick ==
    ASSUME NEW p, FlexModel(p), NEW field \in Fields, NEW k \in Nat \ {0},
           NEW e \in Inside(p, field, k)
    PROVE  /\ e \in OffTick(p, field) /\ e \in Events
           /\ e.end \in Nat /\ e.value \in 0..MaxSoc /\ e.value \in Int
           /\ (k - 1) * p.res < e.end /\ e.end < k * p.res
           /\ Previous(p, e.end) = (k - 1) * p.res /\ Following(p, e.end) = k * p.res
<1>1. /\ e \in OffTick(p, field) /\ (k - 1) * p.res < e.end /\ e.end < k * p.res
    BY DEF Inside
<1>2. e \in Events
    BY <1>1, OffTickAreEvents
<1>3. e.end \in Nat /\ e.value \in 0..MaxSoc /\ MaxSoc \in Nat
    BY <1>2, ProblemsAssumption DEF Events
<1> QED
    BY <1>1, <1>2, <1>3, StepAround

\* The k-th step starts before it ends.
LEMMA StepBounds ==
    ASSUME NEW p, FlexModel(p), NEW k \in Nat \ {0}
    PROVE  /\ (k - 1) * p.res \in Nat /\ k * p.res \in Nat
           /\ k * p.res - (k - 1) * p.res = p.res
           /\ (k - 1) * p.res < k * p.res
<1>1. p.res \in Nat \ {0}
    BY DEF FlexModel
<1>2. \A m, n \in Nat : m * n \in Nat
    OBVIOUS
<1>3. k * p.res = (k - 1) * p.res + p.res
    BY <1>1
<1>4. k - 1 \in Nat
    OBVIOUS
<1>5. (k - 1) * p.res \in Nat /\ k * p.res \in Nat
    BY <1>1, <1>2, <1>4
<1> DEFINE S == (k - 1) * p.res
           T == k * p.res
<1> HIDE DEF S, T
<1>6. S \in Nat /\ T \in Nat /\ T = S + p.res
    BY <1>3, <1>5 DEF S, T
<1>7. S < T /\ T - S = p.res
    BY <1>1, <1>6
<1> QED
    BY <1>6, <1>7 DEF S, T

\* What SOC_PROJECTION_POLICIES says of the stock on the ticks around an event.
LEMMA InsideReach ==
    ASSUME NEW p, FlexModel(p), p.projects, NEW k \in Nat \ {0}, k <= p.ticks,
           NEW a \in Int, NEW b \in Int, Keeps(p, k - 1, a), Keeps(p, k, b),
           NEW field \in Fields, NEW e \in Inside(p, field, k), WithinLimits(p, e.value)
    PROVE  /\ field \in {"targets", "minima"} =>
                 e.value - (e.end - (k - 1) * p.res) * Rise(p) <= a
           /\ field \in {"targets", "maxima"} =>
                 a <= e.value + (e.end - (k - 1) * p.res) * Fall(p)
           /\ field \in {"minima", "at_start"} =>
                 e.value - (k * p.res - e.end) * Fall(p) <= b
           /\ field \in {"maxima", "at_start"} =>
                 b <= e.value + (k * p.res - e.end) * Rise(p)
<1>1. /\ e \in OffTick(p, field)
      /\ Previous(p, e.end) = (k - 1) * p.res /\ Following(p, e.end) = k * p.res
    BY InsideIsOffTick
<1>5. Previous(p, e.end) < p.ticks * p.res
  <2>1. p.ticks \in Nat /\ p.res \in Nat \ {0}
      BY DEF FlexModel
  <2>2. \A m, n, r \in Nat : m <= n => m * r <= n * r
      OBVIOUS
  <2>3. k * p.res <= p.ticks * p.res
      BY <2>1, <2>2
  <2>4. /\ (k - 1) * p.res \in Nat /\ k * p.res \in Nat
        /\ (k - 1) * p.res < k * p.res
      BY StepBounds
  <2>5. \A m, n \in Nat : m * n \in Nat
      OBVIOUS
  <2>6. p.ticks * p.res \in Nat
      BY <2>1, <2>5
  <2> DEFINE S == (k - 1) * p.res
             T == k * p.res
             E == p.ticks * p.res
  <2> HIDE DEF S, T, E
  <2>7. S \in Nat /\ T \in Nat /\ S < T /\ E \in Nat /\ T <= E
      BY <2>3, <2>4, <2>6 DEF S, T, E
  <2>8. S < E
      BY <2>7
  <2> QED
      BY <1>1, <2>8 DEF S, E
<1> DEFINE Put(bound, tick) == [field |-> field, bound |-> bound, tick |-> tick]
<1>2. ASSUME NEW bound \in {"min", "max"}, Put(bound, "previous") \in Policy
      PROVE  /\ bound = "min" => e.value - (e.end - (k - 1) * p.res) * Rise(p) <= a
             /\ bound = "max" => a <= e.value + (e.end - (k - 1) * p.res) * Fall(p)
  <2> DEFINE rule == Put(bound, "previous")
  <2>1. rule.field = field /\ rule.bound = bound /\ rule.tick = "previous"
      OBVIOUS
  <2>2. rule \in Policy
      BY <1>2
  <2> HIDE DEF rule
  <2>3. TickOf(p, rule, e) = (k - 1) * p.res
      BY <1>1, <2>1 DEF TickOf
  <2>4. Reachable(p, rule, e) = (e.end - (k - 1) * p.res)
                                 * (IF bound = "min" THEN Rise(p) ELSE Fall(p))
      BY <1>1, <1>5, <2>1, <2>2, ReachableWithin DEF Rise, Fall
  <2>5. k - 1 \in Int /\ e \in OffTick(p, rule.field)
      BY <1>1, <2>1
  <2>6. /\ rule.bound = "min" => e.value - Reachable(p, rule, e) <= a
        /\ rule.bound = "max" => a <= e.value + Reachable(p, rule, e)
      BY <2>2, <2>3, <2>5, WithinReach
  <2> QED
      BY <2>1, <2>4, <2>6
<1>3. ASSUME NEW bound \in {"min", "max"}, Put(bound, "next") \in Policy
      PROVE  /\ bound = "min" => e.value - (k * p.res - e.end) * Fall(p) <= b
             /\ bound = "max" => b <= e.value + (k * p.res - e.end) * Rise(p)
  <2> DEFINE rule == Put(bound, "next")
  <2>1. rule.field = field /\ rule.bound = bound /\ rule.tick = "next"
      OBVIOUS
  <2>2. rule \in Policy
      BY <1>3
  <2> HIDE DEF rule
  <2>3. TickOf(p, rule, e) = k * p.res
      BY <1>1, <2>1 DEF TickOf
  <2>4. Reachable(p, rule, e) = (k * p.res - e.end)
                                 * (IF bound = "min" THEN Fall(p) ELSE Rise(p))
      BY <1>1, <1>5, <2>1, <2>2, ReachableWithin DEF Rise, Fall
  <2>5. e \in OffTick(p, rule.field)
      BY <1>1, <2>1
  <2>6. /\ rule.bound = "min" => e.value - Reachable(p, rule, e) <= b
        /\ rule.bound = "max" => b <= e.value + Reachable(p, rule, e)
      BY <2>2, <2>3, <2>5, WithinReach
  <2> QED
      BY <2>1, <2>4, <2>6
<1>4. /\ field \in {"targets", "minima"} => Put("min", "previous") \in Policy
      /\ field \in {"targets", "maxima"} => Put("max", "previous") \in Policy
      /\ field \in {"minima", "at_start"} => Put("min", "next") \in Policy
      /\ field \in {"maxima", "at_start"} => Put("max", "next") \in Policy
    BY DEF Policy
<1> HIDE DEF Put
<1> QED
    BY <1>2, <1>3, <1>4

\* Stock on a peak or in a valley is a path between the ticks.
LEMMA PeakPath ==
    ASSUME SocIsDense, NEW p, FlexModel(p),
           NEW a \in Soc, NEW b \in Soc, NEW top \in Soc, a <= top, b <= top,
           MovesFrom(p, a, b, p.res),
           NEW S \in Int, NEW T \in Int, S <= T, T - S = p.res,
           NEW g, g = [t \in S..T |-> Peak(p, S, T, a, b, top, t)]
    PROVE  /\ g \in [S..T -> Soc] /\ g[S] = a /\ g[T] = b
           /\ \A t, u \in DOMAIN g : t < u => MovesFrom(p, g[t], g[u], u - t)
           /\ \A t \in S..T : g[t] = Peak(p, S, T, a, b, top, t)
<1>1. /\ a \in Int /\ b \in Int /\ top \in Int /\ MovesFrom(p, a, b, T - S)
    BY ProblemsAssumption
<1>2. /\ Peak(p, S, T, a, b, top, S) = a /\ Peak(p, S, T, a, b, top, T) = b
      /\ \A t \in S..T : Peak(p, S, T, a, b, top, t) \in Smaller(a, b)..top
      /\ \A t, u \in S..T : t < u =>
            MovesFrom(p, Peak(p, S, T, a, b, top, t), Peak(p, S, T, a, b, top, u), u - t)
    BY <1>1, PeakMoves
<1>3. Smaller(a, b) \in Soc
    BY DEF Smaller
<1>4. \A t \in S..T : Peak(p, S, T, a, b, top, t) \in Soc
    BY <1>2, <1>3 DEF SocIsDense
<1>5. S \in S..T /\ T \in S..T
    BY <1>1
<1> QED
    BY <1>2, <1>4, <1>5

\* And in a valley.
LEMMA ValleyPath ==
    ASSUME SocIsDense, NEW p, FlexModel(p),
           NEW a \in Soc, NEW b \in Soc, NEW bottom \in Soc, bottom <= a, bottom <= b,
           MovesFrom(p, a, b, p.res),
           NEW S \in Int, NEW T \in Int, S <= T, T - S = p.res,
           NEW g, g = [t \in S..T |-> Valley(p, S, T, a, b, bottom, t)]
    PROVE  /\ g \in [S..T -> Soc] /\ g[S] = a /\ g[T] = b
           /\ \A t, u \in DOMAIN g : t < u => MovesFrom(p, g[t], g[u], u - t)
           /\ \A t \in S..T : g[t] = Valley(p, S, T, a, b, bottom, t)
<1>1. /\ a \in Int /\ b \in Int /\ bottom \in Int /\ MovesFrom(p, a, b, T - S)
    BY ProblemsAssumption
<1>2. /\ Valley(p, S, T, a, b, bottom, S) = a /\ Valley(p, S, T, a, b, bottom, T) = b
      /\ \A t \in S..T : Valley(p, S, T, a, b, bottom, t) \in bottom..Larger(a, b)
      /\ \A t, u \in S..T : t < u =>
            MovesFrom(p, Valley(p, S, T, a, b, bottom, t),
                      Valley(p, S, T, a, b, bottom, u), u - t)
    BY <1>1, ValleyMoves
<1>3. Larger(a, b) \in Soc
    BY DEF Larger
<1>4. \A t \in S..T : Valley(p, S, T, a, b, bottom, t) \in Soc
    BY <1>2, <1>3 DEF SocIsDense
<1>5. S \in S..T /\ T \in S..T
    BY <1>1
<1> QED
    BY <1>2, <1>4, <1>5

\* A path between two ticks that meets the events of the one list that has some.
LEMMA PathExists ==
    ASSUME SocIsDense, NEW p, FlexModel(p), p.projects, NEW k \in Nat \ {0}, k <= p.ticks,
           NEW a \in Soc, NEW b \in Soc, Plain(p, k),
           Keeps(p, k - 1, a), Keeps(p, k, b), MovesFrom(p, a, b, p.res),
           k = 1 => a = p.start,
           \A e \in Inside(p, "targets", k) : e.value = b
    PROVE  Between(p, k, a, b)
<1> DEFINE S == (k - 1) * p.res
           T == k * p.res
           r == Rise(p)
           d == Fall(p)
<1>1. a \in Int /\ b \in Int /\ 0 \in Soc /\ MaxSoc \in Soc /\ MaxSoc \in Nat
    BY ProblemsAssumption DEF SocIsDense
<1>2. S \in Nat /\ T \in Nat /\ S < T /\ S <= T /\ T - S = p.res
  <2>1. S \in Nat /\ T \in Nat /\ S < T /\ T - S = p.res
      BY StepBounds
  <2> HIDE DEF S, T
  <2> QED
      BY <2>1
<1>3. r \in Nat /\ d \in Nat
    BY RatesAreRates
<1>4. \A field \in Fields : \A e \in Inside(p, field, k) :
         /\ e.end \in S..T /\ e.value \in 0..MaxSoc /\ WithinLimits(p, e.value)
         /\ field \in {"targets", "minima"} => e.value - (e.end - S) * r <= a
         /\ field \in {"targets", "maxima"} => a <= e.value + (e.end - S) * d
         /\ field \in {"minima", "at_start"} => e.value - (T - e.end) * d <= b
         /\ field \in {"maxima", "at_start"} => b <= e.value + (T - e.end) * r
  <2> SUFFICES ASSUME NEW field \in Fields, NEW e \in Inside(p, field, k)
               PROVE  /\ e.end \in S..T /\ e.value \in 0..MaxSoc
                      /\ WithinLimits(p, e.value)
                      /\ field \in {"targets", "minima"} => e.value - (e.end - S) * r <= a
                      /\ field \in {"targets", "maxima"} => a <= e.value + (e.end - S) * d
                      /\ field \in {"minima", "at_start"} => e.value - (T - e.end) * d <= b
                      /\ field \in {"maxima", "at_start"} => b <= e.value + (T - e.end) * r
      OBVIOUS
  <2>1. WithinLimits(p, e.value)
      BY DEF Plain, Lists, Fields
  <2>2. /\ e.end \in Nat /\ e.value \in 0..MaxSoc /\ S < e.end /\ e.end < T
      BY InsideIsOffTick
  <2>3. e.end \in S..T
      BY <1>2, <2>2
  <2> QED
      BY <1>1, <2>1, <2>2, <2>3, InsideReach
<1>5. \A x, y \in Fields : Inside(p, x, k) # {} /\ Inside(p, y, k) # {} => x = y
    BY DEF Plain, Lists, Fields
<1>6. ASSUME NEW g \in [S..T -> Soc], g[S] = a, g[T] = b,
             \A t, u \in DOMAIN g : t < u => MovesFrom(p, g[t], g[u], u - t),
             NEW field \in Fields,
             \A x \in Fields \ {field} : Inside(p, x, k) = {},
             \A e \in Inside(p, field, k) :
                 /\ field = "at_start" => \A t \in S..T : t <= e.end => g[t] = e.value
                 /\ field = "targets" => g[e.end] = e.value
                 /\ field = "minima" => e.value <= g[e.end]
                 /\ field = "maxima" => g[e.end] <= e.value
      PROVE  Between(p, k, a, b)
  <2>1. /\ field # "at_start" => Inside(p, "at_start", k) = {}
        /\ field # "targets" => Inside(p, "targets", k) = {}
        /\ field # "minima" => Inside(p, "minima", k) = {}
        /\ field # "maxima" => Inside(p, "maxima", k) = {}
      BY <1>6 DEF Fields
  <2>2. DOMAIN g = S..T
      OBVIOUS
  <2>3. \A e \in Inside(p, "at_start", k) : \A t \in DOMAIN g : t <= e.end => g[t] = e.value
      BY <1>6, <2>1, <2>2
  <2>4. \A e \in Inside(p, "targets", k) : g[e.end] = e.value
      BY <1>6, <2>1
  <2>5. \A e \in Inside(p, "minima", k) : e.value <= g[e.end]
      BY <1>6, <2>1
  <2>6. \A e \in Inside(p, "maxima", k) : g[e.end] <= e.value
      BY <1>6, <2>1
  <2> QED
      BY <1>6, <2>3, <2>4, <2>5, <2>6, Zenon DEF Between
<1> HIDE DEF S, T, r, d
<1>7. \A t \in S..T : /\ (t - S) * r \in Nat /\ (t - S) * d \in Nat
                      /\ (T - t) * r \in Nat /\ (T - t) * d \in Nat
  <2>1. \A t \in S..T : t - S \in Nat /\ T - t \in Nat
      BY <1>2
  <2>2. \A m, n \in Nat : m * n \in Nat
      OBVIOUS
  <2> QED
      BY <1>3, <2>1, <2>2
<1>8. ASSUME \A x \in Fields \ {"minima"} : Inside(p, x, k) = {}
      PROVE  Between(p, k, a, b)
  <2> DEFINE top == Larger(Larger(a, b), MaxSoc)
             g == [t \in S..T |-> Peak(p, S, T, a, b, top, t)]
  <2>1. top \in Soc /\ a <= top /\ b <= top /\ MaxSoc <= top /\ top \in Int
      BY <1>1 DEF Larger
  <2> HIDE DEF top
  <2> HIDE DEF g
  <2>2. /\ g \in [S..T -> Soc] /\ g[S] = a /\ g[T] = b
        /\ \A t, u \in DOMAIN g : t < u => MovesFrom(p, g[t], g[u], u - t)
        /\ \A t \in S..T : g[t] = Peak(p, S, T, a, b, top, t)
    <3>1. g = [t \in S..T |-> Peak(p, S, T, a, b, top, t)]
        BY DEF g
    <3>2. S \in Int /\ T \in Int /\ top \in Soc /\ a <= top /\ b <= top
        BY <1>1, <1>2, <2>1
    <3> QED
        BY SMTT(30), <1>2, <3>1, <3>2, PeakPath
  <2>3. ASSUME NEW e \in Inside(p, "minima", k) PROVE e.value <= g[e.end]
    <3>1. g[e.end] = Smaller(Smaller(a + (e.end - S) * r, b + (T - e.end) * d), top)
        BY <1>4, <2>2 DEF Peak, Fields, r, d
    <3>2. /\ e.value - (e.end - S) * r <= a /\ e.value - (T - e.end) * d <= b
          /\ e.value \in 0..MaxSoc /\ (e.end - S) * r \in Nat /\ (T - e.end) * d \in Nat
        BY <1>4, <1>7 DEF Fields
    <3> QED
        BY <1>1, <2>1, <3>1, <3>2 DEF Smaller
  <2> QED
      BY <1>6, <1>8, <2>2, <2>3 DEF Fields
<1>9. ASSUME \A x \in Fields \ {"maxima"} : Inside(p, x, k) = {}
      PROVE  Between(p, k, a, b)
  <2> DEFINE bottom == Smaller(Smaller(a, b), 0)
             g == [t \in S..T |-> Valley(p, S, T, a, b, bottom, t)]
  <2>1. bottom \in Soc /\ bottom <= a /\ bottom <= b /\ bottom <= 0 /\ bottom \in Int
      BY <1>1 DEF Smaller
  <2> HIDE DEF bottom
  <2> HIDE DEF g
  <2>2. /\ g \in [S..T -> Soc] /\ g[S] = a /\ g[T] = b
        /\ \A t, u \in DOMAIN g : t < u => MovesFrom(p, g[t], g[u], u - t)
        /\ \A t \in S..T : g[t] = Valley(p, S, T, a, b, bottom, t)
    <3>1. g = [t \in S..T |-> Valley(p, S, T, a, b, bottom, t)]
        BY DEF g
    <3>2. S \in Int /\ T \in Int /\ bottom \in Soc /\ bottom <= a /\ bottom <= b
        BY <1>1, <1>2, <2>1
    <3> QED
        BY SMTT(30), <1>2, <3>1, <3>2, ValleyPath
  <2>3. ASSUME NEW e \in Inside(p, "maxima", k) PROVE g[e.end] <= e.value
    <3>1. g[e.end] = Larger(Larger(a - (e.end - S) * d, b - (T - e.end) * r), bottom)
        BY <1>4, <2>2 DEF Valley, Fields, r, d
    <3>2. /\ a <= e.value + (e.end - S) * d /\ b <= e.value + (T - e.end) * r
          /\ e.value \in 0..MaxSoc /\ (e.end - S) * d \in Nat /\ (T - e.end) * r \in Nat
        BY <1>4, <1>7 DEF Fields
    <3> QED
        BY <1>1, <2>1, <3>1, <3>2 DEF Larger
  <2> QED
      BY <1>6, <1>9, <2>2, <2>3 DEF Fields
<1>10. ASSUME \A x \in Fields \ {"targets"} : Inside(p, x, k) = {}, a <= b
       PROVE  Between(p, k, a, b)
  <2> DEFINE g == [t \in S..T |-> Peak(p, S, T, a, b, b, t)]
  <2> HIDE DEF g
  <2>1. /\ g \in [S..T -> Soc] /\ g[S] = a /\ g[T] = b
        /\ \A t, u \in DOMAIN g : t < u => MovesFrom(p, g[t], g[u], u - t)
        /\ \A t \in S..T : g[t] = Peak(p, S, T, a, b, b, t)
    <3>1. g = [t \in S..T |-> Peak(p, S, T, a, b, b, t)]
        BY DEF g
    <3>2. S \in Int /\ T \in Int /\ b \in Soc /\ a <= b /\ b <= b
        BY <1>1, <1>2, <1>10
    <3> QED
        BY SMTT(30), <1>2, <3>1, <3>2, PeakPath
  <2>2. ASSUME NEW e \in Inside(p, "targets", k) PROVE g[e.end] = e.value
    <3>1. g[e.end] = Smaller(Smaller(a + (e.end - S) * r, b + (T - e.end) * d), b)
        BY <1>4, <2>1 DEF Peak, Fields, r, d
    <3>2. /\ e.value - (e.end - S) * r <= a /\ e.value = b
          /\ (e.end - S) * r \in Nat /\ (T - e.end) * d \in Nat
        BY <1>4, <1>7 DEF Fields
    <3> QED
        BY <1>1, <3>1, <3>2 DEF Smaller
  <2> QED
      BY <1>6, <1>10, <2>1, <2>2 DEF Fields
<1>11. ASSUME \A x \in Fields \ {"targets"} : Inside(p, x, k) = {}, b <= a
       PROVE  Between(p, k, a, b)
  <2> DEFINE g == [t \in S..T |-> Valley(p, S, T, a, b, b, t)]
  <2> HIDE DEF g
  <2>1. /\ g \in [S..T -> Soc] /\ g[S] = a /\ g[T] = b
        /\ \A t, u \in DOMAIN g : t < u => MovesFrom(p, g[t], g[u], u - t)
        /\ \A t \in S..T : g[t] = Valley(p, S, T, a, b, b, t)
    <3>1. g = [t \in S..T |-> Valley(p, S, T, a, b, b, t)]
        BY DEF g
    <3>2. S \in Int /\ T \in Int /\ b \in Soc /\ b <= a /\ b <= b
        BY <1>1, <1>2, <1>11
    <3> QED
        BY <1>2, <1>11, <3>1, <3>2, ValleyPath, SMTT(60)
  <2>2. ASSUME NEW e \in Inside(p, "targets", k) PROVE g[e.end] = e.value
    <3>1. g[e.end] = Larger(Larger(a - (e.end - S) * d, b - (T - e.end) * r), b)
        BY <1>4, <2>1 DEF Valley, Fields, r, d
    <3>2. /\ a <= e.value + (e.end - S) * d /\ e.value = b
          /\ (e.end - S) * d \in Nat /\ (T - e.end) * r \in Nat
        BY <1>4, <1>7 DEF Fields
    <3> QED
        BY <1>1, <3>1, <3>2 DEF Larger
  <2> QED
      BY <1>6, <1>11, <2>1, <2>2 DEF Fields
<1>12. ASSUME NEW e \in Inside(p, "at_start", k) PROVE e.value = a /\ e.end \in Int
  <2>1. /\ e = [start |-> p.knownAt, end |-> p.knownAt, value |-> p.start]
        /\ p.knownAt < p.res
      BY DEF Inside, OffTick
  <2>2. e.value = p.start /\ e.end = p.knownAt
      BY <2>1
  <2>3. e.end \in Nat /\ S < e.end
      BY InsideIsOffTick DEF Fields, S
  <2>4. ~ (p.res <= S)
    <3>1. p.res \in Nat /\ p.knownAt \in Nat
        BY DEF FlexModel
    <3> QED
        BY <1>2, <2>1, <2>2, <2>3, <3>1
  <2>5. k # 1 => p.res <= S
    <3>1. p.res \in Nat \ {0}
        BY DEF FlexModel
    <3>2. \A m \in Nat \ {0}, n \in Nat \ {0} : n <= m * n
        OBVIOUS
    <3>3. k # 1 => k - 1 \in Nat \ {0}
        OBVIOUS
    <3> QED
        BY <3>1, <3>2, <3>3 DEF S
  <2> QED
      BY <2>2, <2>3, <2>4, <2>5
<1>13. ASSUME \A x \in Fields \ {"at_start"} : Inside(p, x, k) = {}, a <= b
       PROVE  Between(p, k, a, b)
  <2> DEFINE g == [t \in S..T |-> Valley(p, S, T, a, b, a, t)]
  <2> HIDE DEF g
  <2>1. /\ g \in [S..T -> Soc] /\ g[S] = a /\ g[T] = b
        /\ \A t, u \in DOMAIN g : t < u => MovesFrom(p, g[t], g[u], u - t)
        /\ \A t \in S..T : g[t] = Valley(p, S, T, a, b, a, t)
    <3>1. g = [t \in S..T |-> Valley(p, S, T, a, b, a, t)]
        BY DEF g
    <3>2. S \in Int /\ T \in Int /\ a \in Soc /\ a <= a /\ a <= b
        BY <1>1, <1>2, <1>13
    <3> QED
        BY SMTT(30), <1>2, <3>1, <3>2, ValleyPath
  <2>2. ASSUME NEW e \in Inside(p, "at_start", k), NEW t \in S..T, t <= e.end
        PROVE  g[t] = e.value
    <3>1. g[t] = Larger(Larger(a - (t - S) * d, b - (T - t) * r), a)
        BY <2>1 DEF Valley, r, d
    <3>2. b <= e.value + (T - e.end) * r /\ e.end \in S..T
        BY <1>4 DEF Fields
    <3>3. (T - e.end) * r <= (T - t) * r
      <4>1. T - e.end \in Int /\ T - t \in Int /\ T - e.end <= T - t
          BY <1>2, <2>2, <3>2
      <4> QED
          BY <1>3, <4>1, RatesAdd
    <3>4. /\ (t - S) * d \in Nat /\ (T - t) * r \in Nat /\ (T - e.end) * r \in Nat
          /\ e.value = a
        BY <1>7, <1>12, <3>2
    <3> QED
        BY <1>1, <3>1, <3>2, <3>3, <3>4 DEF Larger
  <2> QED
      BY <1>6, <1>13, <2>1, <2>2 DEF Fields
<1>14. ASSUME \A x \in Fields \ {"at_start"} : Inside(p, x, k) = {}, b <= a
       PROVE  Between(p, k, a, b)
  <2> DEFINE g == [t \in S..T |-> Peak(p, S, T, a, b, a, t)]
  <2> HIDE DEF g
  <2>1. /\ g \in [S..T -> Soc] /\ g[S] = a /\ g[T] = b
        /\ \A t, u \in DOMAIN g : t < u => MovesFrom(p, g[t], g[u], u - t)
        /\ \A t \in S..T : g[t] = Peak(p, S, T, a, b, a, t)
    <3>1. g = [t \in S..T |-> Peak(p, S, T, a, b, a, t)]
        BY DEF g
    <3>2. S \in Int /\ T \in Int /\ a \in Soc /\ a <= a /\ b <= a
        BY <1>1, <1>2, <1>14
    <3> QED
        BY SMTT(30), <1>2, <3>1, <3>2, PeakPath
  <2>2. ASSUME NEW e \in Inside(p, "at_start", k), NEW t \in S..T, t <= e.end
        PROVE  g[t] = e.value
    <3>1. g[t] = Smaller(Smaller(a + (t - S) * r, b + (T - t) * d), a)
        BY <2>1 DEF Peak, r, d
    <3>2. e.value - (T - e.end) * d <= b /\ e.end \in S..T
        BY <1>4 DEF Fields
    <3>3. (T - e.end) * d <= (T - t) * d
      <4>1. T - e.end \in Int /\ T - t \in Int /\ T - e.end <= T - t
          BY <1>2, <2>2, <3>2
      <4> QED
          BY <1>3, <4>1, RatesAdd
    <3>4. /\ (t - S) * r \in Nat /\ (T - t) * d \in Nat /\ (T - e.end) * d \in Nat
          /\ e.value = a
        BY <1>7, <1>12, <3>2
    <3> QED
        BY <1>1, <3>1, <3>2, <3>3, <3>4 DEF Smaller
  <2> QED
      BY <1>6, <1>14, <2>1, <2>2 DEF Fields
<1>15. a <= b \/ b <= a
    BY <1>1
<1>16. \E y \in Fields : \A x \in Fields \ {y} : Inside(p, x, k) = {}
    BY <1>5 DEF Fields
<1> QED
    BY <1>8, <1>9, <1>10, <1>11, <1>13, <1>14, <1>15, <1>16 DEF Fields

\* A target between two ticks is an exact target on the next.
LEMMA TargetIsMet ==
    ASSUME NEW p, FlexModel(p), p.projects, NEW k \in Nat \ {0}, NEW b \in Int,
           \A i, j \in Covering(p, MovedTargets(p), k) : i = j,
           WithinHard(Row(p, k), b), WithinSoft(Row(p, k), b),
           NEW e \in Inside(p, "targets", k)
    PROVE  e.value = b
<1> DEFINE covering == Covering(p, MovedTargets(p), k)
<1>1. /\ e \in OffTick(p, "targets") /\ e.end \in Nat /\ e.value \in Int
      /\ Following(p, e.end) = k * p.res
    BY InsideIsOffTick DEF Fields
<1>2. PICK i \in DOMAIN p.targets :
          e = p.targets[i] /\ e.start = e.end /\ ~ OnTick(p, e.end)
    BY <1>1 DEF OffTick, EventsOf
<1>3. p.targets \in Seq(Events) /\ p.targets[i] \in Events
    BY DEF FlexModel
<1>4. /\ MovedTargets(p)[i] = [e EXCEPT !.start = k * p.res, !.end = k * p.res]
      /\ DOMAIN MovedTargets(p) = DOMAIN p.targets
    BY <1>1, <1>2 DEF MovedTargets
<1>5. /\ MovedTargets(p)[i].start = k * p.res /\ MovedTargets(p)[i].end = k * p.res
      /\ MovedTargets(p)[i].value = e.value
    BY <1>2, <1>3, <1>4 DEF Events
<1>6. k * p.res \in Nat
    BY StepBounds
<1>7. i \in covering
  <2>1. k * p.res <= k * p.res
      BY <1>6
  <2> QED
      BY <1>2, <1>4, <1>5, <2>1 DEF Covering
<1>8. covering = {i} /\ i \in Int
    BY <1>3, <1>7
<1>9. Min(covering) = i
    BY <1>8, OneIsLast
<1>10. /\ TargetsRelaxed(p) => Row(p, k).softTarget = e.value
       /\ ~ TargetsRelaxed(p) => Row(p, k).equals = e.value
    BY <1>5, <1>8, <1>9, TargetInRow
<1>11. e.value # None
    BY <1>1, ProblemsAssumption
<1> QED
    BY <1>10, <1>11 DEF WithinHard, WithinSoft

\* A schedule that keeps to the rows can be carried out so that what is asked between the
\* ticks is met at its own time.
THEOREM AskedIsMet ==
    ASSUME SocIsDense
    PROVE  SSpec => []AskedCanBeMet
<1>1. PreparedFromProblem => AskedCanBeMet
  <2> DEFINE p == problem
  <2> SUFFICES ASSUME PreparedFromProblem, prepared # None, p.projects,
                      NEW k \in 1..p.ticks, NEW a \in Soc, NEW b \in Soc, Plain(p, k),
                      k = 1 => /\ a = p.start
                               /\ \A v \in Projected(p, "min", 0) : v <= a
                               /\ \A v \in Projected(p, "max", 0) : a <= v,
                      k # 1 => /\ WithinHard(prepared.rows[k - 1], a)
                               /\ WithinSoft(prepared.rows[k - 1], a),
                      WithinHard(prepared.rows[k], b), WithinSoft(prepared.rows[k], b),
                      MovesFrom(p, a, b, p.res)
               PROVE  Between(p, k, a, b)
      BY DEF AskedCanBeMet
  <2>1. p \in Problems /\ prepared.rows = Rows(p)
      BY DEF PreparedFromProblem
  <2>2. FlexModel(p)
      BY <2>1, ProblemsAreFlexModels
  <2>3. k \in Nat \ {0} /\ (k # 1 => k - 1 \in 1..p.ticks) /\ a \in Int /\ b \in Int
      BY <2>2, ProblemsAssumption DEF FlexModel
  <2>4. /\ prepared.rows[k] = Row(p, k)
        /\ k # 1 => prepared.rows[k - 1] = Row(p, k - 1)
      BY <2>1, <2>3 DEF Rows
  <2> HIDE DEF p
  <2>5. /\ \A field \in Lists : Soft(p, field) \/ ~ Overlap(p, field, k)
        /\ k # 1 => \A field \in Lists : Soft(p, field) \/ ~ Overlap(p, field, k - 1)
        /\ \A i, j \in Covering(p, MovedTargets(p), k) : i = j
      BY <2>3 DEF Plain
  <2>6. Keeps(p, k, b)
      BY <2>2, <2>3, <2>4, <2>5, RowKeeps
  <2>7. Keeps(p, k - 1, a)
    <3>1. CASE k = 1
      <4>1. /\ \A v \in Projected(p, "min", 0) : v \in Int /\ v <= a
            /\ \A v \in Projected(p, "max", 0) : v \in Int /\ a <= v
          BY <2>2, <3>1, ProjectedIsBounded DEF Bounded
      <4>2. p.socMin \in Int \cup {None} /\ p.socMax \in Int \cup {None}
          BY <2>2, ProblemsAssumption DEF FlexModel, Limits
      <4>3. k - 1 = 0
          BY <3>1
      <4> QED
          BY <2>3, <4>1, <4>2, <4>3
             DEF Keeps, AtMost, AtLeast, Smaller, Larger
    <3>2. CASE k # 1
        BY <2>2, <2>3, <2>4, <2>5, <3>2, RowKeeps
    <3> QED
        BY <3>1, <3>2
  <2>8. \A e \in Inside(p, "targets", k) : e.value = b
      BY <2>2, <2>3, <2>4, <2>5, TargetIsMet
  <2> QED
      BY <2>2, <2>3, <2>6, <2>7, <2>8, PathExists
<1> QED
    BY PreparedInvariance, <1>1, PTL

-----------------------------------------------------------------------------
(* Sums over sets of slots, and the best of a set of slots.                *)

\* A set of subsets of a finite set has a member none of whose own subsets is another.
LEMMA MinimalExists ==
    ASSUME NEW S, IsFiniteSet(S), NEW Bad \in SUBSET SUBSET S, Bad # {}
    PROVE  \E T \in Bad : \A U \in SUBSET T : U # T => U \notin Bad
<1> DEFINE sizes == {Cardinality(T) : T \in Bad}
<1>1. \A T \in Bad : IsFiniteSet(T) /\ Cardinality(T) \in Nat
    BY FS_Subset, FS_CardinalityType
<1>2. sizes \in SUBSET Nat /\ sizes # {}
    BY <1>1
<1>3. PICK m \in sizes : \A n \in sizes : m <= n
    BY <1>2, SmallestExists
<1>4. PICK T \in Bad : Cardinality(T) = m
    BY <1>3
<1>5. ASSUME NEW U \in SUBSET T, U # T, U \in Bad
      PROVE  FALSE
  <2>1. Cardinality(U) <= Cardinality(T) /\ Cardinality(U) # Cardinality(T)
      BY <1>1, <1>5, FS_Subset
  <2>2. m <= Cardinality(U)
      BY <1>3, <1>5
  <2>3. Cardinality(U) \in Nat /\ Cardinality(T) \in Nat
      BY <1>1, <1>5
  <2> QED
      BY <1>4, <2>1, <2>2, <2>3
<1> QED
    BY <1>5

\* The element the fold takes first.
First(s) == CHOOSE x \in s : TRUE

\* g gives the sum of f over every subset of S, as the fold computes it.
Sums(g, f, S) ==
    g = [s \in SUBSET S |-> IF s = {} THEN 0 ELSE f[First(s)] + g[s \ {First(s)}]]

\* A sum is its first term and the sum of the rest.
LEMMA SumsAre ==
    ASSUME NEW g, NEW f, NEW S, Sums(g, f, S), NEW s \in SUBSET S
    PROVE  g[s] = IF s = {} THEN 0 ELSE f[First(s)] + g[s \ {First(s)}]
BY Zenon DEF Sums

\* The first of a set is in it, so that the rest is smaller.
LEMMA FirstIsIn ==
    ASSUME NEW s, s # {}
    PROVE  /\ First(s) \in s
           /\ s \ {First(s)} \in SUBSET s
           /\ s \ {First(s)} # s
BY DEF First

\* There is one way to sum.
LEMMA SumsAgree ==
    ASSUME NEW f, NEW S, IsFiniteSet(S), NEW T \in SUBSET S,
           NEW g, Sums(g, f, S), NEW h, Sums(h, f, T), NEW s \in SUBSET T
    PROVE  g[s] = h[s]
<1> DEFINE Bad == {t \in SUBSET T : g[t] # h[t]}
<1> SUFFICES ASSUME Bad # {}
             PROVE  FALSE
    OBVIOUS
<1>1. Bad \in SUBSET SUBSET S
    OBVIOUS
<1>2. PICK t \in Bad : \A u \in SUBSET t : u # t => u \notin Bad
    BY ZenonT(30), <1>1, MinimalExists
<1>3. t \in SUBSET S /\ t \in SUBSET T /\ g[t] # h[t]
    OBVIOUS
<1>4. /\ g[t] = IF t = {} THEN 0 ELSE f[First(t)] + g[t \ {First(t)}]
      /\ h[t] = IF t = {} THEN 0 ELSE f[First(t)] + h[t \ {First(t)}]
    BY ZenonT(30), <1>3, SumsAre
<1>5. t # {}
    BY <1>3, <1>4
<1>6. t \ {First(t)} \in SUBSET t /\ t \ {First(t)} # t
    BY <1>5, FirstIsIn
<1>7. g[t \ {First(t)}] = h[t \ {First(t)}]
    BY <1>2, <1>3, <1>6
<1> QED
    BY <1>3, <1>4, <1>7

\* Such sums exist for a finite set: if not, there is a smallest subset for which they do not.
LEMMA SumsExist ==
    ASSUME NEW f, NEW S, IsFiniteSet(S)
    PROVE  \E g : Sums(g, f, S)
<1> DEFINE Bad == {s \in SUBSET S : ~ \E g : Sums(g, f, s)}
<1> SUFFICES ASSUME Bad # {}
             PROVE  FALSE
    OBVIOUS
<1>1. Bad \in SUBSET SUBSET S /\ Bad # {}
    OBVIOUS
<1>2. \E T \in Bad : \A u \in SUBSET T : u # T => u \notin Bad
  <2> HIDE DEF Bad
  <2> QED
      BY <1>1, MinimalExists
<1>3. PICK T \in SUBSET S : /\ ~ \E g : Sums(g, f, T)
                            /\ \A u \in SUBSET T : u # T => \E g : Sums(g, f, u)
    BY <1>2
<1> DEFINE H(u) == CHOOSE g : Sums(g, f, u)
           W == [u \in SUBSET T |-> IF u = T THEN 0 ELSE H(u)[u]]
           G == [u \in SUBSET T |->
                    IF u = {} THEN 0
                    ELSE f[First(u)] + W[u \ {First(u)}]]
<1>4. ASSUME NEW u \in SUBSET T, u # T
      PROVE  Sums(H(u), f, u)
  <2>1. \E g : Sums(g, f, u)
      BY <1>3, <1>4
  <2> QED
      BY <2>1, Zenon
<1>5. ASSUME NEW u \in SUBSET T, u # T
      PROVE  H(u)[u] = G[u]
  <2>1. H(u)[u] = IF u = {} THEN 0 ELSE f[First(u)] + H(u)[u \ {First(u)}]
      BY <1>4, <1>5, SumsAre
  <2>2. CASE u = {}
      BY <2>1, <2>2
  <2>3. CASE u # {}
    <3> DEFINE v == u \ {First(u)}
    <3>1. v \in SUBSET u /\ v # u /\ v \in SUBSET T /\ v # T /\ IsFiniteSet(u)
        BY <1>3, <2>3, FirstIsIn, FS_Subset
    <3>2. Sums(H(v), f, v) /\ Sums(H(u), f, u)
        BY <1>4, <1>5, <3>1
    <3> HIDE DEF H
    <3>3. H(u)[v] = H(v)[v]
        BY SMTT(30), <3>1, <3>2, SumsAgree
    <3> QED
        BY <2>1, <2>3, <3>1, <3>3
  <2> QED
      BY <2>2, <2>3
<1>6. ASSUME NEW u \in SUBSET T, u # {}
      PROVE  W[u \ {First(u)}] = G[u \ {First(u)}]
  <2>1. u \ {First(u)} \in SUBSET T /\ u \ {First(u)} # T
      BY <1>6, FirstIsIn
  <2>2. W[u \ {First(u)}] = H(u \ {First(u)})[u \ {First(u)}]
      BY <2>1
  <2> HIDE DEF H, W, G
  <2> QED
      BY <1>5, <2>1, <2>2
<1>7. Sums(G, f, T)
  <2>1. G = [u \in SUBSET T |->
                IF u = {} THEN 0 ELSE f[First(u)] + G[u \ {First(u)}]]
    <3>1. \A u \in SUBSET T :
              (IF u = {} THEN 0 ELSE f[First(u)] + W[u \ {First(u)}])
            = (IF u = {} THEN 0 ELSE f[First(u)] + G[u \ {First(u)}])
      <4> HIDE DEF W, G
      <4> QED
          BY <1>6
    <3> DEFINE X == G
    <3>2. X = [u \in SUBSET T |->
                IF u = {} THEN 0 ELSE f[First(u)] + W[u \ {First(u)}]]
        BY Zenon
    <3>3. \A u \in SUBSET T :
              (IF u = {} THEN 0 ELSE f[First(u)] + W[u \ {First(u)}])
            = (IF u = {} THEN 0 ELSE f[First(u)] + X[u \ {First(u)}])
        BY <3>1, Zenon
    <3> HIDE DEF X, W
    <3>4. X = [u \in SUBSET T |->
                IF u = {} THEN 0 ELSE f[First(u)] + X[u \ {First(u)}]]
        BY <3>2, <3>3
    <3> QED
        BY <3>4, Zenon DEF X
  <2> HIDE DEF G
  <2> QED
      BY <2>1, Zenon DEF Sums
<1> QED
    BY <1>3, <1>7

\* What is summed is numbers: so is the sum, and no order matters.
LEMMA SumsAnyOrder ==
    ASSUME NEW f, NEW S, IsFiniteSet(S), \A x \in S : f[x] \in Int,
           NEW g, Sums(g, f, S), NEW s \in SUBSET S
    PROVE  /\ g[s] \in Int
           /\ g[{}] = 0
           /\ \A x \in s : g[s] = f[x] + g[s \ {x}]
<1>1. \A t \in SUBSET S :
          g[t] = IF t = {} THEN 0 ELSE f[First(t)] + g[t \ {First(t)}]
    BY SumsAre
<1>2. \A t \in SUBSET S : t # {} => First(t) \in t
    BY FirstIsIn
<1>3. \A t \in SUBSET S : g[t] \in Int
  <2> DEFINE Bad == {t \in SUBSET S : g[t] \notin Int}
  <2> SUFFICES ASSUME Bad # {}
               PROVE  FALSE
      OBVIOUS
  <2>1. Bad \in SUBSET SUBSET S /\ Bad # {}
      OBVIOUS
  <2>2. \E T \in Bad : \A u \in SUBSET T : u # T => u \notin Bad
    <3> HIDE DEF Bad
    <3> QED
        BY <2>1, MinimalExists
  <2>3. PICK T \in SUBSET S : /\ g[T] \notin Int
                              /\ \A u \in SUBSET T : u # T => g[u] \in Int
      BY <2>2
  <2>4. T # {}
    <3>1. T = {} => g[T] = 0
        BY <1>1
    <3> QED
        BY <2>3, <3>1
  <2>5. First(T) \in T /\ g[T \ {First(T)}] \in Int
      BY <1>2, <2>3, <2>4
  <2>6. g[T] = f[First(T)] + g[T \ {First(T)}]
      BY <1>1, <2>4
  <2> QED
      BY <2>3, <2>5, <2>6
<1>4. \A t \in SUBSET S : \A x \in t : g[t] = f[x] + g[t \ {x}]
  <2> DEFINE Bad == {t \in SUBSET S : \E x \in t : g[t] # f[x] + g[t \ {x}]}
  <2> SUFFICES ASSUME Bad # {}
               PROVE  FALSE
      OBVIOUS
  <2>1. Bad \in SUBSET SUBSET S /\ Bad # {}
      OBVIOUS
  <2>2. \E T \in Bad : \A u \in SUBSET T : u # T => u \notin Bad
    <3> HIDE DEF Bad
    <3> QED
        BY <2>1, MinimalExists
  <2>3. PICK T \in Bad : \A u \in SUBSET T : u # T => u \notin Bad
      BY <2>2
  <2>4. PICK x \in T : g[T] # f[x] + g[T \ {x}]
      OBVIOUS
  <2> DEFINE y == First(T)
  <2>5. y \in T /\ g[T] = f[y] + g[T \ {y}]
      BY <1>1, <1>2
  <2> HIDE DEF y
  <2>6. x # y
      BY <2>4, <2>5
  <2>7. g[T \ {y}] = f[x] + g[(T \ {y}) \ {x}]
    <3>1. T \ {y} \in SUBSET T /\ T \ {y} # T /\ x \in T \ {y}
        BY <2>4, <2>5, <2>6
    <3> QED
        BY <2>3, <3>1
  <2>8. g[T \ {x}] = f[y] + g[(T \ {x}) \ {y}]
    <3>1. T \ {x} \in SUBSET T /\ T \ {x} # T /\ y \in T \ {x}
        BY <2>4, <2>5, <2>6
    <3> QED
        BY <2>3, <3>1
  <2>0. x \in S /\ y \in S
      BY <2>5
  <2>9. (T \ {x}) \ {y} = (T \ {y}) \ {x} /\ (T \ {x}) \ {y} \in SUBSET S
      OBVIOUS
  <2>10. f[x] \in Int /\ f[y] \in Int /\ g[(T \ {x}) \ {y}] \in Int
      BY <1>3, <2>0, <2>9
  <2> DEFINE r == g[(T \ {y}) \ {x}]
  <2>11. g[T] = f[y] + (f[x] + r) /\ f[x] + g[T \ {x}] = f[x] + (f[y] + r)
      BY <2>5, <2>7, <2>8, <2>9
  <2>12. f[x] \in Int /\ f[y] \in Int /\ r \in Int
      BY <2>9, <2>10
  <2> HIDE DEF r
  <2> QED
      BY <2>4, <2>11, <2>12
<1> QED
    BY <1>1, <1>3, <1>4

\* The fold is one of those sums.
LEMMA TotalIsSum ==
    ASSUME NEW f, NEW S, IsFiniteSet(S), NEW g, Sums(g, f, S), NEW T \in SUBSET S
    PROVE  Total(f, T) = g[T]
<1>1. IsFiniteSet(T)
    BY FS_Subset
<1>2. \E h : Sums(h, f, T)
    BY <1>1, SumsExist
<1>3. PICK h : Sums(h, f, T) /\ Total(f, T) = h[T]
    BY <1>2 DEF Total, MapThenSumSet, MapThenFoldSet, Sums, First
<1> QED
    BY <1>3, SumsAgree

\* A total is a number, and each slot adds what it costs.
LEMMA Totals ==
    ASSUME NEW f, NEW S, IsFiniteSet(S), \A x \in S : f[x] \in Int
    PROVE  /\ Total(f, S) \in Int
           /\ Total(f, {}) = 0
           /\ \A x \in S : Total(f, S) = f[x] + Total(f, S \ {x})
<1>1. PICK g : Sums(g, f, S)
    BY SumsExist
<1>2. Total(f, S) = g[S] /\ Total(f, {}) = g[{}]
    BY <1>1, TotalIsSum
<1>3. \A x \in S : Total(f, S \ {x}) = g[S \ {x}]
    BY <1>1, TotalIsSum
<1> QED
    BY <1>1, <1>2, <1>3, SumsAnyOrder

\* The delay of a set of slots is the total of the slots themselves.
LEMMA DelayIsTotal ==
    ASSUME NEW S \in SUBSET Nat, IsFiniteSet(S)
    PROVE  Delay(S) = Total([s \in Nat |-> s], S)
<1> DEFINE f == [s \in Nat |-> s]
           D(g) == g = [s \in SUBSET S |->
                           IF s = {} THEN 0 ELSE First(s) + g[s \ {First(s)}]]
<1>1. \A s \in SUBSET S : s # {} => f[First(s)] = First(s)
    BY FirstIsIn
<1>2. ASSUME NEW g
      PROVE  Sums(g, f, S) <=> D(g)
  <2>1. [s \in SUBSET S |-> IF s = {} THEN 0 ELSE First(s) + g[s \ {First(s)}]]
      = [s \in SUBSET S |-> IF s = {} THEN 0 ELSE f[First(s)] + g[s \ {First(s)}]]
    <3> HIDE DEF f
    <3> QED
        BY <1>1
  <2> HIDE DEF f
  <2> QED
      BY <2>1, Zenon DEF Sums
<1>3. \E g : D(g)
    BY <1>2, SumsExist
<1>4. PICK g : D(g) /\ Delay(S) = g[S]
    BY <1>3 DEF Delay, MapThenSumSet, MapThenFoldSet, First
<1> HIDE DEF f, D
<1>5. Sums(g, f, S)
    BY <1>2, <1>4
<1>6. Total(f, S) = g[S]
    BY <1>5, TotalIsSum
<1> QED
    BY <1>4, <1>6 DEF f

\* A delay is a sum too.
LEMMA Delays ==
    ASSUME NEW S \in SUBSET Nat, IsFiniteSet(S)
    PROVE  /\ Delay(S) \in Int
           /\ Delay({}) = 0
           /\ \A x \in S : Delay(S) = x + Delay(S \ {x})
<1> DEFINE f == [s \in Nat |-> s]
<1>1. \A x \in S : f[x] \in Int /\ f[x] = x
    OBVIOUS
<1>2. \A T \in SUBSET S : Delay(T) = Total(f, T)
    BY DelayIsTotal, FS_Subset
<1> HIDE DEF f
<1>3. Delay(S) = Total(f, S) /\ Delay({}) = Total(f, {})
    BY <1>2
<1>4. \A x \in S : Delay(S \ {x}) = Total(f, S \ {x})
    BY <1>2
<1>5. /\ Total(f, S) \in Int /\ Total(f, {}) = 0
      /\ \A x \in S : Total(f, S) = f[x] + Total(f, S \ {x})
    BY ZenonT(30), <1>1, Totals
<1> QED
    BY <1>1, <1>3, <1>4, <1>5

-----------------------------------------------------------------------------
(* The best slots.                                                         *)

\* A load with the prices that are known of its slots.
PricedLoad(p) ==
    /\ Load(p)
    /\ p.sense \in {"MIN", "MAX"}
    /\ Priced(p) \subseteq Slots(p)
    /\ \A s \in Priced(p) : p.price[s] \in Int

\* The assumption on processes includes what sums need: known prices are integers.
LEMMA LoadsArePriced ==
    ASSUME NEW p \in Loads
    PROVE  PricedLoad(p)
BY LoadsAssumption, LoadsAreLoads DEF PricedLoad, Priced, Slots

\* By cost and then by time any two slots of a set are in order.
LEMMA BetterIsOrder ==
    ASSUME NEW p, p.sense \in {"MIN", "MAX"}
    PROVE  \A x, y, z, a, b, c \in Int :
              /\ ~ Better(p, x, a, x, a)
              /\ Better(p, x, a, y, b) => ~ Better(p, y, b, x, a)
              /\ Better(p, x, a, y, b) /\ Better(p, y, b, z, c) => Better(p, x, a, z, c)
              /\ a # b => Better(p, x, a, y, b) \/ Better(p, y, b, x, a)
<1>1. CASE p.sense = "MIN"
    BY <1>1 DEF Better
<1>2. CASE p.sense = "MAX"
    BY <1>2 DEF Better
<1> QED
    BY <1>1, <1>2

\* Some slot of a set is the best one.
LEMMA BestExists ==
    ASSUME NEW p, p.sense \in {"MIN", "MAX"},
           NEW R \in SUBSET Nat, IsFiniteSet(R), R # {},
           NEW cost, \A s \in R : cost[s] \in Int
    PROVE  \E s \in R : \A t \in R \ {s} : Better(p, cost[s], s, cost[t], t)
<1> DEFINE Best(T, s) == \A t \in T \ {s} : Better(p, cost[s], s, cost[t], t)
           Bad == {T \in SUBSET R : T # {} /\ ~ \E s \in T : Best(T, s)}
<1> SUFFICES ASSUME Bad # {}
             PROVE  FALSE
    OBVIOUS
<1>1. Bad \in SUBSET SUBSET R /\ Bad # {}
    OBVIOUS
<1>2. \E T \in Bad : \A u \in SUBSET T : u # T => u \notin Bad
  <2> HIDE DEF Bad
  <2> QED
      BY <1>1, MinimalExists
<1>3. PICK T \in Bad : \A u \in SUBSET T : u # T => u \notin Bad
    BY <1>2
<1>4. PICK x \in T : TRUE
    OBVIOUS
<1> DEFINE U == T \ {x}
<1>5. U \in SUBSET T /\ U # T /\ U \in SUBSET R
    OBVIOUS
<1>6. U # {}
  <2>1. U = {} => Best(T, x)
      OBVIOUS
  <2> QED
      BY <1>4, <2>1
<1>7. PICK b \in U : Best(U, b)
    BY <1>3, <1>5, <1>6
<1>8. /\ x \in Int /\ b \in Int /\ x # b /\ x \in R /\ b \in R
      /\ cost[x] \in Int /\ cost[b] \in Int
    BY <1>4, <1>7
<1>9. CASE Better(p, cost[b], b, cost[x], x)
  <2>1. Best(T, b)
      BY <1>7, <1>9
  <2> QED
      BY <1>7, <2>1
<1>10. CASE Better(p, cost[x], x, cost[b], b)
  <2>1. ASSUME NEW t \in T \ {x}
        PROVE  Better(p, cost[x], x, cost[t], t)
    <3>1. CASE t = b
        BY <1>10, <3>1
    <3>2. CASE t # b
      <4>1. Better(p, cost[b], b, cost[t], t)
          BY <1>7, <2>1, <3>2
      <4>2. t \in Int /\ cost[t] \in Int
          BY <2>1
      <4> QED
          BY <1>8, <1>10, <4>1, <4>2, BetterIsOrder
    <3> QED
        BY <3>1, <3>2
  <2> QED
      BY <1>4, <2>1
<1> QED
    BY <1>8, <1>9, <1>10, BetterIsOrder

\* As many of a set as are wanted can be told apart as its best.
LEMMA BestOnesExist ==
    ASSUME NEW p, p.sense \in {"MIN", "MAX"},
           NEW R \in SUBSET Nat, IsFiniteSet(R),
           NEW cost, \A s \in R : cost[s] \in Int,
           NEW n \in Nat, n <= Cardinality(R)
    PROVE  \E T \in SUBSET R :
              /\ Cardinality(T) = n
              /\ \A s \in T, t \in R \ T : Better(p, cost[s], s, cost[t], t)
<1> DEFINE Told(T, m) == /\ Cardinality(T) = m
                         /\ \A s \in T, t \in R \ T : Better(p, cost[s], s, cost[t], t)
           Bad == {m \in Nat : m <= Cardinality(R) /\ ~ \E T \in SUBSET R : Told(T, m)}
<1> SUFFICES ASSUME Bad # {}
             PROVE  FALSE
    OBVIOUS
<1>1. Bad \in SUBSET Nat /\ Bad # {}
    OBVIOUS
<1>2. \E m \in Bad : \A k \in Bad : m <= k
  <2> HIDE DEF Bad
  <2> QED
      BY <1>1, SmallestExists
<1>3. PICK m \in Bad : \A k \in Bad : m <= k
    BY <1>2
<1>4. m # 0
  <2>1. {} \in SUBSET R /\ Told({}, 0)
      BY FS_EmptySet
  <2> QED
      BY <1>3, <2>1
<1>0. Cardinality(R) \in Nat /\ m \in Nat /\ m <= Cardinality(R)
    BY FS_CardinalityType
<1>5. m - 1 \in Nat /\ m - 1 <= Cardinality(R) /\ ~ (m <= m - 1)
    BY <1>0, <1>4
<1>6. m - 1 \notin Bad
    BY <1>3, <1>5
<1>7. PICK T \in SUBSET R : Told(T, m - 1)
    BY <1>5, <1>6
<1>8. IsFiniteSet(T) /\ IsFiniteSet(R \ T)
    BY FS_Subset
<1>9. R \ T # {}
  <2>1. R \ T = {} => T = R
      OBVIOUS
  <2>2. Cardinality(T) = m - 1
      BY <1>7
  <2>3. T = R => m - 1 = Cardinality(R)
      BY <2>2
  <2> QED
      BY <1>0, <2>1, <2>3
<1>10. PICK b \in R \ T : \A t \in (R \ T) \ {b} : Better(p, cost[b], b, cost[t], t)
  <2> DEFINE Q == R \ T
  <2>1. Q \in SUBSET Nat /\ IsFiniteSet(Q) /\ Q # {} /\ \A s \in Q : cost[s] \in Int
      BY <1>8, <1>9
  <2> HIDE DEF Q
  <2>2. \E b \in Q : \A t \in Q \ {b} : Better(p, cost[b], b, cost[t], t)
      BY <2>1, BestExists
  <2> QED
      BY <2>2 DEF Q
<1> DEFINE U == T \cup {b}
<1>11. U \in SUBSET R /\ Cardinality(U) = m
  <2>1. Cardinality(U) = Cardinality(T) + 1
      BY <1>8, <1>10, FS_AddElement
  <2> QED
      BY <1>0, <1>7, <2>1
<1>12. \A s \in U, t \in R \ U : Better(p, cost[s], s, cost[t], t)
    BY <1>7, <1>10
<1> QED
    BY <1>3, <1>11, <1>12

-----------------------------------------------------------------------------
(* What the schedulers choose.                                             *)

\* A block within the window is as many slots as there are rows to fill.
LEMMA BlockSize ==
    ASSUME NEW p, Load(p), NEW s \in Slots(p)
    PROVE  /\ s \in Nat /\ Block(p, s) \in SUBSET Nat
           /\ s \in Block(p, s)
           /\ IsFiniteSet(Block(p, s)) /\ Cardinality(Block(p, s)) = RowsToFill(p)
<1> DEFINE last == s + RowsToFill(p) - 1
<1>1. p.length \in Nat \ {0} /\ RowsToFill(p) \in 1..p.length
    BY RowsAreEnough DEF Load
<1>2. s \in Nat /\ last \in Nat /\ s <= last
    BY <1>1 DEF Slots
<1>3. Block(p, s) = s..last
    BY DEF Block
<1>4. s \in Int /\ last \in Int
    BY <1>2
<1>5. /\ IsFiniteSet(s..last)
      /\ Cardinality(s..last) = IF s > last THEN 0 ELSE last - s + 1
    BY <1>4, FS_Interval
<1> QED
    BY <1>1, <1>2, <1>3, <1>5

\* A start with enough prices left has a window.
LEMMA WindowIsThere ==
    ASSUME NEW p, PricedLoad(p), NEW s \in Slots(p), HasWindow(p, s)
    PROVE  /\ Window(p, s) \in SUBSET Priced(p)
           /\ Cardinality(Window(p, s)) = RowsToFill(p)
           /\ \A w \in Window(p, s) : s <= w
           /\ \A t \in Priced(p) :
                 s <= t /\ (\E w \in Window(p, s) : t <= w) => t \in Window(p, s)
<1> DEFINE R == {t \in Priced(p) : s <= t}
           zero == [t \in Nat |-> 0]
<1>1. p.sense \in {"MIN", "MAX"} /\ Load(p) /\ Priced(p) \subseteq Slots(p)
    BY DEF PricedLoad
<1>2. Slots(p) \subseteq Nat
    BY <1>1 DEF Load, Slots
<1>3. R \in SUBSET Nat /\ IsFiniteSet(R) /\ \A t \in R : zero[t] \in Int
  <2>1. R \in SUBSET Slots(p)
      BY <1>1
  <2>2. IsFiniteSet(R)
      BY <1>1, <2>1, SlotsAreFinite
  <2> QED
      BY <1>2, <2>1, <2>2
<1>4. RowsToFill(p) \in Nat /\ RowsToFill(p) <= Cardinality(R)
    BY <1>1, RowsAreEnough DEF HasWindow, Load
<1>5. PICK T \in SUBSET R :
          /\ Cardinality(T) = RowsToFill(p)
          /\ \A a \in T, b \in R \ T : Better(p, zero[a], a, zero[b], b)
  <2> HIDE DEF R, zero
  <2> QED
      BY <1>1, <1>3, <1>4, BestOnesExist
<1>6. \A a \in T, b \in R \ T : a < b
  <2>1. \A a \in R : a \in Nat /\ zero[a] = 0
      BY <1>3
  <2>2. \A a, b \in Nat : Better(p, 0, a, 0, b) => a < b
      BY <1>1 DEF Better
  <2> HIDE DEF R, zero
  <2> QED
      BY <1>5, <2>1, <2>2
<1>7. \A t \in Priced(p) : s <= t /\ (\E w \in T : t <= w) => t \in T
  <2> SUFFICES ASSUME NEW t \in R, NEW w \in T, t <= w, t \notin T
               PROVE  FALSE
      OBVIOUS
  <2>1. w < t
      BY <1>6
  <2>2. w \in Nat /\ t \in Nat
      BY <1>3
  <2> QED
      BY <2>1, <2>2
<1>8. T \in SUBSET Priced(p) /\ \A w \in T : s <= w
    BY <1>5
<1> DEFINE IsWindow(W) == /\ Cardinality(W) = RowsToFill(p)
                          /\ \A w \in W : s <= w
                          /\ \A t \in Priced(p) :
                                s <= t /\ (\E w \in W : t <= w) => t \in W
<1>9. \E W \in SUBSET Priced(p) : IsWindow(W)
    BY <1>5, <1>7, <1>8
<1>10. Window(p, s) = CHOOSE W \in SUBSET Priced(p) : IsWindow(W)
    BY DEF Window
<1> HIDE DEF IsWindow
<1>11. Window(p, s) \in SUBSET Priced(p) /\ IsWindow(Window(p, s))
    BY <1>9, <1>10
<1> QED
    BY <1>11 DEF IsWindow

\* A block's cost is a number.
LEMMA BlockCosts ==
    ASSUME NEW p, PricedLoad(p), NEW s \in Slots(p), HasWindow(p, s)
    PROVE  /\ BlockCost(p, s) = Total(p.price, Window(p, s))
           /\ BlockCost(p, s) \in Int
<1>1. BlockCost(p, s) = Total(p.price, Window(p, s))
    BY DEF BlockCost, Total
<1>2. Window(p, s) \in SUBSET Priced(p)
    BY WindowIsThere
<1>3. /\ IsFiniteSet(Window(p, s))
      /\ \A x \in Window(p, s) : p.price[x] \in Int
    BY <1>2, SlotsAreFinite DEF PricedLoad
<1> QED
    BY <1>1, <1>3, Totals

\* With every slot priced, the window of a block is the block.
LEMMA WindowIsBlock ==
    ASSUME NEW p, PricedLoad(p), AllPriced(p), NEW s \in Slots(p),
           Block(p, s) \subseteq Slots(p), HasWindow(p, s)
    PROVE  Window(p, s) = Block(p, s)
<1> DEFINE W == Window(p, s)
           B == Block(p, s)
<1>1. Load(p) /\ Priced(p) = Slots(p)
    BY DEF PricedLoad, AllPriced
<1>2. /\ s \in Nat /\ B \in SUBSET Nat
      /\ IsFiniteSet(B) /\ Cardinality(B) = RowsToFill(p)
    BY <1>1, BlockSize
<1>3. /\ W \in SUBSET Slots(p) /\ Cardinality(W) = RowsToFill(p)
      /\ \A w \in W : s <= w
      /\ \A t \in Slots(p) : s <= t /\ (\E w \in W : t <= w) => t \in W
    BY <1>1, WindowIsThere
<1>4. IsFiniteSet(W) /\ W \subseteq Nat /\ RowsToFill(p) \in Nat
    BY <1>1, <1>3, SlotsAreFinite, RowsAreEnough DEF Slots, Load
<1>5. B = s..s + RowsToFill(p) - 1
    BY DEF Block
<1>0. B \subseteq Slots(p)
    OBVIOUS
<1> HIDE DEF W, B
<1>6. W \subseteq B
  <2> SUFFICES ASSUME NEW w \in W, w \notin B
               PROVE  FALSE
      OBVIOUS
  <2>1. w \in Nat /\ s <= w /\ s + RowsToFill(p) - 1 < w
      BY <1>2, <1>3, <1>4, <1>5
  <2>2. \A t \in B : t \in Slots(p) /\ s <= t /\ t <= w
      BY <1>0, <1>2, <1>4, <1>5, <2>1
  <2>3. B \subseteq W
      BY <1>3, <2>2
  <2>4. B = W
      BY <1>2, <1>3, <1>4, <2>3, FS_Subset
  <2> QED
      BY <2>4
<1>7. W = B
    BY <1>2, <1>3, <1>6, FS_Subset
<1> QED
    BY <1>7 DEF W, B

\* Of two blocks of one size the one that starts earlier has the smaller delay.
LEMMA DelayMoves ==
    ASSUME NEW a \in Nat, NEW b \in Nat, a <= b, NEW n \in Nat
    PROVE  Delay(a..a + n - 1) <= Delay(b..b + n - 1)
<1> DEFINE Bad == {m \in Nat : ~ Delay(a..a + m - 1) <= Delay(b..b + m - 1)}
<1> SUFFICES ASSUME Bad # {}
             PROVE  FALSE
    OBVIOUS
<1>1. Bad \in SUBSET Nat /\ Bad # {}
    OBVIOUS
<1>2. \E m \in Bad : \A k \in Bad : m <= k
  <2> HIDE DEF Bad
  <2> QED
      BY <1>1, SmallestExists
<1>3. PICK m \in Bad : \A k \in Bad : m <= k
    BY <1>2
<1>4. \A c \in Nat, k \in Nat : c..c + k - 1 \in SUBSET Nat /\ IsFiniteSet(c..c + k - 1)
  <2> TAKE c \in Nat, k \in Nat
  <2> DEFINE e == c + k - 1
  <2>1. c \in Int /\ e \in Int
      OBVIOUS
  <2>2. c..e \in SUBSET Nat
      BY <2>1
  <2> HIDE DEF e
  <2>3. IsFiniteSet(c..e)
      BY <2>1, FS_Interval
  <2> QED
      BY <2>2, <2>3 DEF e
<1>5. m # 0
  <2>1. a..a + 0 - 1 = {} /\ b..b + 0 - 1 = {}
      OBVIOUS
  <2>2. Delay({}) = 0
      BY FS_EmptySet, Delays
  <2>3. Delay(a..a + 0 - 1) <= Delay(b..b + 0 - 1)
      BY <2>1, <2>2
  <2> QED
      BY <1>3, <2>3
<1>6. m - 1 \in Nat /\ ~ (m <= m - 1)
    BY <1>5
<1>7. Delay(a..a + (m - 1) - 1) <= Delay(b..b + (m - 1) - 1)
    BY <1>3, <1>6
<1>8. ASSUME NEW c \in Nat
      PROVE  /\ Delay(c..c + m - 1) = (c + m - 1) + Delay(c..c + (m - 1) - 1)
             /\ Delay(c..c + (m - 1) - 1) \in Int
  <2>1. (c..c + m - 1) \ {c + m - 1} = c..c + (m - 1) - 1
      BY <1>6
  <2>2. c + m - 1 \in c..c + m - 1
      BY <1>6
  <2>3. c..c + m - 1 \in SUBSET Nat /\ IsFiniteSet(c..c + m - 1)
      BY <1>4
  <2>4. Delay(c..c + m - 1) = (c + m - 1) + Delay((c..c + m - 1) \ {c + m - 1})
      BY <2>2, <2>3, Delays
  <2>5. Delay(c..c + (m - 1) - 1) \in Int
      BY <1>4, <1>6, Delays
  <2> QED
      BY <2>1, <2>4, <2>5
<1>9. Delay(a..a + m - 1) <= Delay(b..b + m - 1)
  <2> DEFINE u == Delay(a..a + (m - 1) - 1)
             v == Delay(b..b + (m - 1) - 1)
  <2>1. /\ Delay(a..a + m - 1) = (a + m - 1) + u /\ u \in Int
        /\ Delay(b..b + m - 1) = (b + m - 1) + v /\ v \in Int
        /\ u <= v
      BY <1>7, <1>8
  <2> HIDE DEF u, v
  <2>2. (a + m - 1) + u <= (b + m - 1) + v
      BY <1>6, <2>1
  <2> QED
      BY <2>1, <2>2
<1> QED
    BY <1>3, <1>9

\* The slots of a breakable process with all prices known: as many as there are rows
\* to fill, each better than every free slot left out.
LEMMA BreakableIsBest ==
    ASSUME NEW p, PricedLoad(p), AllPriced(p), Breakable(p) # Refusal
    PROVE  \E C \in SUBSET Free(p) :
              /\ Breakable(p) = Running(C)
              /\ Cardinality(C) = RowsToFill(p)
              /\ \A s \in C, t \in Free(p) \ C :
                    Better(p, p.price[s], s, p.price[t], t)
<1> DEFINE R == Free(p) \cap Priced(p)
           rows == RowsToFill(p)
           Over(s) == {t \in R : Better(p, p.price[t], t, p.price[s], s)}
<1>1. /\ p.sense \in {"MIN", "MAX"} /\ Load(p)
      /\ Priced(p) = Slots(p) /\ \A s \in Priced(p) : p.price[s] \in Int
    BY DEF PricedLoad, AllPriced
<1>2. R = Free(p) /\ R \in SUBSET Slots(p)
    BY <1>1 DEF Free
<1>3. ~ (Cardinality(Free(p)) < rows) /\ Breakable(p) = Running({s \in R : Cardinality(Over(s)) < rows})
    BY DEF Breakable
<1>4. /\ R \in SUBSET Nat /\ IsFiniteSet(R) /\ Cardinality(R) \in Nat
      /\ \A s \in R : p.price[s] \in Int
      /\ rows \in Nat
    BY <1>1, <1>2, SlotsAreFinite, RowsAreEnough DEF Slots, Load
<1>5. rows <= Cardinality(R)
    BY <1>2, <1>3, <1>4
<1>6. PICK T \in SUBSET R :
          /\ Cardinality(T) = rows
          /\ \A s \in T, t \in R \ T : Better(p, p.price[s], s, p.price[t], t)
  <2> HIDE DEF R, rows
  <2> QED
      BY <1>1, <1>4, <1>5, BestOnesExist
<1>7. \A s \in R : IsFiniteSet(Over(s)) /\ Cardinality(Over(s)) \in Nat
  <2> TAKE s \in R
  <2>1. Over(s) \in SUBSET R
      OBVIOUS
  <2> HIDE DEF Over
  <2> QED
      BY <1>4, <2>1, FS_Subset, FS_CardinalityType
<1>8. ASSUME NEW s \in T
      PROVE  Cardinality(Over(s)) < rows
  <2>1. Over(s) \subseteq T \ {s}
    <3> SUFFICES ASSUME NEW t \in R, Better(p, p.price[t], t, p.price[s], s),
                        t \notin T \/ t = s
                 PROVE  FALSE
        OBVIOUS
    <3>1. /\ s \in Int /\ t \in Int /\ s \in R
          /\ p.price[s] \in Int /\ p.price[t] \in Int
        BY <1>4, <1>6, <1>8
    <3>2. t # s
        BY <1>1, <3>1, BetterIsOrder
    <3>3. Better(p, p.price[s], s, p.price[t], t)
        BY <1>6, <1>8, <3>2
    <3> QED
        BY <1>1, <3>1, <3>3, BetterIsOrder
  <2>2. IsFiniteSet(T) /\ IsFiniteSet(T \ {s}) /\ Cardinality(T \ {s}) = rows - 1
      BY <1>4, <1>6, <1>8, FS_Subset, FS_RemoveElement
  <2>3. Cardinality(Over(s)) <= rows - 1
      BY <2>1, <2>2, FS_Subset
  <2> QED
      BY <1>4, <1>6, <1>7, <1>8, <2>3
<1>9. ASSUME NEW s \in R \ T
      PROVE  ~ (Cardinality(Over(s)) < rows)
  <2>1. T \in SUBSET Over(s)
      BY <1>6, <1>9
  <2>2. rows <= Cardinality(Over(s))
      BY <1>6, <1>7, <1>9, <2>1, FS_Subset
  <2> QED
      BY <1>4, <1>7, <1>9, <2>2
<1>10. {s \in R : Cardinality(Over(s)) < rows} = T
  <2> HIDE DEF Over, R
  <2> QED
      BY <1>6, <1>8, <1>9
<1> QED
    BY <1>2, <1>3, <1>6, <1>10

\* Whatever else of the same size is taken of a set, its best ones are no worse.
LEMMA BestOnesAreBest ==
    ASSUME NEW p, p.sense \in {"MIN", "MAX"},
           NEW R \in SUBSET Nat, IsFiniteSet(R),
           NEW cost, \A s \in R : cost[s] \in Int,
           NEW C \in SUBSET R,
           \A s \in C, t \in R \ C : Better(p, cost[s], s, cost[t], t),
           NEW O \in SUBSET R, Cardinality(O) = Cardinality(C)
    PROVE  ~ Better(p, Total(cost, O), Delay(O), Total(cost, C), Delay(C))
<1> DEFINE Beats(T) == Better(p, Total(cost, T), Delay(T), Total(cost, C), Delay(C))
           Bad == {n \in Nat : \E T \in SUBSET R :
                      /\ Cardinality(T) = Cardinality(C) /\ Beats(T)
                      /\ Cardinality(T \ C) = n}
<1>1. \A T \in SUBSET R : /\ IsFiniteSet(T) /\ Cardinality(T) \in Nat
                          /\ Total(cost, T) \in Int /\ Delay(T) \in Int
  <2> TAKE T \in SUBSET R
  <2>1. IsFiniteSet(T) /\ T \in SUBSET Nat /\ \A s \in T : cost[s] \in Int
      BY FS_Subset
  <2> QED
      BY <2>1, FS_CardinalityType, Totals, Delays
<1>2. SUFFICES ASSUME Bad # {}
               PROVE  FALSE
  <2>1. Cardinality(O \ C) \in Nat
      BY <1>1
  <2> QED
      BY <2>1
<1>3. Bad \in SUBSET Nat
    OBVIOUS
<1>4. \E n \in Bad : \A k \in Bad : n <= k
  <2> HIDE DEF Bad
  <2> QED
      BY <1>2, <1>3, SmallestExists
<1>5. PICK n \in Bad : \A k \in Bad : n <= k
    BY <1>4
<1>6. PICK T \in SUBSET R : /\ Cardinality(T) = Cardinality(C) /\ Beats(T)
                            /\ Cardinality(T \ C) = n
    BY <1>5
<1> HIDE DEF Beats
<1>7. T # C
  <2>1. ~ Better(p, Total(cost, C), Delay(C), Total(cost, C), Delay(C))
      BY <1>1, BetterIsOrder
  <2> QED
      BY <1>6, <2>1 DEF Beats
<1>8. PICK o \in T \ C : TRUE
  <2>1. T \ C = {} => T \in SUBSET C
      OBVIOUS
  <2> QED
      BY <1>1, <1>6, <1>7, <2>1, FS_Subset
<1>9. PICK c \in C \ T : TRUE
  <2>1. C \ T = {} => C \in SUBSET T
      OBVIOUS
  <2> QED
      BY <1>1, <1>6, <1>7, <2>1, FS_Subset
<1> DEFINE K == T \ {o}
           U == K \cup {c}
<1>10. /\ U \in SUBSET R /\ o \in T /\ c \in U /\ c # o
       /\ U \ {c} = K /\ U \ C = (T \ C) \ {o} /\ o \in T \ C
    BY <1>8, <1>9
<1>11. Cardinality(U) = Cardinality(C)
  <2>1. Cardinality(K) = Cardinality(T) - 1 /\ IsFiniteSet(K)
      BY <1>1, <1>10, FS_RemoveElement
  <2>2. Cardinality(U) = Cardinality(K) + 1
      BY <1>9, <2>1, FS_AddElement
  <2>3. Cardinality(T) \in Nat
      BY <1>1
  <2> QED
      BY <1>6, <2>1, <2>2, <2>3
<1>12. Cardinality(U \ C) = n - 1 /\ n - 1 \in Nat /\ ~ (n <= n - 1)
  <2>1. IsFiniteSet(T \ C)
      BY <1>1
  <2> DEFINE W == T \ C
  <2>6. IsFiniteSet(W) /\ o \in W /\ Cardinality(W) = n
      BY <1>6, <1>10, <2>1
  <2> HIDE DEF W
  <2>7. Cardinality(W \ {o}) = n - 1 /\ IsFiniteSet(W \ {o})
      BY <2>6, FS_RemoveElement
  <2>2. Cardinality((T \ C) \ {o}) = n - 1 /\ IsFiniteSet((T \ C) \ {o})
      BY <2>7 DEF W
  <2>3. n - 1 \in Nat
      BY <2>2, FS_CardinalityType
  <2>4. n \in Nat
      BY <1>5
  <2>5. ~ (n <= n - 1)
      BY <2>4
  <2> HIDE DEF U
  <2> QED
      BY <1>10, <2>2, <2>3, <2>5
<1>13. Beats(U)
  <2> DEFINE x == Total(cost, K)
             a == Delay(K)
  <2>1. Better(p, cost[c], c, cost[o], o)
      BY <1>8, <1>9
  <2>2. /\ Total(cost, T) = cost[o] + x /\ Delay(T) = o + a
        /\ Total(cost, U) = cost[c] + x /\ Delay(U) = c + a
    <3>1. \A S \in SUBSET R : /\ IsFiniteSet(S) /\ S \in SUBSET Nat
                              /\ \A s \in S : cost[s] \in Int
        BY <1>1
    <3> HIDE DEF U, K
    <3>0. ASSUME NEW S \in SUBSET R, NEW e \in S
          PROVE  Total(cost, S) = cost[e] + Total(cost, S \ {e}) /\ Delay(S) = e + Delay(S \ {e})
      <4>1. IsFiniteSet(S) /\ S \in SUBSET Nat /\ \A s \in S : cost[s] \in Int
          BY <3>1
      <4>2. \A y \in S : Total(cost, S) = cost[y] + Total(cost, S \ {y})
          BY <4>1, Totals
      <4>3. Delay(S) = e + Delay(S \ {e})
          BY <4>1, Delays
      <4> QED
          BY <4>2, <4>3
    <3>2. Total(cost, U) = cost[c] + Total(cost, U \ {c}) /\ Delay(U) = c + Delay(U \ {c})
        BY <1>10, <3>0
    <3>3. Total(cost, T) = cost[o] + Total(cost, T \ {o}) /\ Delay(T) = o + Delay(T \ {o})
        BY <1>10, <3>0
    <3> QED
        BY <1>10, <3>2, <3>3 DEF K
  <2>3. /\ x \in Int /\ a \in Int /\ o \in Int /\ c \in Int
        /\ cost[o] \in Int /\ cost[c] \in Int
      BY <1>1, <1>8, <1>9
  <2> HIDE DEF x, a, U, K
  <2>4. Better(p, cost[c] + x, c + a, cost[o] + x, o + a)
    <3> DEFINE u == cost[c]
               v == cost[o]
    <3>1. Better(p, u, c, v, o) /\ u \in Int /\ v \in Int
        BY <2>1, <2>3
    <3> HIDE DEF u, v
    <3>2. Better(p, u + x, c + a, v + x, o + a)
      <4>1. CASE p.sense = "MIN"
          BY <2>3, <3>1, <4>1 DEF Better
      <4>2. CASE p.sense = "MAX"
          BY <2>3, <3>1, <4>2 DEF Better
      <4> QED
          BY <4>1, <4>2
    <3> QED
        BY <3>2 DEF u, v
  <2>5. Better(p, Total(cost, U), Delay(U), Total(cost, T), Delay(T))
      BY <2>2, <2>4
  <2>6. Better(p, Total(cost, T), Delay(T), Total(cost, C), Delay(C))
      BY <1>6 DEF Beats
  <2>7. Better(p, Total(cost, U), Delay(U), Total(cost, C), Delay(C))
      BY <1>1, <1>10, <2>5, <2>6, BetterIsOrder
  <2> QED
      BY <2>7 DEF Beats
<1> HIDE DEF U
<1>14. n - 1 \in Bad
    BY <1>10, <1>11, <1>12, <1>13
<1> QED
    BY <1>5, <1>12, <1>14

\* A shiftable process gets the block that costs best.
LEMMA ShiftableIsBest ==
    ASSUME NEW p, PricedLoad(p), Shiftable(p) # Refusal
    PROVE  \E c \in Starts(p) :
              /\ Shiftable(p) = Running(Block(p, c))
              /\ \A t \in Starts(p) \ {c} : HasWindow(p, t) =>
                    Better(p, BlockCost(p, c), c, BlockCost(p, t), t)
<1> DEFINE R == {s \in Starts(p) : HasWindow(p, s)}
           Best(s) == \A t \in R \ {s} : Better(p, BlockCost(p, s), s, BlockCost(p, t), t)
           cost == [s \in R |-> BlockCost(p, s)]
<1>1. R # {} /\ Shiftable(p) = Running(Block(p, CHOOSE s \in R : Best(s)))
    BY DEF Shiftable
<1>2. p.sense \in {"MIN", "MAX"} /\ Load(p)
    BY DEF PricedLoad
<1>3. R \in SUBSET Slots(p)
    BY DEF Starts
<1>4. R \in SUBSET Nat /\ IsFiniteSet(R) /\ \A s \in R : cost[s] \in Int
  <2>1. \A s \in R : BlockCost(p, s) \in Int
      BY <1>3, BlockCosts
  <2> QED
      BY <1>2, <1>3, <2>1, SlotsAreFinite DEF Slots, Load
<1>5. \E s \in R : \A t \in R \ {s} : Better(p, cost[s], s, cost[t], t)
  <2> HIDE DEF R, cost
  <2> QED
      BY <1>1, <1>2, <1>4, BestExists
<1>6. \A s \in R : cost[s] = BlockCost(p, s)
    OBVIOUS
<1>7. \E s \in R : Best(s)
  <2> HIDE DEF R, cost
  <2> QED
      BY <1>5, <1>6
<1> DEFINE c == CHOOSE s \in R : Best(s)
<1>8. c \in R /\ Best(c)
  <2> HIDE DEF R, Best
  <2> QED
      BY <1>7
<1>9. Shiftable(p) = Running(Block(p, c))
    BY <1>1
<1> HIDE DEF c
<1> QED
    BY <1>8, <1>9

\* The slots of a window filled are the only block there is.
LEMMA FilledWindow ==
    ASSUME NEW p, Load(p), RowsToFill(p) = p.length, FillWindow(p) # Refusal
    PROVE  /\ FillWindow(p) = Running(Slots(p))
           /\ Slots(p) \in Fits(p)
           /\ \A other \in Fits(p) : other = Slots(p)
<1>1. p.length \in Nat \ {0}
    BY DEF Load
<1>2. p.restricted = {} /\ FillWindow(p) = Running(Slots(p))
    BY DEF FillWindow
<1>3. Free(p) = Slots(p)
    BY <1>2 DEF Free
<1>4. 0 \in Slots(p) /\ Block(p, 0) = Slots(p)
    BY <1>1 DEF Block, Slots
<1>5. Cardinality(Slots(p)) = RowsToFill(p)
    BY SlotsAreFinite
<1>6. IsFit(p, Slots(p))
    BY <1>3, <1>4, <1>5 DEF IsFit
<1>7. ASSUME NEW other \in SUBSET Slots(p), IsFit(p, other)
      PROVE  other = Slots(p)
  <2>1. CASE p.kind = "BREAKABLE"
      BY <1>7, <2>1, SlotsAreFinite DEF IsFit
  <2>2. CASE p.kind # "BREAKABLE"
    <3>1. PICK s \in Slots(p) : other = Block(p, s)
        BY <1>7, <2>2 DEF IsFit
    <3>2. other = s..s + p.length - 1 /\ s \in 0..p.length - 1
        BY <3>1 DEF Block, Slots
    <3>3. s + p.length - 1 \in 0..p.length - 1
        BY <1>1, <3>2 DEF Slots
    <3> QED
        BY <1>1, <3>2, <3>3 DEF Slots
  <2> QED
      BY <2>1, <2>2
<1> QED
    BY <1>2, <1>6, <1>7 DEF Fits

\* A block of free slots fits.
LEMMA FreeBlockFits ==
    ASSUME NEW p, p.kind # "BREAKABLE", NEW s \in Slots(p), Block(p, s) \subseteq Free(p)
    PROVE  Block(p, s) \in Fits(p)
BY DEF Fits, IsFit, Free

\* What is scheduled fits, unless prices are missing for a breakable process.
LEMMA ScheduledFits ==
    ASSUME NEW p, PricedLoad(p), Scheduled(p) # Refusal
    PROVE  \E C : /\ Scheduled(p) = Running(C)
                  /\ \/ C \in Fits(p)
                     \/ /\ p.kind = "BREAKABLE" /\ ~ AllPriced(p)
                        /\ C \subseteq Free(p)
<1>0. Load(p) /\ p.kind \in {"INFLEXIBLE", "SHIFTABLE", "BREAKABLE"}
    BY DEF PricedLoad, Load
<1>1. CASE RowsToFill(p) = p.length
  <2>1. Scheduled(p) = FillWindow(p)
      BY <1>1 DEF Scheduled
  <2> QED
      BY <1>0, <1>1, <2>1, FilledWindow
<1>2. CASE RowsToFill(p) # p.length /\ p.kind = "INFLEXIBLE"
  <2>1. Scheduled(p) = Inflexible(p)
      BY <1>2 DEF Scheduled
  <2>2. Starts(p) # {} /\ Inflexible(p) = Running(Block(p, Min(Starts(p))))
      BY <2>1 DEF Inflexible
  <2>3. Starts(p) \in SUBSET Int /\ \A s \in Starts(p) : 0 <= s
      BY <1>0 DEF Starts, Slots, Load
  <2>4. Min(Starts(p)) \in Starts(p)
      BY <2>2, <2>3, MinIsThere
  <2>5. Min(Starts(p)) \in Slots(p) /\ Block(p, Min(Starts(p))) \subseteq Free(p)
      BY <1>0, <1>2, <2>4, StartsAreFree
  <2> QED
      BY <1>2, <2>1, <2>2, <2>5, FreeBlockFits
<1>3. CASE RowsToFill(p) # p.length /\ p.kind = "SHIFTABLE"
  <2>1. Scheduled(p) = Shiftable(p)
      BY <1>3 DEF Scheduled
  <2>2. PICK c \in Starts(p) : Shiftable(p) = Running(Block(p, c))
      BY <2>1, ShiftableIsBest
  <2>3. c \in Slots(p) /\ Block(p, c) \subseteq Free(p)
      BY <1>0, <1>3, StartsAreFree
  <2> QED
      BY <1>3, <2>1, <2>2, <2>3, FreeBlockFits
<1>4. CASE RowsToFill(p) # p.length /\ p.kind = "BREAKABLE"
  <2>1. Scheduled(p) = Breakable(p)
      BY <1>4 DEF Scheduled
  <2>2. CASE AllPriced(p)
    <3>1. PICK C \in SUBSET Free(p) : /\ Breakable(p) = Running(C)
                                      /\ Cardinality(C) = RowsToFill(p)
        BY <2>1, <2>2, BreakableIsBest
    <3>2. C \in Fits(p)
        BY <1>4, <3>1 DEF Fits, IsFit, Free
    <3> QED
        BY <2>1, <3>1, <3>2
  <2>3. CASE ~ AllPriced(p)
    <3>1. \E C \in SUBSET Free(p) : Breakable(p) = Running(C)
        BY <2>1 DEF Breakable
    <3> QED
        BY <1>4, <2>1, <2>3, <3>1
  <2> QED
      BY <2>2, <2>3
<1> QED
    BY <1>0, <1>1, <1>2, <1>3, <1>4

\* A schedule lets a process run for all its duration, in one block unless it can be
\* broken up, and outside the restricted periods; short only for want of prices.
THEOREM PlansRunInFull == PSpec => []RunsInFull
<1>1. PlanIsScheduled => RunsInFull
  <2> SUFFICES ASSUME PlanIsScheduled, plan # NoProcess, plan # Refusal
               PROVE  \/ plan.slots \in Fits(process)
                      \/ /\ process.kind = "BREAKABLE" /\ ~ AllPriced(process)
                         /\ plan.slots \subseteq Free(process)
      BY DEF RunsInFull
  <2>1. process \in Loads /\ plan = Scheduled(process)
      BY DEF PlanIsScheduled
  <2>2. PICK C : /\ plan = Running(C)
                 /\ \/ C \in Fits(process)
                    \/ /\ process.kind = "BREAKABLE" /\ ~ AllPriced(process)
                       /\ C \subseteq Free(process)
      BY <2>1, LoadsArePriced, ScheduledFits
  <2>3. plan.slots = C
      BY <2>2 DEF Running
  <2> QED
      BY <2>2, <2>3
<1> QED
    BY PlanInvariance, <1>1, PTL

\* Of two free blocks of a priced load the cost is what the scheduler compares.
LEMMA BlockCostIsTotal ==
    ASSUME NEW p, PricedLoad(p), AllPriced(p), NEW s \in Slots(p),
           Block(p, s) \subseteq Free(p)
    PROVE  /\ HasWindow(p, s)
           /\ BlockCost(p, s) = Total(p.price, Block(p, s))
           /\ BlockCost(p, s) \in Int
<1>1. Load(p) /\ Block(p, s) \subseteq Slots(p)
    BY DEF PricedLoad, Free
<1>2. HasWindow(p, s)
    BY <1>1, FreeBlocksHaveWindows
<1>3. Window(p, s) = Block(p, s)
    BY <1>1, <1>2, WindowIsBlock
<1> QED
    BY <1>2, <1>3, BlockCosts

\* A block that starts earlier is not delayed more.
LEMMA EarlierBlock ==
    ASSUME NEW p, Load(p), NEW s \in Slots(p), NEW t \in Slots(p), s <= t
    PROVE  /\ Delay(Block(p, s)) <= Delay(Block(p, t))
           /\ Delay(Block(p, s)) \in Int /\ Delay(Block(p, t)) \in Int
<1>1. s \in Nat /\ t \in Nat /\ RowsToFill(p) \in Nat
    BY BlockSize, RowsAreEnough DEF Load
<1>2. Delay(Block(p, s)) <= Delay(Block(p, t))
    BY <1>1, DelayMoves DEF Block
<1> QED
    BY <1>2, BlockSize, Delays

\* No other fit costs less, and none that costs as little is earlier.
LEMMA ScheduledIsBest ==
    ASSUME NEW p, PricedLoad(p), AllPriced(p), NEW C, Scheduled(p) = Running(C),
           NEW other \in Fits(p)
    PROVE  IF p.kind = "INFLEXIBLE"
           THEN Delay(C) <= Delay(other)
           ELSE ~ Better(p, Total(p.price, other), Delay(other),
                            Total(p.price, C), Delay(C))
<1>0. /\ Load(p) /\ p.kind \in {"INFLEXIBLE", "SHIFTABLE", "BREAKABLE"}
      /\ p.sense \in {"MIN", "MAX"} /\ Priced(p) = Slots(p)
      /\ \A s \in Slots(p) : p.price[s] \in Int
    BY DEF PricedLoad, Load, AllPriced
<1>1. \A slots : Running(slots) # Refusal
  <2> TAKE slots
  <2>1. Running(slots).kind = "runs" /\ Refusal.kind = "refused"
      BY DEF Running, Refusal
  <2> QED
      BY <2>1
<1>2. \A slots : Running(slots) = Running(C) => slots = C
  <2> TAKE slots
  <2>1. Running(slots).slots = slots /\ Running(C).slots = C
      BY DEF Running
  <2> QED
      BY <2>1
<1>3. other \in SUBSET Slots(p) /\ IsFit(p, other)
    BY DEF Fits
<1>4. \A S \in SUBSET Slots(p) : /\ IsFiniteSet(S) /\ S \in SUBSET Nat
                                 /\ Total(p.price, S) \in Int /\ Delay(S) \in Int
  <2> TAKE S \in SUBSET Slots(p)
  <2>1. IsFiniteSet(S) /\ S \in SUBSET Nat /\ \A s \in S : p.price[s] \in Int
      BY <1>0, SlotsAreFinite DEF Slots, Load
  <2> QED
      BY <2>1, Totals, Delays
<1>5. CASE RowsToFill(p) = p.length
  <2>1. Scheduled(p) = FillWindow(p)
      BY <1>5 DEF Scheduled
  <2>2. C = Slots(p) /\ other = Slots(p)
      BY <1>0, <1>1, <1>2, <1>5, <2>1, FilledWindow
  <2>3. /\ Delay(C) \in Int
        /\ ~ Better(p, Total(p.price, C), Delay(C), Total(p.price, C), Delay(C))
      BY <1>0, <1>4, <2>2, BetterIsOrder
  <2> QED
      BY <2>2, <2>3
<1>6. CASE RowsToFill(p) # p.length /\ p.kind = "INFLEXIBLE"
  <2>1. Scheduled(p) = Inflexible(p)
      BY <1>6 DEF Scheduled
  <2>2. Starts(p) # {} /\ C = Block(p, Min(Starts(p)))
      BY <1>1, <1>2, <2>1 DEF Inflexible
  <2>3. Starts(p) \in SUBSET Int /\ \A s \in Starts(p) : 0 <= s
      BY <1>0 DEF Starts, Slots, Load
  <2>4. Min(Starts(p)) \in Starts(p) /\ \A s \in Starts(p) : Min(Starts(p)) <= s
      BY <2>2, <2>3, MinIsThere
  <2>5. PICK t \in Slots(p) : other = Block(p, t) /\ Block(p, t) \subseteq Free(p)
      BY <1>3, <1>6 DEF IsFit
  <2>6. t \in Starts(p) /\ Min(Starts(p)) \in Slots(p)
      BY <1>0, <1>6, <2>4, <2>5, StartsAreFree
  <2>7. Delay(C) <= Delay(other)
      BY <1>0, <2>2, <2>4, <2>5, <2>6, EarlierBlock
  <2> QED
      BY <1>6, <2>7
<1>7. CASE RowsToFill(p) # p.length /\ p.kind = "SHIFTABLE"
  <2>1. Scheduled(p) = Shiftable(p)
      BY <1>7 DEF Scheduled
  <2>2. PICK c \in Starts(p) :
            /\ Shiftable(p) = Running(Block(p, c))
            /\ \A t \in Starts(p) \ {c} : HasWindow(p, t) =>
                  Better(p, BlockCost(p, c), c, BlockCost(p, t), t)
      BY <1>1, <2>1, ShiftableIsBest
  <2>3. C = Block(p, c)
      BY <1>2, <2>1, <2>2
  <2>4. c \in Slots(p) /\ Block(p, c) \subseteq Free(p)
      BY <1>0, <1>7, StartsAreFree
  <2>5. PICK t \in Slots(p) : other = Block(p, t) /\ Block(p, t) \subseteq Free(p)
      BY <1>3, <1>7 DEF IsFit
  <2>6. t \in Starts(p)
      BY <1>0, <1>7, <2>5, StartsAreFree
  <2> DEFINE x == Total(p.price, other)
             y == Total(p.price, C)
  <2>7. /\ x = BlockCost(p, t) /\ y = BlockCost(p, c) /\ HasWindow(p, t)
      BY <2>3, <2>4, <2>5, BlockCostIsTotal
  <2>8. /\ x \in Int /\ y \in Int /\ Delay(other) \in Int /\ Delay(C) \in Int
        /\ c \in Int /\ t \in Int
      BY <1>0, <1>3, <1>4, <2>3, <2>4, <2>5, BlockSize DEF Free
  <2>9. ~ Better(p, x, Delay(other), y, Delay(C))
    <3>1. CASE t = c
      <4>1. other = C
          BY <2>3, <2>5, <3>1
      <4> QED
          BY <1>0, <2>8, <4>1, BetterIsOrder
    <3>2. CASE t # c
      <4>1. Better(p, y, c, x, t)
          BY <2>2, <2>6, <2>7, <3>2
      <4>2. c < t => Delay(C) <= Delay(other)
          BY <1>0, <2>3, <2>4, <2>5, <2>8, EarlierBlock
      <4> HIDE DEF x, y
      <4>3. CASE p.sense = "MIN"
          BY <2>8, <4>1, <4>2, <4>3 DEF Better
      <4>4. CASE p.sense = "MAX"
          BY <2>8, <4>1, <4>2, <4>4 DEF Better
      <4> QED
          BY <1>0, <4>3, <4>4
    <3> QED
        BY <3>1, <3>2
  <2> QED
      BY <1>7, <2>9
<1>8. CASE RowsToFill(p) # p.length /\ p.kind = "BREAKABLE"
  <2>1. Scheduled(p) = Breakable(p)
      BY <1>8 DEF Scheduled
  <2>2. PICK S \in SUBSET Free(p) :
            /\ Breakable(p) = Running(S)
            /\ Cardinality(S) = RowsToFill(p)
            /\ \A s \in S, t \in Free(p) \ S :
                  Better(p, p.price[s], s, p.price[t], t)
      BY <1>1, <2>1, BreakableIsBest
  <2>3. S = C
      BY <1>2, <2>1, <2>2
  <2>4. other \in SUBSET Free(p) /\ Cardinality(other) = Cardinality(C)
      BY <1>3, <1>8, <2>2, <2>3 DEF IsFit
  <2>5. Free(p) \in SUBSET Slots(p)
      BY DEF Free
  <2>6. /\ IsFiniteSet(Free(p)) /\ Free(p) \in SUBSET Nat
        /\ \A s \in Free(p) : p.price[s] \in Int
      BY <1>0, <1>4, <2>5
  <2>7. ~ Better(p, Total(p.price, other), Delay(other),
                    Total(p.price, C), Delay(C))
    <3> DEFINE cost == p.price
    <3>1. /\ C \in SUBSET Free(p) /\ \A s \in Free(p) : cost[s] \in Int
          /\ \A s \in C, t \in Free(p) \ C : Better(p, cost[s], s, cost[t], t)
        BY <2>2, <2>3, <2>6
    <3> HIDE DEF cost
    <3>2. ~ Better(p, Total(cost, other), Delay(other), Total(cost, C), Delay(C))
        BY <1>0, <2>4, <2>6, <3>1, BestOnesAreBest
    <3> QED
        BY <3>2 DEF cost
  <2> QED
      BY <1>8, <2>7
<1> QED
    BY <1>0, <1>5, <1>6, <1>7, <1>8

\* With all prices known no other way to run costs less (or earns more), and of those
\* that are as good none is earlier; an inflexible process runs as early as it can.
THEOREM PlansAreBest == PSpec => []BestFit
<1>1. PlanIsScheduled => BestFit
  <2> SUFFICES ASSUME PlanIsScheduled, plan # NoProcess, plan # Refusal,
                      AllPriced(process), NEW other \in Fits(process)
               PROVE  IF process.kind = "INFLEXIBLE"
                      THEN Delay(plan.slots) <= Delay(other)
                      ELSE ~ Better(process, Total(process.price, other), Delay(other),
                                    Total(process.price, plan.slots), Delay(plan.slots))
      BY DEF BestFit
  <2>1. process \in Loads /\ plan = Scheduled(process)
      BY DEF PlanIsScheduled
  <2>2. PricedLoad(process)
      BY <2>1, LoadsArePriced
  <2>3. PICK C : plan = Running(C)
      BY <2>1, <2>2, ScheduledFits
  <2>4. plan.slots = C /\ Scheduled(process) = Running(C)
      BY <2>1, <2>3 DEF Running
  <2> QED
      BY <2>2, <2>4, ScheduledIsBest
<1> QED
    BY PlanInvariance, <1>1, PTL

=============================================================================
