-------------------------- MODULE StorageConstraints --------------------------
(***************************************************************************)
(* How the storage scheduler turns the state-of-charge (SoC) limits of a   *)
(* flex-model into the constraints of its optimization problem, and when   *)
(* it refuses a problem as infeasible before solving it.                   *)
(*                                                                         *)
(* The flex-model states targets, minima and maxima as lists of timed      *)
(* events. Point events between two scheduling ticks are projected onto    *)
(* these ticks (soc_projection.py); then each list becomes either a column *)
(* of hard constraints (build_device_soc_values, add_storage_constraints)  *)
(* or, when SoC constraints are relaxed, a commitment whose breach is      *)
(* priced. Validation compares neighbouring rows with the power the device *)
(* may use (validate_storage_constraints).                                 *)
(*                                                                         *)
(* Times count fine units from the start of the schedule. A problem p has  *)
(*   p.hour, p.res      fine units in an hour and in a scheduling step,    *)
(*   p.ticks            steps in the schedule,                             *)
(*   p.consumption, p.production   hard power limits, as energy per unit,  *)
(*   p.up, p.down       stock gained per energy consumed (charging         *)
(*                      efficiency) and lost per energy produced (inverse  *)
(*                      of the discharging efficiency),                    *)
(*   p.socMin, p.socMax, p.start   limits (or None) and SoC at the start,  *)
(*   p.knownAt          when that SoC was measured,                        *)
(*   p.projects         sensor attribute floor_datetimes_to_resolution,    *)
(*   p.relaxed          the lists that have a breach price,                *)
(*   p.targets, p.minima, p.maxima   the stated events.                    *)
(* Gains, usage, losses over time and devices sharing a stock are left     *)
(* out; a list that is not given is empty.                                 *)
(***************************************************************************)
EXTENDS Integers, Sequences, FiniteSetsExt

CONSTANTS
    Problems,  \* the flex-models schedules are asked for with
    MaxSoc,    \* bound on stated states of charge
    Soc,       \* the states of charge the stock may have in a schedule
    None

Limits == 0..MaxSoc \cup {None}

Events == [start : Nat, end : Nat, value : 0..MaxSoc]

ASSUME ProblemsAssumption ==
    /\ MaxSoc \in Nat /\ Soc \subseteq Int
    /\ None \notin Int
    /\ \A p \in Problems :
          /\ p.hour \in Nat \ {0} /\ p.res \in Nat \ {0} /\ p.ticks \in Nat \ {0}
          /\ p.consumption \in Nat /\ p.production \in Nat
          /\ p.up \in Nat /\ p.down \in Nat
          /\ p.socMin \in Limits /\ p.socMax \in Limits
          /\ p.start \in 0..MaxSoc /\ p.knownAt \in Nat
          /\ p.projects \in BOOLEAN /\ p.relaxed \subseteq {"minima", "maxima"}
          /\ p.targets \in Seq(Events)
          /\ p.minima \in Seq(Events)
          /\ p.maxima \in Seq(Events)

VARIABLES
    problem,  \* the flex-model being prepared, None before a schedule is asked for
    prepared  \* what _prepare makes of it: constraint rows, or a refusal

svars == <<problem, prepared>>

-----------------------------------------------------------------------------
(* Projection onto the ticks.                                              *)

Previous(p, t) == (t \div p.res) * p.res

OnTick(p, t) == Previous(p, t) = t

\* Only used of times between two ticks.
Following(p, t) == Previous(p, t) + p.res

\* Mutant: minima between two ticks bind the tick before them only.
PolicyBefore ==
    {[field |-> "targets", bound |-> "min", tick |-> "previous"],
     [field |-> "targets", bound |-> "max", tick |-> "previous"],
     [field |-> "minima", bound |-> "min", tick |-> "previous"],
     [field |-> "maxima", bound |-> "max", tick |-> "previous"],
     [field |-> "maxima", bound |-> "max", tick |-> "next"],
     [field |-> "at_start", bound |-> "min", tick |-> "next"],
     [field |-> "at_start", bound |-> "max", tick |-> "next"]}

\* SOC_PROJECTION_POLICIES: which bound lands on which of the two ticks.
Policy ==
    {[field |-> "targets", bound |-> "min", tick |-> "previous"],
     [field |-> "targets", bound |-> "max", tick |-> "previous"],
     [field |-> "minima", bound |-> "min", tick |-> "previous"],
     [field |-> "minima", bound |-> "min", tick |-> "next"],
     [field |-> "maxima", bound |-> "max", tick |-> "previous"],
     [field |-> "maxima", bound |-> "max", tick |-> "next"],
     [field |-> "at_start", bound |-> "min", tick |-> "next"],
     [field |-> "at_start", bound |-> "max", tick |-> "next"]}

EventsOf(p, field) ==
    CASE field = "targets" -> p.targets
      [] field = "minima" -> p.minima
      [] field = "maxima" -> p.maxima

\* The point events between two ticks. The SoC at the start counts as one when it
\* was measured within the first step.
OffTick(p, field) ==
    IF field = "at_start"
    THEN {e \in {[start |-> p.knownAt, end |-> p.knownAt, value |-> p.start]} :
              0 < p.knownAt /\ p.knownAt < p.res}
    ELSE {EventsOf(p, field)[i] : i \in
              {j \in DOMAIN EventsOf(p, field) :
                  LET e == EventsOf(p, field)[j]
                  IN e.start = e.end /\ ~ OnTick(p, e.end)}}

TickOf(p, rule, e) ==
    IF rule.tick = "previous" THEN Previous(p, e.end) ELSE Following(p, e.end)

\* The part of the step between the event and the tick, as far as the capacities are
\* known: they end with the schedule, and a missing one counts as zero.
TimeToTick(p, rule, e) ==
    IF Previous(p, e.end) < p.ticks * p.res
    THEN IF rule.tick = "previous" THEN e.end - Previous(p, e.end)
                                   ELSE Following(p, e.end) - e.end
    ELSE 0

\* Mutant: charging and discharging are mixed up.
ReachableSwapped(p, rule, e) ==
    TimeToTick(p, rule, e)
    * (IF (rule.bound = "min") = (rule.tick = "previous")
       THEN p.production * p.down
       ELSE p.consumption * p.up)

\* How much stock can move between the event and the tick, in the direction that
\* helps to satisfy the event.
Reachable(p, rule, e) ==
    TimeToTick(p, rule, e)
    * (IF (rule.bound = "min") = (rule.tick = "previous")
       THEN p.consumption * p.up
       ELSE p.production * p.down)

Larger(a, b) == IF a < b THEN b ELSE a
Smaller(a, b) == IF a < b THEN a ELSE b
AtLeast(limit, v) == IF limit = None THEN v ELSE Larger(limit, v)
AtMost(limit, v) == IF limit = None THEN v ELSE Smaller(limit, v)

\* The bound an event puts on a tick, clamped to the limit on its own side only.
Loosened(p, rule, e) ==
    IF rule.bound = "min"
    THEN AtLeast(p.socMin, e.value - Reachable(p, rule, e))
    ELSE AtMost(p.socMax, e.value + Reachable(p, rule, e))

\* All bounds of one kind that land on the k-th tick.
Projected(p, bound, k) ==
    UNION {{Loosened(p, rule, e) :
                e \in {d \in OffTick(p, rule.field) : TickOf(p, rule, d) = k * p.res}} :
              rule \in {r \in Policy : p.projects /\ r.bound = bound}}

\* Targets between two ticks become exact targets on the next tick, in place.
MovedTargets(p) ==
    [i \in DOMAIN p.targets |->
        LET e == p.targets[i]
        IN IF p.projects /\ e.start = e.end /\ ~ OnTick(p, e.end)
           THEN [e EXCEPT !.start = Following(p, e.end), !.end = Following(p, e.end)]
           ELSE e]

-----------------------------------------------------------------------------
(* From lists to the value on each tick.                                   *)

Covering(p, events, k) ==
    {i \in DOMAIN events : events[i].start <= k * p.res /\ k * p.res <= events[i].end}

\* Mutant: the loosest bound.
StrictestNot(bound, values) == IF bound = "min" THEN Min(values) ELSE Max(values)

Strictest(bound, values) == IF bound = "min" THEN Max(values) ELSE Min(values)

\* _add_soc_bound merges projected bounds with each other and with the first event
\* stated for exactly that tick, keeping the stricter value; without such an event
\* the merged bound is appended to the list. build_device_soc_values then writes one
\* event after the other, so that the last one counts.
HardValue(p, bound, events, projected, k) ==
    LET covering == Covering(p, events, k)
        points == {i \in covering : events[i].start = events[i].end}
    IN IF covering = {} \/ (projected # {} /\ points = {})
       THEN IF projected = {} THEN None ELSE Strictest(bound, projected)
       ELSE LET last == Max(covering)
            IN IF projected # {} /\ last = Min(points)
               THEN Strictest(bound, projected \cup {events[last].value})
               ELSE events[last].value

\* process_time_series_segments with resolve_overlaps "max" or "min".
SoftValue(p, bound, events, projected, k) ==
    LET values == projected \cup {events[i].value : i \in Covering(p, events, k)}
    IN IF values = {} THEN None ELSE Strictest(bound, values)

\* Targets: the hard column takes the last event, the commitment the first.
TargetValue(p, k, soft) ==
    LET events == MovedTargets(p)
        covering == Covering(p, events, k)
    IN IF covering = {} THEN None
       ELSE events[IF soft THEN Min(covering) ELSE Max(covering)].value

\* A target is relaxed only if both breach prices are there.
TargetsRelaxed(p) == p.relaxed = {"minima", "maxima"}

\* pandas' clip leaves missing values missing, and swaps limits given in reverse: no
\* schema compares soc-min with soc-max.
Clip(p, v) ==
    CASE v = None -> None
      [] v # None /\ None \in {p.socMin, p.socMax} ->
            AtMost(p.socMax, AtLeast(p.socMin, v))
      [] v # None /\ None \notin {p.socMin, p.socMax} ->
            Smaller(Larger(p.socMin, p.socMax), Larger(Smaller(p.socMin, p.socMax), v))

OrElse(v, default) == IF v = None THEN default ELSE v

\* add_storage_constraints, in absolute terms; the soft columns are the commitments.
Row(p, k) ==
    LET low == Projected(p, "min", k)
        high == Projected(p, "max", k)
        hardMin == IF "minima" \in p.relaxed THEN None
                   ELSE HardValue(p, "min", p.minima, low, k)
        hardMax == IF "maxima" \in p.relaxed THEN None
                   ELSE HardValue(p, "max", p.maxima, high, k)
    IN [min |-> Clip(p, OrElse(hardMin, p.socMin)),
        max |-> Clip(p, OrElse(hardMax, p.socMax)),
        equals |-> IF TargetsRelaxed(p) THEN None ELSE TargetValue(p, k, FALSE),
        softMin |-> IF "minima" \in p.relaxed
                    THEN SoftValue(p, "min", p.minima, low, k) ELSE None,
        softMax |-> IF "maxima" \in p.relaxed
                    THEN SoftValue(p, "max", p.maxima, high, k) ELSE None,
        softTarget |-> IF TargetsRelaxed(p) THEN TargetValue(p, k, TRUE) ELSE None]

Rows(p) == [k \in 1..p.ticks |-> Row(p, k)]

-----------------------------------------------------------------------------
(* Validation. Columns hold the change since the start in units of power   *)
(* (times hour / resolution), power limits are multiplied by resolution /  *)
(* hour; below both sides are multiplied by p.res to stay with integers.   *)

Change(p, v) == IF v = None THEN None ELSE (v - p.start) * p.hour

Minus(a, b) == IF a = None \/ b = None THEN None ELSE a - b

Exceeds(a, b) == a # None /\ b # None /\ b < a

\* Mutant: the lower limit comes before both columns.
BeforeLow(p, rows, column, k) ==
    CASE k > 1 -> Change(p, rows[k - 1][column])
      [] k = 1 /\ column \in {"min", "max"} -> Change(p, p.socMin)
      [] k = 1 /\ column = "equals" -> p.start * p.res

\* Before the first row come the limits, and for the column "equals" the SoC at the
\* start itself, although that column holds changes.
Before(p, rows, column, k) ==
    CASE k > 1 -> Change(p, rows[k - 1][column])
      [] k = 1 /\ column = "min" -> Change(p, p.socMin)
      [] k = 1 /\ column = "max" -> Change(p, p.socMax)
      [] k = 1 /\ column = "equals" -> p.start * p.res

\* Each check is a pair, the first part of which must not exceed the second.
Checks(p, rows, k) ==
    LET low == Change(p, rows[k].min)
        high == Change(p, rows[k].max)
        exact == Change(p, rows[k].equals)
        most == p.consumption * p.res * p.res
        least == - (p.production * p.res * p.res)
    IN [A1 |-> <<Change(p, p.socMin), low>>,
        A2 |-> <<high, Change(p, p.socMax)>>,
        B1 |-> <<low, high>>,
        B2 |-> <<low, exact>>,
        B3 |-> <<exact, high>>,
        C1 |-> <<Minus(exact, Before(p, rows, "equals", k)), most>>,
        C2 |-> <<least, Minus(exact, Before(p, rows, "equals", k))>>,
        C3 |-> <<Minus(low, Before(p, rows, "max", k)), most>>,
        C4 |-> <<least, Minus(high, Before(p, rows, "min", k))>>,
        C5 |-> <<Minus(exact, Before(p, rows, "max", k)), most>>,
        C6 |-> <<least, Minus(exact, Before(p, rows, "min", k))>>]

Violations(p, rows) ==
    {x \in {"A1", "A2", "B1", "B2", "B3", "C1", "C2", "C3", "C4", "C5", "C6"}
           \X (1..p.ticks) :
        Exceeds(Checks(p, rows, x[2])[x[1]][1], Checks(p, rows, x[2])[x[1]][2])}

-----------------------------------------------------------------------------

SInit == problem = None /\ prepared = None

\* A schedule is asked for with some flex-model.
Trigger ==
    /\ problem = None
    /\ problem' \in Problems
    /\ UNCHANGED prepared

\* _prepare, as far as the SoC constraints of one device go: the problem goes to the
\* solver, or the request ends in a ValueError.
Prepare ==
    /\ problem # None
    /\ prepared = None
    /\ prepared' = [rows |-> Rows(problem),
                    refused |-> Violations(problem, Rows(problem)) # {}]
    /\ UNCHANGED problem

SNext == Trigger \/ Prepare

SSpec == SInit /\ [][SNext]_svars

-----------------------------------------------------------------------------
(* Properties. A schedule is judged by the stock it leads to: stock moves  *)
(* at most Rise up and Fall down per fine unit.                            *)

Rise(p) == p.consumption * p.up
Fall(p) == p.production * p.down

MovesFrom(p, a, b, duration) ==
    b - a <= duration * Rise(p) /\ a - b <= duration * Fall(p)

\* Given v, the constraints of row r hold on that tick, hard ones alone or all.
WithinHard(r, v) ==
    /\ r.min # None => r.min <= v
    /\ r.max # None => v <= r.max
    /\ r.equals # None => v = r.equals

WithinSoft(r, v) ==
    /\ r.softMin # None => r.softMin <= v
    /\ r.softMax # None => v <= r.softMax
    /\ r.softTarget # None => v = r.softTarget

WithinLimits(p, v) == AtLeast(p.socMin, v) = v /\ AtMost(p.socMax, v) = v

\* The stock s[k] on each tick k follows from powers the solver may choose, and
\* breaks no hard constraint and no limit.
Follows(p, rows, s) ==
    \A k \in 1..p.ticks :
        /\ MovesFrom(p, IF k = 1 THEN p.start ELSE s[k - 1], s[k], p.res)
        /\ WithinHard(rows[k], s[k]) /\ WithinLimits(p, s[k])

\* Where validation compares like with like: an hourly schedule, no conversion
\* between power and stock, and no hard target on the first tick unless the stock
\* starts empty.
Comparable(p, rows) ==
    /\ p.hour = p.res /\ p.up = 1 /\ p.down = 1
    /\ p.start = 0 \/ rows[1].equals = None

\* storage.py:1661 speaks of "an infeasible problem": a problem is refused only if no
\* schedule satisfies its hard constraints, although validation looks at two rows
\* at a time. The condition says where that can be relied on.
AlarmsAreReal ==
    prepared # None /\ prepared.refused /\ Comparable(problem, prepared.rows) =>
        \A s \in [1..problem.ticks -> Soc] : ~ Follows(problem, prepared.rows, s)

\* The stock f[t] at each fine time t after the start does everything the flex-model
\* asks, between ticks too.
At(p, f, t) == IF t = 0 THEN p.start ELSE f[t]

DoesAsAsked(p, f) ==
    LET times == 0..p.ticks * p.res
        during(e) == {t \in times : e.start <= t /\ t <= e.end}
    IN /\ \A t \in times : WithinLimits(p, At(p, f, t))
       /\ \A t, u \in times : t < u => MovesFrom(p, At(p, f, t), At(p, f, u), u - t)
       /\ \A t \in times : t <= p.knownAt /\ p.knownAt < p.res => At(p, f, t) = p.start
       /\ \A i \in DOMAIN p.targets : \A t \in during(p.targets[i]) :
              At(p, f, t) = p.targets[i].value
       /\ \A i \in DOMAIN p.minima : \A t \in during(p.minima[i]) :
              p.minima[i].value <= At(p, f, t)
       /\ \A i \in DOMAIN p.maxima : \A t \in during(p.maxima[i]) :
              At(p, f, t) <= p.maxima[i].value

\* An event that comes after the schedule's end, before the next tick, binds the last
\* tick as if nothing could be charged or discharged in between.
EndInside(p) ==
    \A field \in {"targets", "minima", "maxima"} :
        \A e \in OffTick(p, field) : e.end <= p.ticks * p.res

\* soc_projection.py "preserving reachability": the minima and maxima on the ticks,
\* projected ones included, rule out no schedule that does as asked.
NothingRuledOut ==
    prepared # None /\ EndInside(problem) =>
        \A f \in [1..problem.ticks * problem.res -> Soc] :
            DoesAsAsked(problem, f) =>
                \A k \in 1..problem.ticks :
                    LET r == prepared.rows[k]
                        v == f[k * problem.res]
                    IN /\ r.min # None => r.min <= v
                       /\ r.max # None => v <= r.max
                       /\ r.softMin # None => r.softMin <= v
                       /\ r.softMax # None => v <= r.softMax

Lists == {"targets", "minima", "maxima"}

Soft(p, field) ==
    IF field = "targets" THEN TargetsRelaxed(p) ELSE field \in p.relaxed

Landed(p, field) == IF field = "targets" THEN MovedTargets(p) ELSE EventsOf(p, field)

\* Two events of a list apply to the k-th tick, a projected bound counting as one
\* unless it was merged.
Overlap(p, field, k) ==
    LET covering == Covering(p, Landed(p, field), k)
        bound == IF field = "minima" THEN "min" ELSE "max"
    IN \/ \E i, j \in covering : i # j
       \/ /\ field # "targets" /\ Projected(p, bound, k) # {}
          /\ \E i \in covering : EventsOf(p, field)[i].start # EventsOf(p, field)[i].end

\* What the documentation says of events that overlap: the highest minimum, the
\* lowest maximum and the first target apply.
Resolved(p, r, field, k) ==
    LET events == Landed(p, field)
        covering == Covering(p, events, k)
    IN CASE field = "targets" ->
                covering # {} =>
                    events[Min(covering)].value \in {r.equals, r.softTarget}
         [] field = "minima" ->
                \A i \in covering : \E v \in {r.min, r.softMin} \ {None} :
                    AtMost(p.socMax, events[i].value) <= v
         [] field = "maxima" ->
                \A i \in covering : \E v \in {r.max, r.softMax} \ {None} :
                    v <= AtLeast(p.socMin, events[i].value)

\* Of overlapping minima the highest is to apply, of maxima the lowest (schemas/
\* scheduling/metadata.py:343, 356), of targets the first. So it is where the list is
\* relaxed; as a hard constraint every stated value is kept on its ticks only as long
\* as no two events apply to them, because the last one written counts.
StatedValuesKept ==
    prepared # None =>
        \A k \in 1..problem.ticks : \A field \in Lists :
            Soft(problem, field) \/ ~ Overlap(problem, field, k) =>
                Resolved(problem, prepared.rows[k], field, k)

\* The off-tick events in the k-th step, of which there are some of one list only and
\* at most one target; they are within the limits, to which the rows are clipped, and
\* not overlapped where they land.
Inside(p, field, k) ==
    {e \in OffTick(p, field) : (k - 1) * p.res < e.end /\ e.end < k * p.res}

Plain(p, k) ==
    /\ \A x, y \in Lists \cup {"at_start"} :
           Inside(p, x, k) # {} /\ Inside(p, y, k) # {} => x = y
    /\ \A d, e \in Inside(p, "targets", k) : d = e
    /\ \A field \in Lists : \A j \in {k - 1, k} \ {0} :
           Soft(p, field) \/ ~ Overlap(p, field, j)
    /\ \A i, j \in Covering(p, MovedTargets(p), k) : i = j
    /\ \A x \in Lists \cup {"at_start"} :
           \A e \in Inside(p, x, k) : WithinLimits(p, e.value)

\* Stock that passes from a to b during the k-th step can pass through what is asked
\* between the two ticks.
Between(p, k, a, b) ==
    \E g \in [(k - 1) * p.res .. k * p.res -> Soc] :
        /\ g[(k - 1) * p.res] = a /\ g[k * p.res] = b
        /\ \A t, u \in DOMAIN g : t < u => MovesFrom(p, g[t], g[u], u - t)
        /\ \A e \in Inside(p, "at_start", k) :
               \A t \in DOMAIN g : t <= e.end => g[t] = e.value
        /\ \A e \in Inside(p, "targets", k) : g[e.end] = e.value
        /\ \A e \in Inside(p, "minima", k) : e.value <= g[e.end]
        /\ \A e \in Inside(p, "maxima", k) : g[e.end] <= e.value

\* concepts/data-model.rst:119 "preserve whether the requested minimum can still be
\* reached": a schedule that keeps to the rows can be carried out so that everything
\* asked between the ticks is met at its own time. The SoC at the start is given, so
\* there the bounds projected onto it must hold of themselves.
AskedCanBeMet ==
    prepared # None /\ problem.projects =>
        \A k \in 1..problem.ticks : \A a, b \in Soc :
            /\ Plain(problem, k)
            /\ IF k = 1
               THEN /\ a = problem.start
                    /\ \A v \in Projected(problem, "min", 0) : v <= a
                    /\ \A v \in Projected(problem, "max", 0) : a <= v
               ELSE /\ WithinHard(prepared.rows[k - 1], a)
                    /\ WithinSoft(prepared.rows[k - 1], a)
            /\ WithinHard(prepared.rows[k], b)
            /\ WithinSoft(prepared.rows[k], b)
            /\ MovesFrom(problem, a, b, problem.res)
            => Between(problem, k, a, b)

=============================================================================
