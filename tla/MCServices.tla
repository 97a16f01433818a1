------------------------------ MODULE MCServices ------------------------------
(***************************************************************************)
(* Seven components that share no state with each other: storage           *)
(* constraints, process scheduler, task runs, the monitor of users, assets *)
(* with their references, simultaneous scheduling, and annotations with    *)
(* their sources. A behaviour moves one of them and leaves the others at   *)
(* their start, which loses nothing: no property speaks of two of them.    *)
(***************************************************************************)
EXTENDS StorageConstraints, ProcessScheduler, TaskRuns, UserMonitor, AssetReferences,
        SimultaneousScheduling, GetOrCreate, TLC

CONSTANTS t1, t2, own, other

BothTasks == <<t1, t2>>

-----------------------------------------------------------------------------
(* Flex-models. Steps of two fine units, so that 1 and 3 lie between ticks *)
(* and 2 on one; the interval from 2 to 4 covers both ticks.               *)

Stated ==
    {[start |-> t, end |-> t, value |-> v] : t \in 1..3, v \in {1, 3}}
    \cup {[start |-> 2, end |-> 4, value |-> v] : v \in {1, 3}}

AtMostOne == {<< >>} \cup {<<e>> : e \in Stated}

AtMostTwo == AtMostOne \cup {<<d, e>> : d, e \in Stated}

Battery ==
    [hour |-> 2, res |-> 2, ticks |-> 2, consumption |-> 1, production |-> 1,
     up |-> 1, down |-> 1, socMin |-> 0, socMax |-> 3, start |-> 1, knownAt |-> 0,
     projects |-> TRUE, relaxed |-> {},
     targets |-> << >>, minima |-> << >>, maxima |-> << >>]

\* Two events of one list, hard and relaxed; one event of each list together; a
\* half-hourly schedule, one of three steps, limits that contradict each other, and an
\* event after the end.
FlexModels ==
    {[Battery EXCEPT !.minima = l, !.relaxed = r, !.start = s, !.up = u] :
        l \in AtMostTwo, r \in {{}, {"minima"}}, s \in {0, 2}, u \in {1, 2}}
    \cup {[Battery EXCEPT !.maxima = l, !.relaxed = r, !.start = s] :
        l \in AtMostTwo, r \in {{}, {"maxima"}}, s \in {0, 2}}
    \cup {[Battery EXCEPT !.targets = l, !.relaxed = r, !.start = s, !.socMax = m] :
        l \in AtMostTwo, r \in {{}, {"minima", "maxima"}}, s \in {0, 2},
        m \in {3, None}}
    \cup {[Battery EXCEPT !.targets = x, !.minima = y, !.maxima = z, !.knownAt = a] :
        x, y, z \in AtMostOne, a \in {0, 1}}
    \cup {[Battery EXCEPT !.minima = l, !.projects = FALSE] : l \in AtMostOne}
    \cup {[Battery EXCEPT !.maxima = l, !.down = 2, !.start = s, !.hour = h] :
        l \in AtMostOne, s \in {0, 2}, h \in {2, 4}}
    \cup {[Battery EXCEPT !.ticks = 3, !.minima = x, !.maxima = y, !.start = 0] :
        x, y \in AtMostOne}
    \cup {[Battery EXCEPT !.minima = x, !.maxima = y, !.socMin = 3, !.socMax = 1] :
        x, y \in AtMostOne}
    \cup {[Battery EXCEPT !.minima = <<[start |-> 5, end |-> 5, value |-> v]>>] :
        v \in {1, 3}}

-----------------------------------------------------------------------------
(* Processes: windows of four slots of two time units, durations that fill *)
(* two slots, less than three, and more than all.                          *)

SomeLoads ==
    {[length |-> 4, resolution |-> 2, duration |-> d, kind |-> k, sense |-> m,
      restricted |-> r, price |-> [s \in known |-> f[s]]] :
        d \in {4, 5, 9}, k \in {"INFLEXIBLE", "SHIFTABLE", "BREAKABLE"},
        m \in {"MIN", "MAX"}, r \in SUBSET (0..3), known \in {0..3, {0, 1, 3}, {1, 2}},
        f \in [0..3 -> {1, 2}]}

-----------------------------------------------------------------------------

(* Assets: a site with a device below it, whose flex-config refers to the  *)
(* site's sensor, to a public one and to one of another site.              *)

SomeAssets ==
    <<[parent |-> Nowhere, account |-> own, flex |-> {13}, shows |-> {2}],
      [parent |-> 1, account |-> own, flex |-> {11, 12, 14}, shows |-> {4}],
      [parent |-> Nowhere, account |-> Public, flex |-> {}, shows |-> {}],
      [parent |-> Nowhere, account |-> own, flex |-> {12}, shows |-> {}]>>

SomeHome == (11 :> 1) @@ (12 :> 3) @@ (13 :> 2) @@ (14 :> 4)

\* The first parent puts the site below its own device.
SomePatches == [flex |-> {{11}}, shows |-> {{2}}, parent |-> {2, 4}]

SomeTargets ==
    {[account |-> Nowhere, parent |-> Nowhere], [account |-> other, parent |-> Nowhere],
     [account |-> other, parent |-> 4], [account |-> Nowhere, parent |-> 2]}

-----------------------------------------------------------------------------

(* Annotations: one user, with and without a belief time and with another  *)
(* end; a script with two models, and one that names none.                 *)

Order(user, model, content, end, prior, on) ==
    [user |-> user, model |-> model, content |-> content, end |-> end,
     prior |-> prior, on |-> on]

SomeOrders ==
    <<Order(1, Null, 1, 1, Null, 1), Order(1, Null, 1, 1, 1, 1),
      Order(1, Null, 1, 2, 1, 1), Order(1, Null, 1, 1, 2, 2),
      Order(Null, 1, 1, 1, Null, 1), Order(Null, 2, 1, 1, Null, 1),
      Order(Null, Null, Null, Null, Null, Null)>>

-----------------------------------------------------------------------------

Init == SInit /\ PInit /\ TInit /\ UInit /\ AInit /\ MInit /\ GInit

Next ==
    \/ /\ PInit /\ TInit /\ UInit /\ AInit /\ MInit /\ GInit
       /\ SNext /\ UNCHANGED <<pvars, tvars, uvars, avars, mvars, gvars>>
    \/ /\ SInit /\ TInit /\ UInit /\ AInit /\ MInit /\ GInit
       /\ PNext /\ UNCHANGED <<svars, tvars, uvars, avars, mvars, gvars>>
    \/ /\ SInit /\ PInit /\ UInit /\ AInit /\ MInit /\ GInit
       /\ TNext /\ UNCHANGED <<svars, pvars, uvars, avars, mvars, gvars>>
    \/ /\ SInit /\ PInit /\ TInit /\ AInit /\ MInit /\ GInit
       /\ UNext /\ UNCHANGED <<svars, pvars, tvars, avars, mvars, gvars>>
    \/ /\ SInit /\ PInit /\ TInit /\ UInit /\ MInit /\ GInit
       /\ ANext /\ UNCHANGED <<svars, pvars, tvars, uvars, mvars, gvars>>
    \/ /\ SInit /\ PInit /\ TInit /\ UInit /\ AInit /\ GInit
       /\ MNext /\ UNCHANGED <<svars, pvars, tvars, uvars, avars, gvars>>
    \/ /\ SInit /\ PInit /\ TInit /\ UInit /\ AInit /\ MInit
       /\ GNext /\ UNCHANGED <<svars, pvars, tvars, uvars, avars, mvars>>

Spec == Init /\ [][Next]_<<svars, pvars, tvars, uvars, avars, mvars, gvars>>

\* Processes that run tasks are interchangeable, and so are users, and agents.
Symmetry == Permutations(Runners) \cup Permutations(Users) \cup Permutations(Agents)

=============================================================================
