------------------------------ MODULE GetOrCreate ------------------------------
(***************************************************************************)
(* get_or_create_source and get_or_create_annotation, as a request for an  *)
(* annotation calls them: look up the source of the user or script, insert *)
(* it if there is none, look up the annotation, link it, commit. Nothing   *)
(* is locked between a look-up and the insert; unique constraints take no  *)
(* notice of rows in which a column is NULL.                               *)
(*                                                                         *)
(* content stands for all that both the look-up and the constraint of      *)
(* annotations compare: content, start and type. A source's model stands   *)
(* for the optional columns of its look-up: model, version, attributes,    *)
(* account.                                                                *)
(***************************************************************************)
EXTENDS Naturals, FiniteSets

CONSTANTS
    Agents,         \* web processes and hosts, each with one database session
    Orders,         \* what clients and hosts ask for
    Null,
    MaxOrders       \* bound: orders in a behaviour

\* Whoever asks for the source of a user names nothing else: annotations.py:86,
\* sensor_data.py:519, sensors.py:895, data_add.py:1003. Null is not an id.
ASSUME OrdersAssumption ==
    /\ DOMAIN Orders # {} /\ MaxOrders \in Nat /\ Null \notin Nat
    /\ \A o \in DOMAIN Orders :
          /\ DOMAIN Orders[o] = {"user", "model", "content", "end", "prior", "on"}
          /\ Orders[o].user # Null => Orders[o].model = Null

VARIABLES
    sources,    \* data_source: user and model of each row
    notes,      \* annotation: content, end, belief time (prior) and source of each row
    links,      \* annotations_assets and so on: which annotation is on what
    agent,      \* the order each agent works on, and what it has found
    raced,      \* the rows inserted by transactions that overlapped with others
    ended,      \* how orders ended
    taken       \* the number of orders so far

gvars == <<sources, notes, links, agent, raced, ended, taken>>

Asleep == [step |-> "asleep"]

GInit ==
    /\ sources = << >> /\ notes = << >> /\ links = {}
    /\ agent = [p \in Agents |-> Asleep]
    /\ raced = {} /\ ended = {} /\ taken = 0

-----------------------------------------------------------------------------

\* Ids are drawn once, each order needs two of them at most.
SourceId(p) == 2 * agent[p].number
NoteId(p) == 2 * agent[p].number + 1

Take(p, o) ==
    /\ agent[p] = Asleep
    /\ taken < MaxOrders
    /\ taken' = taken + 1
    /\ agent' = [agent EXCEPT ![p] =
           [step |-> "source", order |-> Orders[o], number |-> taken', source |-> Null,
            newSource |-> FALSE, note |-> Null, newNote |-> FALSE, linked |-> FALSE,
            alone |-> TRUE]]
    /\ UNCHANGED <<sources, notes, links, raced, ended>>

\* An exception: the client gets a server error, and the session is rolled back. What a
\* look-up found is kept for the explanation.
Fail(p, found) ==
    /\ agent' = [agent EXCEPT ![p] = Asleep]
    /\ ended' = ended \cup {[order |-> agent[p].order, step |-> agent[p].step,
                             error |-> TRUE, alone |-> agent[p].alone, found |-> found]}
    /\ UNCHANGED <<sources, notes, links, raced, taken>>

Proceed(p, r) ==
    /\ agent' = [agent EXCEPT ![p] = r]
    /\ UNCHANGED <<sources, notes, links, raced, ended, taken>>

\* A parameter that is not given is not compared.
SourcesFor(order) ==
    {s \in DOMAIN sources : /\ sources[s].user = order.user
                            /\ order.model # Null => sources[s].model = order.model}

\* scalar_one_or_none raises when there are several.
FindSource(p) ==
    LET found == SourcesFor(agent[p].order) IN
    /\ agent[p].step = "source"
    /\ \/ found = {} /\ Proceed(p, [agent[p] EXCEPT !.step = "insert"])
       \/ \E s \in found :
             /\ found = {s}
             /\ Proceed(p, [agent[p] EXCEPT !.step = "note", !.source = s])
       \/ Cardinality(found) > 1 /\ Fail(p, found)

\* The flush. user_id is unique; another transaction that has inserted the same user is
\* waited for. The other columns are unique together with it: scripts have none.
InsertSource(p) ==
    LET user == agent[p].order.user IN
    /\ agent[p].step = "insert"
    /\ ~ \E q \in Agents \ {p} : /\ agent[q] # Asleep /\ agent[q].newSource
                                 /\ agent[q].order.user = user /\ user # Null
    /\ IF user # Null /\ \E s \in DOMAIN sources : sources[s].user = user
       THEN Fail(p, {})
       ELSE Proceed(p, [agent[p] EXCEPT !.step = "note", !.source = SourceId(p),
                                        !.newSource = TRUE])

\* Mutant: the end is not compared, as it is not unique either.
SameNoteOpen(n, order, source) ==
    /\ notes[n].content = order.content
    /\ notes[n].source = source

\* The look-up compares the end, and not the belief time.
SameNote(n, order, source) ==
    /\ notes[n].content = order.content
    /\ notes[n].end = order.end
    /\ notes[n].source = source

\* Some hosts need no more than a source.
FindNote(p) ==
    LET order == agent[p].order
        found == {n \in DOMAIN notes : SameNote(n, order, agent[p].source)} IN
    /\ agent[p].step = "note"
    /\ \/ order.content = Null /\ Proceed(p, [agent[p] EXCEPT !.step = "commit"])
       \/ /\ order.content # Null
          /\ \/ found = {} /\ Proceed(p, [agent[p] EXCEPT !.step = "link",
                                          !.note = NoteId(p), !.newNote = TRUE])
             \/ \E n \in found :
                   /\ found = {n}
                   /\ Proceed(p, [agent[p] EXCEPT !.step = "link", !.note = n])
             \/ Cardinality(found) > 1 /\ Fail(p, found)

\* "if annotation not in sensor.annotations"
FindLink(p) ==
    /\ agent[p].step = "link"
    /\ Proceed(p, [agent[p] EXCEPT !.step = "commit",
                      !.linked = <<agent[p].note, agent[p].order.on>> \in links])

\* The constraint compares the belief time, and not the end.
Conflicts(order, source) ==
    {n \in DOMAIN notes : /\ notes[n].content = order.content
                          /\ notes[n].prior = order.prior /\ order.prior # Null
                          /\ notes[n].source = source}

With(rows, id, row) ==
    [i \in DOMAIN rows \cup {id} |-> IF i \in DOMAIN rows THEN rows[i] ELSE row]

CommitOrder(p) ==
    LET r == agent[p]
        order == r.order
        link == <<r.note, order.on>>
        conflicts == IF r.newNote THEN Conflicts(order, r.source) ELSE {}
        again == r.note # Null /\ ~ r.linked /\ link \in links
        rows == (IF r.newSource THEN {r.source} ELSE {})
                \cup (IF r.newNote THEN {r.note} ELSE {}) IN
    /\ r.step = "commit"
    /\ IF conflicts # {} \/ again THEN Fail(p, conflicts)
       ELSE /\ sources' = IF r.newSource
                          THEN With(sources, r.source,
                                    [user |-> order.user, model |-> order.model])
                          ELSE sources
            /\ notes' = IF r.newNote
                        THEN With(notes, r.note,
                                  [content |-> order.content, end |-> order.end,
                                   prior |-> order.prior, source |-> r.source])
                        ELSE notes
            /\ links' = IF r.note = Null THEN links ELSE links \cup {link}
            /\ raced' = IF r.alone THEN raced ELSE raced \cup rows
            /\ ended' = ended \cup {[order |-> order, error |-> FALSE, note |-> r.note,
                                     source |-> r.source]}
            /\ agent' = [q \in Agents |->
                   IF q = p \/ agent[q] = Asleep THEN Asleep
                   ELSE [agent[q] EXCEPT !.alone = FALSE]]
            /\ UNCHANGED taken

\* A killed process.
Drop(p) ==
    /\ agent[p] # Asleep
    /\ agent' = [agent EXCEPT ![p] = Asleep]
    /\ UNCHANGED <<sources, notes, links, raced, ended, taken>>

GNext ==
    \E p \in Agents :
        \/ \E o \in DOMAIN Orders : Take(p, o)
        \/ FindSource(p) \/ InsertSource(p) \/ FindNote(p) \/ FindLink(p)
        \/ CommitOrder(p) \/ Drop(p)

GSpec == GInit /\ [][GNext]_gvars

-----------------------------------------------------------------------------

\* sensors.py:2307 "Use get_or_create to handle duplicates gracefully". An order that
\* ends well has put an annotation of just this source, content and end where it was
\* asked for. One that ends in an error has a reason: another order was committed
\* meanwhile; the look-up is ambiguous, because two orders that overlapped inserted the
\* same, or because it names no model; or only the end differs from what there is.
OrdersHonoured ==
    \A e \in ended :
        IF ~ e.error
        THEN /\ sources[e.source].user = e.order.user
             /\ e.order.model \in {Null, sources[e.source].model}
             /\ e.order.content # Null =>
                   /\ <<e.note, e.order.on>> \in links
                   /\ notes[e.note].content = e.order.content
                   /\ notes[e.note].end = e.order.end
                   /\ notes[e.note].source = e.source
        ELSE \/ ~ e.alone
             \/ e.step \in {"source", "note"} /\ e.found \cap raced # {}
             \/ e.step = "source" /\ e.order.model = Null /\ e.order.user = Null
             \/ e.step = "commit" /\ \E n \in e.found : notes[n].end # e.order.end

=============================================================================
