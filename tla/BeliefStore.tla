----------------------------- MODULE BeliefStore -----------------------------
(***************************************************************************)
(* Saving beliefs about one event from one data source: the API's web      *)
(* processes, the ingestion workers and the scheduling workers all call    *)
(* save_to_db, which drops what the database already knows and inserts the *)
(* rest in one transaction.                                                *)
(*                                                                         *)
(* A writer reads the database (one query for the ex-ante part of its      *)
(* batch, one for the ex-post part, one row look-up when overwriting is    *)
(* allowed) and commits later: other writers get in between.  Belief times *)
(* are numbers, a belief is ex ante when it was formed before the event's  *)
(* knowledge time.                                                         *)
(***************************************************************************)
EXTENDS Naturals

CONSTANTS
    Writers,        \* processes that save beliefs: web, ingestion, scheduling
    Known,          \* knowledge time of the event
    Times,          \* belief times
    Probabilities,  \* cumulative probabilities of a probabilistic belief
    Values,         \* event values
    Batches,        \* data that callers save: sets of beliefs
    MaxPosts,       \* bound: batches received in a behaviour
    MaxCrashes      \* bound: writers killed in a behaviour

Beliefs == [bt : Times, cp : Probabilities, val : Values]

\* A BeliefsDataFrame holds one value per belief time and probability.
BeliefAssumption ==
    /\ Known \in Nat
    /\ Times \subseteq Nat
    /\ \A B \in Batches :
        /\ B \subseteq Beliefs
        /\ B # {}
        /\ \A b, c \in B : b.bt = c.bt /\ b.cp = c.cp => b = c
    /\ MaxPosts \in Nat
    /\ MaxCrashes \in Nat

ASSUME BeliefAssumption

VARIABLES
    db,         \* rows of timed_belief
    overwrite,  \* FLEXMEASURES_ALLOW_DATA_OVERWRITE of the server
    writer,     \* control state of each writer
    accepted,   \* every belief a caller was told is processed
    ordered,    \* accepted batches came one at a time, in belief time order,
                \* with one belief time on each side of the knowledge time
    posts,      \* number of batches received so far
    crashes     \* number of writers killed so far

vars == <<db, overwrite, writer, accepted, ordered, posts, crashes>>

Idle == [pc |-> "idle", batch |-> {}, kept |-> {}, held |-> {}, dirty |-> FALSE]

Init ==
    /\ db = {}
    /\ overwrite \in BOOLEAN
    /\ writer = [w \in Writers |-> Idle]
    /\ accepted = {}
    /\ ordered = TRUE
    /\ posts = 0
    /\ crashes = 0

-----------------------------------------------------------------------------
(* What save_to_db computes.                                               *)

SameRow(b, c) == b.bt = c.bt /\ b.cp = c.cp

SamePart(b, c) == b.cp = c.cp /\ b.val = c.val

ExAnte(B) == {b \in B : b.bt < Known}
ExPost(B) == {b \in B : b.bt >= Known}

\* horizons_at_least=0 includes the beliefs formed at the knowledge time.
AnteQuery(S) == {b \in S : b.bt <= Known}
\* Mutants of PostQuery: no horizon filter, a strict one.
PostQueryAll(S) == S
PostQueryStrict(S) == {b \in S : b.bt > Known}

PostQuery(S) == {b \in S : b.bt >= Known}

\* drop_duplicates(..., keep="first") after sort_index, row by row: of a whole
\* distribution it drops the parts that an earlier one in the batch also has.
Deduplicated(B) ==
    {b \in B : \A c \in B : SamePart(b, c) => b.bt <= c.bt}

\* Mutants of MostRecent: rows in the wrong order, an equal belief time missed.
Oldest(S, t) ==
    {b \in S : b.bt <= t /\ \A c \in S : b.bt <= c.bt}
MostRecentEarlier(S, t) ==
    {b \in S : b.bt < t /\ \A c \in S : c.bt < t => c.bt <= b.bt}

\* The beliefs in S that were the most recent ones at time t.
MostRecent(S, t) ==
    {b \in S : b.bt <= t /\ \A c \in S : c.bt <= t => c.bt <= b.bt}

IsNews(b, S, t) == ~ \E c \in MostRecent(S, t) : SamePart(b, c)

\* Mutant of Changed: only the parts that changed are kept.
ChangedParts(B, S) == {b \in B : IsNews(b, S, b.bt)}

\* A whole probabilistic belief is kept if any part of it changed.
Changed(B, S) ==
    {b \in B : \E c \in B : c.bt = b.bt /\ IsNews(c, S, b.bt)}

\* drop_unchanged_beliefs on one part, against the rows S its query returned.
Filtered(B, S) == Changed(Deduplicated(B), S)

-----------------------------------------------------------------------------
(* Writers.                                                                *)

Free(w) == writer[w].pc \in {"idle", "refused"}

\* The rows are merged one by one only if they may be overwritten.
Prepared == IF overwrite THEN "merge" ELSE "save"

FirstLook(B) == IF ExAnte(B) # {} THEN "ante" ELSE "post"

AfterAnte(B) == IF ExPost(B) # {} THEN "post" ELSE Prepared

\* A batch reaches save_to_db: a web process handles it itself, or a worker
\* takes its job from a queue.  Several workers serve a queue, so the order of
\* belief times is not the order of arrival.
Receive(w, B) ==
    /\ Free(w)
    /\ posts < MaxPosts
    /\ writer' = [writer EXCEPT ![w] = [Idle EXCEPT !.pc = FirstLook(B),
                                                    !.batch = B]]
    /\ posts' = posts + 1
    /\ UNCHANGED <<db, overwrite, accepted, ordered, crashes>>

LookAnte(w) ==
    LET B == writer[w].batch IN
    /\ writer[w].pc = "ante"
    /\ writer' = [writer EXCEPT ![w].kept = Filtered(ExAnte(B), AnteQuery(db)),
                                ![w].pc = AfterAnte(B)]
    /\ UNCHANGED <<db, overwrite, accepted, ordered, posts, crashes>>

LookPost(w) ==
    LET B == writer[w].batch IN
    /\ writer[w].pc = "post"
    /\ writer' = [writer EXCEPT ![w].kept = @ \cup Filtered(ExPost(B), PostQuery(db)),
                                ![w].pc = Prepared]
    /\ UNCHANGED <<db, overwrite, accepted, ordered, posts, crashes>>

\* session.merge looks every row up: a row it finds is updated, not inserted.
MergeRows(w) ==
    /\ writer[w].pc = "merge"
    /\ writer' = [writer EXCEPT
                    ![w].held = {b \in writer[w].kept : \E d \in db : SameRow(b, d)},
                    ![w].pc = "save"]
    /\ UNCHANGED <<db, overwrite, accepted, ordered, posts, crashes>>

\* Mutant of Violations: every row is merged, whatever the setting.
NoViolations(w) == {}

\* Rows to insert whose primary key is taken.
Violations(w) ==
    {b \in writer[w].kept \ writer[w].held : \E d \in db : SameRow(b, d)}

Saved(S, rows) == {d \in S : ~ \E b \in rows : SameRow(b, d)} \cup rows

\* Beliefs of one part are compared with each other row by row, and with the
\* database as if the batch held no other: the answers can only stay the same
\* when each part was formed at one time.
OneTime(B) ==
    /\ \A b, c \in ExAnte(B) : b.bt = c.bt
    /\ \A b, c \in ExPost(B) : b.bt = c.bt

Arrived(w) ==
    /\ ~ writer[w].dirty
    /\ OneTime(writer[w].batch)
    /\ \/ writer[w].batch \subseteq accepted
       \/ \A b \in writer[w].batch, a \in accepted : a.bt < b.bt

\* The flush found no taken key, and the transaction is committed.
Commit(w) ==
    /\ writer[w].pc = "save"
    /\ Violations(w) = {}
    /\ db' = Saved(db, writer[w].kept)
    /\ accepted' = accepted \cup writer[w].batch
    /\ ordered' = (ordered /\ Arrived(w))
    /\ writer' = [v \in Writers |->
                    IF v = w THEN Idle
                    ELSE IF Free(v) THEN writer[v]
                    ELSE [writer[v] EXCEPT !.dirty = TRUE]]
    /\ UNCHANGED <<overwrite, posts, crashes>>

\* IntegrityError: the caller is told that beliefs cannot be replaced (or the
\* job fails), and nothing is saved.
Refuse(w) ==
    /\ writer[w].pc = "save"
    /\ Violations(w) # {}
    /\ writer' = [writer EXCEPT ![w] = [Idle EXCEPT !.pc = "refused"]]
    /\ UNCHANGED <<db, overwrite, accepted, ordered, posts, crashes>>

\* A killed process leaves an open transaction, which is rolled back.
Kill(w) ==
    /\ ~ Free(w)
    /\ crashes < MaxCrashes
    /\ writer' = [writer EXCEPT ![w] = Idle]
    /\ crashes' = crashes + 1
    /\ UNCHANGED <<db, overwrite, accepted, ordered, posts>>

Next ==
    \E w \in Writers :
        \/ \E B \in Batches : Receive(w, B)
        \/ LookAnte(w)
        \/ LookPost(w)
        \/ MergeRows(w)
        \/ Commit(w)
        \/ Refuse(w)
        \/ Kill(w)

Spec == Init /\ [][Next]_vars

-----------------------------------------------------------------------------
(* Properties.                                                             *)

WriterState ==
    [pc : {"idle", "ante", "post", "merge", "save", "refused"},
     batch : SUBSET Beliefs, kept : SUBSET Beliefs, held : SUBSET Beliefs,
     dirty : BOOLEAN]

\* Types, and the primary key of timed_belief: one value per belief time and
\* probability, however the writers' look-ups and inserts interleave.
TypeOK ==
    /\ db \subseteq Beliefs
    /\ \A b, c \in db : SameRow(b, c) => b = c
    /\ overwrite \in BOOLEAN
    /\ writer \in [Writers -> WriterState]
    /\ accepted \subseteq Beliefs
    /\ ordered \in BOOLEAN
    /\ posts \in 0 .. MaxPosts
    /\ crashes \in 0 .. MaxCrashes

\* save_to_db: "Replacing beliefs is not allowed, because messing with the
\* history corrupts data lineage".  Unless overwriting is allowed, no step of
\* any writer changes or removes a belief that was saved.
HistoryKept == [][~ overwrite => db \subseteq db']_vars

Pairs(S) == {<<b.cp, b.val>> : b \in S}

\* What a query for the most recent beliefs at time t returns.
AsOf(S, t) == Pairs(MostRecent(S, t))

\* Dropping unchanged beliefs must not be noticed: while batches come one at a
\* time, in the order of their belief times, and each part of a batch was formed
\* at one time, a query as of any time, for all, only ex-ante or only ex-post
\* beliefs, returns what it would return had every accepted belief been stored.
AsOfFaithful ==
    ordered =>
        \A t \in Times :
            /\ AsOf(db, t) = AsOf(accepted, t)
            /\ AsOf(ExAnte(db), t) = AsOf(ExAnte(accepted), t)
            /\ AsOf(ExPost(db), t) = AsOf(ExPost(accepted), t)

\* drop_unchanged_beliefs is there "to prevent cluttering up your database
\* with beliefs that remain unchanged over time": under the same condition, two
\* successive ex-ante (or ex-post) beliefs always differ.
NoClutter ==
    ordered =>
        \A part \in {ExAnte(db), ExPost(db)} : \A b, c \in part :
            (b.bt < c.bt /\ ~ \E d \in part : b.bt < d.bt /\ d.bt < c.bt) =>
                AsOf(part, b.bt) # AsOf(part, c.bt)

\* Dropped from a batch as a repetition within it.
Repeated(B, c) ==
    \E d \in B : SamePart(c, d) /\ d.bt < c.bt /\ (d.bt < Known <=> c.bt < Known)

\* "Keep whole probabilistic beliefs, not just the parts that changed": when a
\* writer stores a new belief, it stores all beliefs of its batch formed at that
\* time, whatever the database held and whoever saved meanwhile.  Only those that
\* repeat an earlier belief of the same batch are missing: drop_duplicates looks
\* at single rows and does split a distribution.
WholeBeliefs ==
    [][\A w \in Writers : Commit(w) =>
            \A b, c \in writer[w].batch :
                (b \in db' \ db /\ b.bt = c.bt)
                    => c \in db' \/ Repeated(writer[w].batch, c)]_vars

\* Only some probabilities are stored of the belief formed at time t.
Partly(t) ==
    \E d \in db : d.bt = t /\ \E p \in Probabilities :
        ~ \E e \in db : e.bt = t /\ e.cp = p

Refused(w) == writer[w].pc = "save" /\ writer'[w].pc = "refused"

\* A batch is only refused as an invalid replacement if it does replace a saved
\* belief by another value, if somebody else saved something meanwhile, or if it
\* holds a distribution that was stored in part: its missing part is news, which
\* brings along the part that is already there.
RefusedForReason ==
    [][\A w \in Writers : Refused(w) =>
            \/ writer[w].dirty
            \/ \E b \in writer[w].batch, d \in db :
                    SameRow(b, d) /\ b.val # d.val
            \/ \E b \in writer[w].batch : Partly(b.bt)]_vars

\* A batch that is sent, or run by RQ, once more after it was accepted changes
\* nothing and is not refused, as long as nobody saves at the same time and the
\* batches so far came in order.
Redelivered ==
    [][\A w \in Writers :
            (/\ writer[w].pc = "save" /\ writer'[w].pc # "save"
             /\ ordered /\ ~ writer[w].dirty
             /\ writer[w].batch \subseteq accepted)
                => db' = db /\ ~ Refused(w)]_vars

=============================================================================
