-------------------------- MODULE BeliefStoreProofs --------------------------
(***************************************************************************)
(* Proofs about BeliefStore, for any number of writers, belief times and   *)
(* batches, and writers killed at any time.                                *)
(***************************************************************************)
EXTENDS BeliefStore, WellFoundedInduction, TLAPS

\* A batch holds one value per row.
Rows(B) == \A b, c \in B : SameRow(b, c) => b = c

\* The type invariant, and what a writer holds: it keeps beliefs of its batch,
\* and holds rows to update only if they may be overwritten.
TypeInv ==
    /\ TypeOK
    /\ \A w \in Writers :
        /\ Rows(writer[w].batch)
        /\ writer[w].kept \subseteq writer[w].batch
        /\ ~ overwrite => writer[w].held = {} /\ writer[w].pc # "merge"

\* For each of its belief times S holds a value for every probability.
Whole(S) ==
    \A b \in S : \A p \in Probabilities : \E c \in S : c.bt = b.bt /\ c.cp = p

\* What callers send when they send whole distributions.
BatchesWhole == \A B \in Batches : Whole(B)

\* Every writer works on whole distributions.
WholeInv == \A w \in Writers : Whole(writer[w].batch)

\* Of a batch B the writer keeps all beliefs of the same time, except repetitions.
Together(B, K) ==
    \A b, c \in B : (b \in K /\ b.bt = c.bt) => c \in K \/ Repeated(B, c)

TogetherInv == \A w \in Writers : Together(writer[w].batch, writer[w].kept)

\* As long as nobody else saved, a writer's look-ups still describe the database.
Fresh(w) ==
    /\ writer[w].pc = "post" =>
        writer[w].kept = Filtered(ExAnte(writer[w].batch), AnteQuery(db))
    /\ writer[w].pc \in {"merge", "save"} =>
        writer[w].kept = Filtered(ExAnte(writer[w].batch), AnteQuery(db))
                    \cup Filtered(ExPost(writer[w].batch), PostQuery(db))
    /\ (writer[w].pc = "save" /\ overwrite) =>
        writer[w].held = {b \in writer[w].kept : \E d \in db : SameRow(b, d)}

FreshInv ==
    \A w \in Writers :
        /\ ~ writer[w].dirty => Fresh(w)
        /\ writer[w].pc = "ante" => writer[w].kept = {}
        /\ (writer[w].pc = "post" /\ ExAnte(writer[w].batch) = {})
                => writer[w].kept = {}

-----------------------------------------------------------------------------
(* The filter.                                                             *)

\* Filtering keeps some of the beliefs it is given.
LEMMA FilteredSubset ==
  ASSUME NEW B, NEW S
  PROVE  Filtered(B, S) \subseteq B
BY DEF Filtered, Changed, Deduplicated

\* An idle writer.
LEMMA IdleState ==
  /\ Idle \in WriterState
  /\ Idle.pc = "idle" /\ Idle.batch = {} /\ Idle.kept = {} /\ Idle.held = {}
  /\ Idle.dirty = FALSE
  /\ [Idle EXCEPT !.pc = "refused"] \in WriterState
BY DEF Idle, WriterState

\* One writer's control state changes, the others' do not.
LEMMA WriterSet ==
  ASSUME writer \in [Writers -> WriterState], NEW w \in Writers,
         NEW s \in WriterState, writer' = [writer EXCEPT ![w] = s]
  PROVE  /\ writer' \in [Writers -> WriterState]
         /\ writer'[w] = s
         /\ \A v \in Writers \ {w} : writer'[v] = writer[v]
OBVIOUS

-----------------------------------------------------------------------------
(* Types.                                                                  *)

\* The type invariant holds initially.
LEMMA TypeInit == Init => TypeInv
<1>1. Init => ordered \in BOOLEAN /\ overwrite \in BOOLEAN
  BY DEF Init
<1>2. Init => posts \in 0 .. MaxPosts /\ crashes \in 0 .. MaxCrashes
  BY BeliefAssumption DEF Init, BeliefAssumption
<1>3. Init => /\ writer \in [Writers -> WriterState]
              /\ \A w \in Writers : writer[w] = Idle
  BY IdleState DEF Init
<1> QED
  BY <1>1, <1>2, <1>3, IdleState DEF Init, TypeInv, TypeOK, Rows

\* A commit inserts rows whose key is free and updates the others.
LEMMA CommitRows ==
  ASSUME TypeInv, NEW w \in Writers, Commit(w)
  PROVE  /\ db' \subseteq Beliefs
         /\ \A b, c \in db' : SameRow(b, c) => b = c
         /\ ~ overwrite => db \subseteq db'
<1>1. writer[w].kept \subseteq Beliefs /\ Rows(writer[w].kept)
  BY DEF TypeInv, TypeOK, WriterState, Rows
<1>2. db' = Saved(db, writer[w].kept)
  BY DEF Commit
<1>3. db' \subseteq Beliefs
  BY <1>1, <1>2 DEF TypeInv, TypeOK, Saved
<1>4. \A b, c \in db' : SameRow(b, c) => b = c
  BY <1>1, <1>2 DEF TypeInv, TypeOK, Saved, Rows, SameRow
<1>5. ASSUME ~ overwrite PROVE db \subseteq db'
  <2>1. \A b \in writer[w].kept : ~ \E d \in db : SameRow(b, d)
    BY <1>5 DEF Commit, Violations, TypeInv
  <2> QED
    BY <1>2, <2>1 DEF Saved, SameRow
<1> QED
  BY <1>3, <1>4, <1>5

\* A commit frees the writer; those who work learn that somebody else saved.
LEMMA CommitWriters ==
  ASSUME TypeInv, NEW w \in Writers, Commit(w)
  PROVE  \A v \in Writers :
            \/ writer'[v] = Idle
            \/ writer'[v].batch = writer[v].batch /\ writer'[v].kept = writer[v].kept
<1> TAKE v \in Writers
<1>1. writer[v] \in WriterState
  BY DEF TypeInv, TypeOK
<1>2. writer'[v] = IF v = w THEN Idle ELSE IF Free(v) THEN writer[v]
                   ELSE [writer[v] EXCEPT !.dirty = TRUE]
  BY DEF Commit
<1> QED
  BY <1>1, <1>2 DEF WriterState

\* Every step keeps the type invariant.
LEMMA TypeNext == TypeInv /\ [Next]_vars => TypeInv'
<1> SUFFICES ASSUME TypeInv, [Next]_vars PROVE TypeInv'
  OBVIOUS
<1> USE BeliefAssumption
<1>1. ASSUME NEW w \in Writers, NEW B \in Batches, Receive(w, B) PROVE TypeInv'
  <2> DEFINE s == [Idle EXCEPT !.pc = FirstLook(B), !.batch = B]
  <2>1. s \in WriterState /\ s.batch = B /\ s.kept = {} /\ s.held = {}
        /\ s.pc \in {"ante", "post"}
    BY DEF Idle, WriterState, FirstLook, BeliefAssumption
  <2>2. writer' = [writer EXCEPT ![w] = s]
    BY <1>1 DEF Receive
  <2>3. Rows(B)
    BY DEF BeliefAssumption, Rows, SameRow
  <2>4. /\ writer' \in [Writers -> WriterState] /\ writer'[w] = s
        /\ \A v \in Writers \ {w} : writer'[v] = writer[v]
    BY <2>1, <2>2, WriterSet DEF TypeInv, TypeOK
  <2>5. posts' \in 0 .. MaxPosts
    BY <1>1 DEF Receive, TypeInv, TypeOK, BeliefAssumption
  <2> QED
    BY <1>1, <2>1, <2>3, <2>4, <2>5 DEF Receive, TypeInv, TypeOK, Rows, SameRow
<1>2. ASSUME NEW w \in Writers, LookAnte(w) PROVE TypeInv'
  <2> DEFINE B == writer[w].batch
             k == Filtered(ExAnte(B), AnteQuery(db))
             s == [writer[w] EXCEPT !.kept = k, !.pc = AfterAnte(B)]
  <2>1. k \subseteq B
    BY FilteredSubset DEF ExAnte
  <2>2. writer[w] \in WriterState
    BY DEF TypeInv, TypeOK
  <2>3. AfterAnte(B) \in {"post", "merge", "save"}
        /\ (~ overwrite => AfterAnte(B) # "merge")
    BY DEF AfterAnte, Prepared
  <2>4. s \in WriterState /\ s.batch = B /\ s.kept = k
        /\ s.held = writer[w].held /\ s.pc = AfterAnte(B)
    BY <2>1, <2>2, <2>3 DEF WriterState
  <2>5. writer' = [writer EXCEPT ![w] = s]
    BY <1>2, <2>2 DEF LookAnte, TypeInv, TypeOK, WriterState
  <2>6. /\ writer' \in [Writers -> WriterState] /\ writer'[w] = s
        /\ \A v \in Writers \ {w} : writer'[v] = writer[v]
    BY <2>4, <2>5, WriterSet DEF TypeInv, TypeOK
  <2> QED
    BY <1>2, <2>1, <2>3, <2>4, <2>6 DEF LookAnte, TypeInv, TypeOK, Rows, SameRow
<1>3. ASSUME NEW w \in Writers, LookPost(w) PROVE TypeInv'
  <2> DEFINE B == writer[w].batch
             k == writer[w].kept \cup Filtered(ExPost(B), PostQuery(db))
             s == [writer[w] EXCEPT !.kept = k, !.pc = Prepared]
  <2>1. k \subseteq B
    BY FilteredSubset DEF ExPost, TypeInv
  <2>2. writer[w] \in WriterState
    BY DEF TypeInv, TypeOK
  <2>3. Prepared \in {"merge", "save"} /\ (~ overwrite => Prepared # "merge")
    BY DEF Prepared
  <2>4. s \in WriterState /\ s.batch = B /\ s.kept = k
        /\ s.held = writer[w].held /\ s.pc = Prepared
    BY <2>1, <2>2, <2>3 DEF WriterState
  <2>5. writer' = [writer EXCEPT ![w] = s]
    BY <1>3, <2>2 DEF LookPost, TypeInv, TypeOK, WriterState
  <2>6. /\ writer' \in [Writers -> WriterState] /\ writer'[w] = s
        /\ \A v \in Writers \ {w} : writer'[v] = writer[v]
    BY <2>4, <2>5, WriterSet DEF TypeInv, TypeOK
  <2> QED
    BY <1>3, <2>1, <2>3, <2>4, <2>6 DEF LookPost, TypeInv, TypeOK, Rows, SameRow
<1>4. ASSUME NEW w \in Writers, MergeRows(w) PROVE TypeInv'
  <2> DEFINE h == {b \in writer[w].kept : \E d \in db : SameRow(b, d)}
             s == [writer[w] EXCEPT !.held = h, !.pc = "save"]
  <2>1. writer[w] \in WriterState /\ overwrite
    BY <1>4 DEF MergeRows, TypeInv, TypeOK
  <2>2. s \in WriterState /\ s.batch = writer[w].batch /\ s.kept = writer[w].kept
    BY <2>1 DEF WriterState
  <2>3. writer' = [writer EXCEPT ![w] = s]
    BY <1>4, <2>1 DEF MergeRows, TypeInv, TypeOK, WriterState
  <2>4. /\ writer' \in [Writers -> WriterState] /\ writer'[w] = s
        /\ \A v \in Writers \ {w} : writer'[v] = writer[v]
    BY <2>2, <2>3, WriterSet DEF TypeInv, TypeOK
  <2> QED
    BY <1>4, <2>1, <2>2, <2>4 DEF MergeRows, TypeInv, TypeOK, Rows, SameRow
<1>5. ASSUME NEW w \in Writers, Commit(w) PROVE TypeInv'
  <2>1. \A v \in Writers :
          /\ writer'[v] \in WriterState
          /\ \/ writer'[v] = Idle
             \/ /\ writer'[v].pc = writer[v].pc /\ writer'[v].batch = writer[v].batch
                /\ writer'[v].kept = writer[v].kept /\ writer'[v].held = writer[v].held
    <3> TAKE v \in Writers
    <3>1. writer[v] \in WriterState
      BY DEF TypeInv, TypeOK
    <3>2. writer'[v] = IF v = w THEN Idle ELSE IF Free(v) THEN writer[v]
                       ELSE [writer[v] EXCEPT !.dirty = TRUE]
      BY <1>5 DEF Commit
    <3> QED
      BY ZenonT(30), <3>1, <3>2, IdleState DEF WriterState
  <2>2. writer' \in [Writers -> WriterState]
    BY <1>5, <2>1 DEF Commit
  <2>3. accepted' \subseteq Beliefs /\ ordered' \in BOOLEAN
    <3>1. writer[w].batch \subseteq Beliefs
      BY DEF TypeInv, TypeOK, WriterState
    <3>2. (ordered /\ Arrived(w)) \in BOOLEAN
      OBVIOUS
    <3> QED
      BY <1>5, <3>1, <3>2 DEF Commit, TypeInv, TypeOK
  <2> QED
    BY <1>5, <2>1, <2>2, <2>3, CommitRows, IdleState
    DEF Commit, TypeInv, TypeOK, Rows, SameRow
<1>6. ASSUME NEW w \in Writers, Refuse(w) PROVE TypeInv'
  <2>1. /\ writer' \in [Writers -> WriterState]
        /\ writer'[w] = [Idle EXCEPT !.pc = "refused"]
        /\ \A v \in Writers \ {w} : writer'[v] = writer[v]
    BY <1>6, IdleState, WriterSet DEF Refuse, TypeInv, TypeOK
  <2> QED
    BY <1>6, <2>1 DEF Refuse, Idle, TypeInv, TypeOK, Rows, SameRow
<1>7. ASSUME NEW w \in Writers, Kill(w) PROVE TypeInv'
  <2>1. /\ writer' \in [Writers -> WriterState] /\ writer'[w] = Idle
        /\ \A v \in Writers \ {w} : writer'[v] = writer[v]
    BY <1>7, IdleState, WriterSet DEF Kill, TypeInv, TypeOK
  <2>2. crashes' \in 0 .. MaxCrashes
    BY <1>7 DEF Kill, TypeInv, TypeOK, BeliefAssumption
  <2> QED
    BY <1>7, <2>1, <2>2 DEF Kill, Idle, TypeInv, TypeOK, Rows, SameRow
<1>8. CASE UNCHANGED vars
  BY <1>8 DEF vars, TypeInv, TypeOK, Rows, SameRow
<1> QED
  BY <1>1, <1>2, <1>3, <1>4, <1>5, <1>6, <1>7, <1>8 DEF Next

\* The type invariant holds in every behaviour of the writers.
THEOREM Typing == Spec => []TypeInv
BY TypeInit, TypeNext, PTL DEF Spec

\* TypeOK: the primary key of timed_belief holds, whatever is overwritten.
THEOREM TypeCorrect == Spec => []TypeOK
BY Typing, PTL DEF TypeInv

\* HistoryKept: a server that does not allow overwriting never changes or
\* removes a saved belief.
THEOREM HistoryIsKept == Spec => HistoryKept
<1>1. TypeInv /\ [Next]_vars => [~ overwrite => db \subseteq db']_vars
  <2> SUFFICES ASSUME TypeInv, [Next]_vars, ~ overwrite PROVE db \subseteq db'
    OBVIOUS
  <2>1. CASE \E w \in Writers : Commit(w)
    BY <2>1, CommitRows
  <2>2. CASE UNCHANGED db
    BY <2>2
  <2> QED
    BY <2>1, <2>2 DEF Next, Receive, LookAnte, LookPost, MergeRows, Refuse, Kill, vars
<1> QED
  BY <1>1, Typing, PTL DEF Spec, HistoryKept

-----------------------------------------------------------------------------
(* Whole distributions.                                                    *)

\* The filter drops a repetition, or everything of its time.
LEMMA FilteredTogether ==
  ASSUME NEW B, NEW P, P \subseteq B, B \subseteq Beliefs, NEW S,
         \A d \in P, c \in P : d.bt < Known <=> c.bt < Known
  PROVE  \A b, c \in P : (b \in Filtered(P, S) /\ b.bt = c.bt)
            => c \in Filtered(P, S) \/ Repeated(B, c)
<1> SUFFICES ASSUME NEW b \in P, NEW c \in P, b \in Filtered(P, S), b.bt = c.bt,
                    c \notin Filtered(P, S)
             PROVE  Repeated(B, c)
  OBVIOUS
<1>1. c \notin Deduplicated(P)
  BY DEF Filtered, Changed
<1>2. PICK d \in P : SamePart(c, d) /\ ~ (c.bt <= d.bt)
  BY <1>1 DEF Deduplicated
<1>3. c.bt \in Nat /\ d.bt \in Nat
  BY ZenonT(30), BeliefAssumption DEF BeliefAssumption, Beliefs
<1> QED
  BY <1>2, <1>3 DEF Repeated

\* Both parts of a batch, filtered one after the other.
LEMMA PartTogether ==
  ASSUME NEW B, B \subseteq Beliefs, NEW S, NEW P \in {ExAnte(B), ExPost(B)}
  PROVE  \A b, c \in B : (b \in Filtered(P, S) /\ b.bt = c.bt)
            => c \in Filtered(P, S) \/ Repeated(B, c)
<1>1. \A b \in B : b.bt \in Nat /\ Known \in Nat
  BY BeliefAssumption DEF BeliefAssumption, Beliefs
<1>2. P \subseteq B /\ \A d \in P, c \in P : d.bt < Known <=> c.bt < Known
  BY <1>1 DEF ExAnte, ExPost
<1>3. \A b \in P, c \in B : b.bt = c.bt => c \in P
  BY <1>1 DEF ExAnte, ExPost
<1>4. Filtered(P, S) \subseteq P
  BY FilteredSubset
<1>5. \A b, c \in P : (b \in Filtered(P, S) /\ b.bt = c.bt)
         => c \in Filtered(P, S) \/ Repeated(B, c)
  BY <1>2, FilteredTogether
<1> QED
  BY <1>3, <1>4, <1>5

\* Initially nothing is kept.
LEMMA TogetherInit == Init => TogetherInv
BY IdleState DEF Init, TogetherInv, Together

\* Every step keeps the beliefs of one time together.
LEMMA TogetherNext == TypeInv /\ TogetherInv /\ [Next]_vars => TogetherInv'
<1> SUFFICES ASSUME TypeInv, TogetherInv, [Next]_vars PROVE TogetherInv'
  OBVIOUS
<1>a. ASSUME NEW w \in Writers, NEW s \in WriterState,
             writer' = [writer EXCEPT ![w] = s], Together(s.batch, s.kept)
      PROVE  TogetherInv'
  <2>1. \A v \in Writers : writer'[v] = s \/ writer'[v] = writer[v]
    BY <1>a, WriterSet DEF TypeInv, TypeOK
  <2> QED
    BY <1>a, <2>1 DEF TogetherInv, Together
<1>b. \A B : Together(B, {})
  BY DEF Together
<1>1. ASSUME NEW w \in Writers, NEW B \in Batches, Receive(w, B) PROVE TogetherInv'
  <2> DEFINE s == [Idle EXCEPT !.pc = FirstLook(B), !.batch = B]
  <2>1. s \in WriterState /\ s.batch = B /\ s.kept = {}
    BY BeliefAssumption DEF Idle, WriterState, FirstLook, BeliefAssumption
  <2>2. writer' = [writer EXCEPT ![w] = s]
    BY <1>1 DEF Receive
  <2> QED
    BY <1>a, <1>b, <2>1, <2>2
<1>2. ASSUME NEW w \in Writers, LookAnte(w) PROVE TogetherInv'
  <2> DEFINE B == writer[w].batch
             k == Filtered(ExAnte(B), AnteQuery(db))
             s == [writer[w] EXCEPT !.kept = k, !.pc = AfterAnte(B)]
  <2>1. writer[w] \in WriterState /\ B \subseteq Beliefs
    BY DEF TypeInv, TypeOK, WriterState
  <2>2. k \subseteq B
    BY FilteredSubset DEF ExAnte
  <2>3. s \in WriterState /\ s.batch = B /\ s.kept = k
    BY <2>1, <2>2 DEF WriterState, AfterAnte, Prepared
  <2>4. Together(B, k)
    BY <2>1, PartTogether DEF Together
  <2>5. writer' = [writer EXCEPT ![w] = s]
    BY <1>2, <2>1 DEF LookAnte, TypeInv, TypeOK, WriterState
  <2> QED
    BY <1>a, <2>3, <2>4, <2>5
<1>3. ASSUME NEW w \in Writers, LookPost(w) PROVE TogetherInv'
  <2> DEFINE B == writer[w].batch
             f == Filtered(ExPost(B), PostQuery(db))
             k == writer[w].kept \cup f
             s == [writer[w] EXCEPT !.kept = k, !.pc = Prepared]
  <2>1. writer[w] \in WriterState /\ B \subseteq Beliefs
    BY DEF TypeInv, TypeOK, WriterState
  <2>2. k \subseteq B
    BY FilteredSubset DEF ExPost, TypeInv
  <2>3. s \in WriterState /\ s.batch = B /\ s.kept = k
    BY <2>1, <2>2 DEF WriterState, Prepared
  <2>4. Together(B, writer[w].kept) /\ Together(B, f)
    BY <2>1, PartTogether DEF Together, TogetherInv
  <2>5. Together(B, k)
    <3> HIDE DEF f
    <3> QED
      BY <2>4 DEF Together
  <2>6. writer' = [writer EXCEPT ![w] = s]
    BY <1>3, <2>1 DEF LookPost, TypeInv, TypeOK, WriterState
  <2> QED
    BY <1>a, <2>3, <2>5, <2>6
<1>4. ASSUME NEW w \in Writers, MergeRows(w) PROVE TogetherInv'
  <2> DEFINE h == {b \in writer[w].kept : \E d \in db : SameRow(b, d)}
             s == [writer[w] EXCEPT !.held = h, !.pc = "save"]
  <2>1. writer[w] \in WriterState
    BY DEF TypeInv, TypeOK
  <2>2. s \in WriterState /\ s.batch = writer[w].batch /\ s.kept = writer[w].kept
    BY <2>1 DEF WriterState
  <2>3. writer' = [writer EXCEPT ![w] = s]
    BY <1>4, <2>1 DEF MergeRows, TypeInv, TypeOK, WriterState
  <2> QED
    BY <1>a, <2>2, <2>3 DEF TogetherInv
<1>5. ASSUME NEW w \in Writers, Commit(w) PROVE TogetherInv'
  <2>1. \A v \in Writers :
          \/ writer'[v] = Idle
          \/ writer'[v].batch = writer[v].batch /\ writer'[v].kept = writer[v].kept
    BY <1>5, CommitWriters
  <2> QED
    BY <2>1, <1>b, IdleState DEF TogetherInv, Together
<1>6. ASSUME NEW w \in Writers, Refuse(w) PROVE TogetherInv'
  BY <1>6, <1>a, <1>b, IdleState DEF Refuse, Idle
<1>7. ASSUME NEW w \in Writers, Kill(w) PROVE TogetherInv'
  BY <1>7, <1>a, <1>b, IdleState DEF Kill
<1>8. CASE UNCHANGED vars
  BY <1>8 DEF vars, TogetherInv, Together
<1> QED
  BY <1>1, <1>2, <1>3, <1>4, <1>5, <1>6, <1>7, <1>8 DEF Next

\* WholeBeliefs: whatever callers send and whoever saves meanwhile, of the beliefs a
\* batch holds for one time all are stored or none, repetitions in the batch aside.
THEOREM StoredTogether == Spec => WholeBeliefs
<1> DEFINE Kept(w) ==
             Commit(w) => \A b, c \in writer[w].batch :
                (b \in db' \ db /\ b.bt = c.bt)
                    => c \in db' \/ Repeated(writer[w].batch, c)
<1>1. ASSUME TypeInv, TogetherInv, NEW w \in Writers PROVE Kept(w)
  <2> SUFFICES ASSUME Commit(w), NEW b \in writer[w].batch, NEW c \in writer[w].batch,
                      b \in db' \ db, b.bt = c.bt
               PROVE  c \in db' \/ Repeated(writer[w].batch, c)
    OBVIOUS
  <2>1. db' = Saved(db, writer[w].kept)
    BY DEF Commit
  <2>2. b \in writer[w].kept /\ (c \in writer[w].kept => c \in db')
    BY <2>1 DEF Saved
  <2> QED
    BY <1>1, <2>2 DEF TogetherInv, Together
<1>2. TypeInv /\ TogetherInv /\ [Next]_vars => [\A w \in Writers : Kept(w)]_vars
  BY <1>1
<1>3. WholeBeliefs <=> [][\A w \in Writers : Kept(w)]_vars
  BY DEF WholeBeliefs
<1> HIDE DEF Kept
<1> QED
  BY <1>2, <1>3, TogetherInit, TogetherNext, Typing, PTL DEF Spec

\* Initially nobody works.
LEMMA WholeInit == Init => WholeInv
BY IdleState DEF Init, WholeInv, Whole

\* Every writer keeps the batch it received.
LEMMA WholeNext ==
  ASSUME BatchesWhole
  PROVE  TypeInv /\ WholeInv /\ [Next]_vars => WholeInv'
<1> SUFFICES ASSUME TypeInv, WholeInv, [Next]_vars PROVE WholeInv'
  OBVIOUS
<1>1. ASSUME NEW v \in Writers
      PROVE  \/ writer'[v].batch \in Batches
             \/ writer'[v].batch = {}
             \/ writer'[v].batch = writer[v].batch
  <2>1. /\ writer \in [Writers -> WriterState] /\ writer[v] \in WriterState
        /\ \A w \in Writers : writer[w] \in WriterState
    BY DEF TypeInv, TypeOK
  <2>2. CASE UNCHANGED vars
    BY <2>2 DEF vars
  <2>3. ASSUME NEW w \in Writers, Commit(w)
        PROVE  writer'[v] = Idle \/ writer'[v].batch = writer[v].batch
    BY <2>3, CommitWriters
  <2>4. ASSUME NEW w \in Writers, NEW B \in Batches, Receive(w, B)
        PROVE  writer'[v].batch = B \/ writer'[v].batch = writer[v].batch
    BY <2>1, <2>4 DEF Receive, Idle
  <2>5. ASSUME NEW w \in Writers, LookAnte(w) \/ LookPost(w) \/ MergeRows(w)
        PROVE  writer'[v].batch = writer[v].batch
    BY <2>1, <2>5 DEF LookAnte, LookPost, MergeRows, WriterState
  <2>6. ASSUME NEW w \in Writers, Refuse(w) \/ Kill(w)
        PROVE  writer'[v].batch = {} \/ writer'[v].batch = writer[v].batch
    BY <2>1, <2>6 DEF Refuse, Kill, Idle
  <2> QED
    BY <2>2, <2>3, <2>4, <2>5, <2>6, IdleState DEF Next
<1>2. Whole({})
  BY DEF Whole
<1> QED
  BY <1>1, <1>2 DEF WholeInv, BatchesWhole, Whole

-----------------------------------------------------------------------------
(* Refusals.                                                               *)

\* Initially nobody has looked anything up.
LEMMA FreshInit == Init => FreshInv
BY IdleState DEF Init, FreshInv, Fresh

\* A writer's look-ups stay valid until somebody else commits.
LEMMA FreshNext == TypeInv /\ FreshInv /\ [Next]_vars => FreshInv'
<1> SUFFICES ASSUME TypeInv, FreshInv, [Next]_vars PROVE FreshInv'
  OBVIOUS
<1> DEFINE FreshWriter(w) ==
             /\ ~ writer[w].dirty => Fresh(w)
             /\ writer[w].pc = "ante" => writer[w].kept = {}
             /\ (writer[w].pc = "post" /\ ExAnte(writer[w].batch) = {})
                    => writer[w].kept = {}
<1>a. ASSUME NEW w \in Writers, NEW s \in WriterState, UNCHANGED <<db, overwrite>>,
             writer' = [writer EXCEPT ![w] = s], FreshWriter(w)'
      PROVE  FreshInv'
  <2>1. \A v \in Writers \ {w} : FreshWriter(v)'
    BY <1>a, WriterSet DEF TypeInv, TypeOK, FreshInv, Fresh, Filtered, Changed,
       Deduplicated, IsNews, MostRecent, AnteQuery, PostQuery, ExAnte, ExPost
  <2> QED
    BY <1>a, <2>1 DEF FreshInv
<1>1. ASSUME NEW w \in Writers, NEW B \in Batches, Receive(w, B) PROVE FreshInv'
  <2> DEFINE s == [Idle EXCEPT !.pc = FirstLook(B), !.batch = B]
  <2>1. s \in WriterState /\ s.batch = B /\ s.kept = {} /\ s.pc \in {"ante", "post"}
        /\ (s.pc = "post" => ExAnte(B) = {})
    BY BeliefAssumption DEF Idle, WriterState, FirstLook, BeliefAssumption
  <2>2. writer' = [writer EXCEPT ![w] = s] /\ UNCHANGED <<db, overwrite>>
    BY <1>1 DEF Receive
  <2>3. writer'[w] = s
    BY <2>1, <2>2, WriterSet DEF TypeInv, TypeOK
  <2>4. Filtered({}, AnteQuery(db')) = {}
    BY FilteredSubset
  <2>5. FreshWriter(w)'
    BY <2>1, <2>3, <2>4 DEF Fresh, AnteQuery
  <2> QED
    BY <1>a, <2>1, <2>2, <2>5
<1>2. ASSUME NEW w \in Writers, LookAnte(w) PROVE FreshInv'
  <2> DEFINE B == writer[w].batch
             k == Filtered(ExAnte(B), AnteQuery(db))
             s == [writer[w] EXCEPT !.kept = k, !.pc = AfterAnte(B)]
  <2>1. writer[w] \in WriterState /\ k \subseteq B
    BY FilteredSubset DEF TypeInv, TypeOK, ExAnte
  <2>2. s \in WriterState /\ s.batch = B /\ s.kept = k /\ s.pc = AfterAnte(B)
    BY <2>1 DEF WriterState, AfterAnte, Prepared
  <2>3. writer' = [writer EXCEPT ![w] = s] /\ UNCHANGED <<db, overwrite>>
    BY <1>2, <2>1 DEF LookAnte, TypeInv, TypeOK, WriterState
  <2>4. writer'[w] = s
    BY <2>2, <2>3, WriterSet DEF TypeInv, TypeOK
  <2>5. k = Filtered(ExAnte(B), AnteQuery(db'))
    BY <2>3
  <2>6. CASE ExPost(B) # {}
    <3>1. s.pc = "post"
      BY <2>2, <2>6 DEF AfterAnte
    <3>2. ExAnte(B) = {} => k = {}
      BY FilteredSubset
    <3>3. FreshWriter(w)'
      BY <2>2, <2>4, <2>5, <3>1, <3>2 DEF Fresh
    <3> QED
      BY <1>a, <2>2, <2>3, <3>3
  <2>7. CASE ExPost(B) = {}
    <3>1. Filtered(ExPost(B), PostQuery(db')) = {}
      BY <2>7, FilteredSubset
    <3>2. s.pc = Prepared /\ s.pc \in {"merge", "save"} /\ (s.pc = "save" => ~ overwrite)
      BY <2>2, <2>7 DEF AfterAnte, Prepared
    <3>3. FreshWriter(w)'
      BY <2>2, <2>3, <2>4, <2>5, <3>1, <3>2 DEF Fresh
    <3> QED
      BY <1>a, <2>2, <2>3, <3>3
  <2> QED
    BY <2>6, <2>7
<1>3. ASSUME NEW w \in Writers, LookPost(w) PROVE FreshInv'
  <2> DEFINE B == writer[w].batch
             f == Filtered(ExPost(B), PostQuery(db))
             k == writer[w].kept \cup f
             s == [writer[w] EXCEPT !.kept = k, !.pc = Prepared]
  <2>1. writer[w] \in WriterState /\ k \subseteq B
    BY FilteredSubset DEF TypeInv, TypeOK, ExPost
  <2>2. s \in WriterState /\ s.batch = B /\ s.kept = k /\ s.pc = Prepared
        /\ s.dirty = writer[w].dirty
    BY <2>1 DEF WriterState, Prepared
  <2>3. writer' = [writer EXCEPT ![w] = s] /\ UNCHANGED <<db, overwrite>>
    BY <1>3, <2>1 DEF LookPost, TypeInv, TypeOK, WriterState
  <2>4. writer'[w] = s
    BY <2>2, <2>3, WriterSet DEF TypeInv, TypeOK
  <2>5. s.pc \in {"merge", "save"} /\ (s.pc = "save" => ~ overwrite)
    BY <2>2 DEF Prepared
  <2>6. ~ writer[w].dirty => writer[w].kept = Filtered(ExAnte(B), AnteQuery(db))
    BY <1>3 DEF LookPost, FreshInv, Fresh
  <2>7. f = Filtered(ExPost(B), PostQuery(db'))
        /\ Filtered(ExAnte(B), AnteQuery(db)) = Filtered(ExAnte(B), AnteQuery(db'))
    BY <2>3
  <2>8. FreshWriter(w)'
    BY <2>2, <2>3, <2>4, <2>5, <2>6, <2>7 DEF Fresh
  <2> QED
    BY <1>a, <2>2, <2>3, <2>8
<1>4. ASSUME NEW w \in Writers, MergeRows(w) PROVE FreshInv'
  <2> DEFINE B == writer[w].batch
             h == {b \in writer[w].kept : \E d \in db : SameRow(b, d)}
             s == [writer[w] EXCEPT !.held = h, !.pc = "save"]
  <2>1. writer[w] \in WriterState
    BY DEF TypeInv, TypeOK
  <2>2. s \in WriterState /\ s.batch = B /\ s.kept = writer[w].kept /\ s.pc = "save"
        /\ s.held = h /\ s.dirty = writer[w].dirty
    BY <2>1 DEF WriterState
  <2>3. writer' = [writer EXCEPT ![w] = s] /\ UNCHANGED <<db, overwrite>>
    BY <1>4, <2>1 DEF MergeRows, TypeInv, TypeOK, WriterState
  <2>4. writer'[w] = s
    BY <2>2, <2>3, WriterSet DEF TypeInv, TypeOK
  <2>5. ~ writer[w].dirty => writer[w].kept = Filtered(ExAnte(B), AnteQuery(db'))
                                 \cup Filtered(ExPost(B), PostQuery(db'))
    BY <1>4, <2>3 DEF MergeRows, FreshInv, Fresh
  <2>6. h = {b \in writer[w].kept : \E d \in db' : SameRow(b, d)}
    BY <2>3
  <2>7. FreshWriter(w)'
    BY <2>2, <2>3, <2>4, <2>5, <2>6 DEF Fresh
  <2> QED
    BY <1>a, <2>2, <2>3, <2>7
<1>5. ASSUME NEW w \in Writers, Commit(w) PROVE FreshInv'
  <2> SUFFICES ASSUME NEW v \in Writers PROVE FreshWriter(v)'
    BY DEF FreshInv
  <2>1. writer[v] \in WriterState
    BY DEF TypeInv, TypeOK
  <2>2. writer'[v] = IF v = w THEN Idle ELSE IF Free(v) THEN writer[v]
                     ELSE [writer[v] EXCEPT !.dirty = TRUE]
    BY <1>5 DEF Commit
  <2>3. CASE writer'[v].pc \in {"idle", "refused"}
    BY <2>3 DEF Fresh
  <2>4. CASE writer'[v].pc \notin {"idle", "refused"}
    <3>1. writer'[v] = [writer[v] EXCEPT !.dirty = TRUE]
      BY <2>2, <2>4, IdleState DEF Free
    <3>2. /\ writer'[v].dirty /\ writer'[v].pc = writer[v].pc
          /\ writer'[v].kept = writer[v].kept /\ writer'[v].batch = writer[v].batch
      BY <2>1, <3>1 DEF WriterState
    <3> QED
      BY <3>2 DEF FreshInv
  <2> QED
    BY <2>3, <2>4
<1>6. ASSUME NEW w \in Writers, Refuse(w) PROVE FreshInv'
  <2>1. writer' = [writer EXCEPT ![w] = [Idle EXCEPT !.pc = "refused"]]
        /\ UNCHANGED <<db, overwrite>>
    BY <1>6 DEF Refuse
  <2>2. writer'[w].pc = "refused"
    BY <2>1, IdleState DEF TypeInv, TypeOK, Idle
  <2> QED
    BY <1>a, <2>1, <2>2, IdleState DEF Fresh
<1>7. ASSUME NEW w \in Writers, Kill(w) PROVE FreshInv'
  <2>1. writer' = [writer EXCEPT ![w] = Idle] /\ UNCHANGED <<db, overwrite>>
    BY <1>7 DEF Kill
  <2>2. writer'[w].pc = "idle"
    BY <2>1, IdleState DEF TypeInv, TypeOK
  <2> QED
    BY <1>a, <2>1, <2>2, IdleState DEF Fresh
<1>8. CASE UNCHANGED vars
  BY <1>8 DEF vars, FreshInv, Fresh, Filtered, Changed, Deduplicated, IsNews,
     MostRecent, AnteQuery, PostQuery, ExAnte, ExPost
<1> QED
  BY <1>1, <1>2, <1>3, <1>4, <1>5, <1>6, <1>7, <1>8 DEF Next

\* A belief that passed the filter and whose row is taken, while all of its
\* distribution is stored: some part of it is stored with another value.
LEMMA ReplacedPart ==
  ASSUME NEW B, NEW S, B \subseteq Beliefs, S \subseteq Beliefs,
         NEW b \in Filtered(B, S), NEW e \in S, SameRow(b, e),
         \A p \in Probabilities : \E d \in S : d.bt = b.bt /\ d.cp = p
  PROVE  \E c \in B, d \in S : SameRow(c, d) /\ c.val # d.val
<1>1. PICK c \in Deduplicated(B) : c.bt = b.bt /\ IsNews(c, S, b.bt)
  BY DEF Filtered, Changed
<1>2. c \in B /\ c.cp \in Probabilities /\ b.bt \in Nat /\ e.bt = b.bt
  BY <1>1, FilteredSubset, BeliefAssumption
  DEF Deduplicated, Beliefs, BeliefAssumption, SameRow
<1>3. PICK d \in S : d.bt = b.bt /\ d.cp = c.cp
  BY <1>2
<1>4. d \in MostRecent(S, b.bt)
  BY <1>2, <1>3 DEF MostRecent
<1>5. c.val # d.val
  BY <1>1, <1>3, <1>4 DEF IsNews, SamePart
<1> QED
  BY <1>1, <1>2, <1>3, <1>5 DEF SameRow

\* RefusedForReason: if nobody else saved meanwhile, a refused batch does replace a
\* stored belief by another value, or a distribution of it is stored in part.
THEOREM RefusalsJustified == Spec => RefusedForReason
<1> DEFINE Justified(w) ==
             \/ writer[w].dirty
             \/ \E b \in writer[w].batch, d \in db : SameRow(b, d) /\ b.val # d.val
             \/ \E b \in writer[w].batch : Partly(b.bt)
<1>1. ASSUME TypeInv, FreshInv, Next,
             NEW w \in Writers, Refused(w), ~ writer[w].dirty,
             ~ \E b \in writer[w].batch : Partly(b.bt)
      PROVE  Justified(w)
  <2> DEFINE B == writer[w].batch
  <2>1. Refuse(w)
    <3>1. writer[w].pc = "save" /\ writer'[w].pc = "refused"
      BY <1>1 DEF Refused
    <3>2. \A v \in Writers : writer[v] \in WriterState
      BY <1>1 DEF TypeInv, TypeOK
    <3>3. PICK v \in Writers :
            \/ \E C \in Batches : Receive(v, C)
            \/ LookAnte(v) \/ LookPost(v) \/ MergeRows(v) \/ Commit(v)
            \/ Refuse(v) \/ Kill(v)
      BY <1>1 DEF Next
    <3>4. writer \in [Writers -> WriterState]
      BY <1>1 DEF TypeInv, TypeOK
    <3>5. CASE Commit(v)
      <4>1. writer'[w] = IF w = v THEN Idle ELSE IF Free(w) THEN writer[w]
                         ELSE [writer[w] EXCEPT !.dirty = TRUE]
        BY <3>5 DEF Commit
      <4> QED
        BY <3>1, <3>2, <4>1, IdleState DEF WriterState
    <3>6. CASE ~ Commit(v) /\ v # w
      <4>1. writer'[w] = writer[w]
        BY <3>3, <3>4, <3>6
        DEF Receive, LookAnte, LookPost, MergeRows, Refuse, Kill
      <4> QED
        BY <3>1, <4>1
    <3>7. CASE v = w
      <4>1. CASE Kill(w)
        BY <3>1, <3>4, <4>1, IdleState DEF Kill
      <4> QED
        BY <3>1, <3>3, <3>5, <3>7, <4>1
        DEF Receive, LookAnte, LookPost, MergeRows, Free
    <3> QED
      BY <3>5, <3>6, <3>7
  <2>2. ~ overwrite
    BY <1>1, <2>1 DEF Refuse, Violations, FreshInv, Fresh
  <2>3. PICK b \in writer[w].kept : \E d \in db : SameRow(b, d)
    BY <2>1 DEF Refuse, Violations
  <2>4. PICK e \in db : SameRow(b, e)
    BY <2>3
  <2>5. writer[w].kept = Filtered(ExAnte(B), AnteQuery(db))
                    \cup Filtered(ExPost(B), PostQuery(db))
    BY <1>1, <2>1 DEF Refuse, FreshInv, Fresh
  <2>6. /\ B \subseteq Beliefs /\ db \subseteq Beliefs
        /\ \A d \in db : d.bt \in Nat
    BY <1>1, BeliefAssumption
    DEF TypeInv, TypeOK, WriterState, Beliefs, BeliefAssumption
  <2>7. /\ AnteQuery(db) \subseteq db /\ PostQuery(db) \subseteq db
        /\ b \in B
        /\ \A p \in Probabilities : \E d \in db : d.bt = b.bt /\ d.cp = p
    <3>1. b \in B
      BY <1>1 DEF TypeInv
    <3>2. ~ Partly(b.bt)
      BY <1>1, <3>1
    <3> QED
      BY <2>4, <3>1, <3>2 DEF Partly, SameRow, AnteQuery, PostQuery
  <2>8. CASE b \in Filtered(ExAnte(B), AnteQuery(db))
    <3>1. b \in ExAnte(B)
      BY <2>8, FilteredSubset
    <3>2. e \in AnteQuery(db)
      BY <2>4, <2>6, <3>1, BeliefAssumption
      DEF ExAnte, AnteQuery, SameRow, BeliefAssumption
    <3>3. \E c \in ExAnte(B), d \in AnteQuery(db) : SameRow(c, d) /\ c.val # d.val
      <4>1. ExAnte(B) \subseteq Beliefs /\ AnteQuery(db) \subseteq Beliefs
        BY <2>6 DEF ExAnte, AnteQuery
      <4>2. \A p \in Probabilities : \E d \in AnteQuery(db) : d.bt = b.bt /\ d.cp = p
        BY <2>4, <2>7, <3>2 DEF AnteQuery, SameRow
      <4> QED
        BY <2>4, <2>8, <3>2, <4>1, <4>2, ReplacedPart
    <3> QED
      BY <2>7, <3>3 DEF ExAnte
  <2>9. CASE b \in Filtered(ExPost(B), PostQuery(db))
    <3>1. b \in ExPost(B)
      BY <2>9, FilteredSubset
    <3>2. e \in PostQuery(db)
      BY <2>4, <3>1 DEF ExPost, PostQuery, SameRow
    <3>3. \E c \in ExPost(B), d \in PostQuery(db) : SameRow(c, d) /\ c.val # d.val
      <4>1. ExPost(B) \subseteq Beliefs /\ PostQuery(db) \subseteq Beliefs
        BY <2>6 DEF ExPost, PostQuery
      <4>2. \A p \in Probabilities : \E d \in PostQuery(db) : d.bt = b.bt /\ d.cp = p
        BY <2>4, <2>7, <3>2 DEF PostQuery, SameRow
      <4> QED
        BY <2>4, <2>9, <3>2, <4>1, <4>2, ReplacedPart
    <3> QED
      BY <2>7, <3>3 DEF ExPost
  <2> QED
    BY <2>3, <2>5, <2>8, <2>9
<1>2. TypeInv /\ FreshInv /\ [Next]_vars
        => [\A w \in Writers : Refused(w) => Justified(w)]_vars
  BY <1>1
<1>3. RefusedForReason <=> [][\A w \in Writers : Refused(w) => Justified(w)]_vars
  BY DEF RefusedForReason
<1> HIDE DEF Justified
<1> QED
  BY <1>2, <1>3, FreshInit, FreshNext, Typing, PTL DEF Spec

-----------------------------------------------------------------------------
(* Most recent beliefs.                                                    *)

\* Of beliefs formed by some time, some are the most recent.
LEMMA MostRecentExists ==
  ASSUME NEW S, NEW t \in Nat, \A b \in S : b.bt \in Nat,
         \E b \in S : b.bt <= t
  PROVE  MostRecent(S, t) # {}
<1> DEFINE ages == {t - b.bt : b \in {c \in S : c.bt <= t}}
<1>1. ages \subseteq Nat /\ ages # {}
  <2>1. ASSUME NEW y \in ages PROVE y \in Nat
    <3>1. PICK b \in S : b.bt <= t /\ y = t - b.bt
      OBVIOUS
    <3>2. b.bt \in Nat
      OBVIOUS
    <3> QED
      BY <3>1, <3>2
  <2>2. PICK b \in S : b.bt <= t
    OBVIOUS
  <2>3. t - b.bt \in ages
    BY <2>2
  <2> QED
    BY <2>1, <2>3
<1>2. PICK x \in ages : \A y \in ages : ~ (<<y, x>> \in OpToRel(<, Nat))
  BY <1>1, WFMin, NatLessThanWellFounded, Zenon
<1>3. \A y \in ages : ~ (y < x)
  BY <1>1, <1>2, Zenon DEF OpToRel
<1>4. PICK b \in S : b.bt <= t /\ x = t - b.bt
  BY <1>2
<1>5. \A c \in S : c.bt <= t => c.bt <= b.bt
  <2> SUFFICES ASSUME NEW c \in S, c.bt <= t PROVE c.bt <= b.bt
    OBVIOUS
  <2>1. t - c.bt \in ages
    OBVIOUS
  <2> HIDE DEF ages
  <2> QED
    BY <1>3, <1>4, <2>1
<1> QED
  BY <1>4, <1>5 DEF MostRecent

\* Later beliefs do not count.
LEMMA MostRecentBefore ==
  ASSUME NEW S, NEW B, NEW t, \A b \in B : ~ (b.bt <= t)
  PROVE  MostRecent(S \cup B, t) = MostRecent(S, t)
BY DEF MostRecent

\* The most recent beliefs stay the same until there are others.
LEMMA MostRecentLasts ==
  ASSUME NEW S, NEW t \in Nat, NEW u \in Nat, t <= u,
         \A b \in S : b.bt \in Nat /\ b.bt < t
  PROVE  MostRecent(S, u) = MostRecent(S, t)
BY DEF MostRecent

\* Beliefs with the same parts in S: the batch brings no news.
LEMMA NoNews ==
  ASSUME NEW B, NEW S, NEW t, \A b \in B : ~ IsNews(b, S, t)
  PROVE  Pairs(B) \subseteq AsOf(S, t)
BY DEF IsNews, SamePart, AsOf, Pairs

\* A belief that brings news is not what a query returned.
LEMMA News ==
  ASSUME NEW b, NEW S, NEW t, IsNews(b, S, t)
  PROVE  <<b.cp, b.val>> \notin AsOf(S, t)
BY DEF IsNews, SamePart, AsOf, Pairs

-----------------------------------------------------------------------------
(* One part of the stored beliefs, ex ante or ex post.                     *)

\* D answers queries as A does.
Faithful(D, A) == \A t \in Nat : AsOf(D, t) = AsOf(A, t)

\* Successive beliefs differ.
Uncluttered(D) ==
    \A b, c \in D :
        (b.bt < c.bt /\ ~ \E d \in D : b.bt < d.bt /\ d.bt < c.bt) =>
            AsOf(D, b.bt) # AsOf(D, c.bt)

\* The two parts of a whole batch are whole.
LEMMA PartsWhole ==
  ASSUME NEW B, Whole(B), OneTime(B), B \subseteq Beliefs
  PROVE  /\ Whole(ExAnte(B)) /\ \A b, c \in ExAnte(B) : b.bt = c.bt
         /\ Whole(ExPost(B)) /\ \A b, c \in ExPost(B) : b.bt = c.bt
<1>1. \A b \in B : b.bt \in Nat
  BY BeliefAssumption DEF BeliefAssumption, Beliefs
<1> QED
  BY <1>1 DEF Whole, OneTime, ExAnte, ExPost

\* A later distribution is added to what is stored, or dropped.
LEMMA LaterBatch ==
  ASSUME NEW D, NEW A, NEW B, A \subseteq Beliefs, D \subseteq A, Rows(A),
         B \subseteq Beliefs, B # {}, Whole(B), Rows(B),
         \A b, c \in B : b.bt = c.bt,
         \A a \in A, b \in B : a.bt < b.bt,
         Faithful(D, A), Uncluttered(D)
  PROVE  /\ Faithful(D \cup Filtered(B, D), A \cup B)
         /\ Uncluttered(D \cup Filtered(B, D))
<1>0. \A b \in Beliefs : b.bt \in Nat
  BY BeliefAssumption DEF BeliefAssumption, Beliefs
<1>1. PICK t \in Nat : \A b \in B : b.bt = t
  <2>1. PICK b \in B : TRUE
    OBVIOUS
  <2>2. b.bt \in Nat /\ \A c \in B : c.bt = b.bt
    BY <1>0, <2>1
  <2> QED
    BY <2>2
<1>2. /\ \A a \in A : a.bt \in Nat /\ a.bt < t
      /\ \A a \in D : a.bt \in Nat /\ a.bt < t
  <2>1. ASSUME NEW a \in A PROVE a.bt \in Nat /\ a.bt < t
    <3>1. PICK b \in B : a.bt < b.bt
      OBVIOUS
    <3> QED
      BY <1>0, <1>1, <3>1
  <2> QED
    BY <2>1
<1>3. Deduplicated(B) = B
  BY <1>1 DEF Deduplicated
<1>4. Filtered(B, D) = {b \in B : \E c \in B : IsNews(c, D, t)}
  BY <1>1, <1>3 DEF Filtered, Changed
<1>5. \A u \in Nat : u < t => /\ AsOf(A \cup B, u) = AsOf(A, u)
                              /\ AsOf(D \cup B, u) = AsOf(D, u)
  <2> SUFFICES ASSUME NEW u \in Nat, u < t
               PROVE  /\ AsOf(A \cup B, u) = AsOf(A, u)
                      /\ AsOf(D \cup B, u) = AsOf(D, u)
    OBVIOUS
  <2>1. \A b \in B : ~ (b.bt <= u)
    BY <1>1
  <2> QED
    BY <2>1, MostRecentBefore DEF AsOf
<1>6. \A u \in Nat : t <= u => /\ AsOf(A \cup B, u) = Pairs(B)
                               /\ AsOf(D \cup B, u) = Pairs(B)
  <2> SUFFICES ASSUME NEW u \in Nat, t <= u
               PROVE  MostRecent(A \cup B, u) = B /\ MostRecent(D \cup B, u) = B
    BY DEF AsOf
  <2>1. MostRecent(A \cup B, u) = B
    BY <1>1, <1>2 DEF MostRecent
  <2>2. MostRecent(D \cup B, u) = B
    BY <1>1, <1>2 DEF MostRecent
  <2> QED
    BY <2>1, <2>2
<1>7. CASE \E c \in B : IsNews(c, D, t)
  <2>1. Filtered(B, D) = B
    BY <1>4, <1>7
  <2>2. Faithful(D \cup B, A \cup B)
    <3> SUFFICES ASSUME NEW u \in Nat PROVE AsOf(D \cup B, u) = AsOf(A \cup B, u)
      BY DEF Faithful
    <3>1. u < t \/ t <= u
      OBVIOUS
    <3> QED
      BY <1>5, <1>6, <3>1 DEF Faithful
  <2>3. Uncluttered(D \cup B)
    <3> SUFFICES ASSUME NEW b \in D \cup B, NEW c \in D \cup B, b.bt < c.bt,
                        ~ \E d \in D \cup B : b.bt < d.bt /\ d.bt < c.bt
                 PROVE  AsOf(D \cup B, b.bt) # AsOf(D \cup B, c.bt)
      BY DEF Uncluttered
    <3>1. b \in D /\ b.bt \in Nat /\ b.bt < t
      BY <1>1, <1>2
    <3>2. CASE c \in D
      BY <1>2, <1>5, <3>1, <3>2 DEF Uncluttered
    <3>3. CASE c \in B
      <4>1. c.bt = t
        BY <1>1, <3>3
      <4>2. \A d \in D : d.bt <= b.bt
        BY <1>2, <3>1, <4>1
      <4>3. MostRecent(D, b.bt) = MostRecent(D, t)
        BY <1>2, <3>1, <4>2 DEF MostRecent
      <4>4. PICK n \in B : <<n.cp, n.val>> \notin AsOf(D, t)
        BY <1>7, News
      <4>5. AsOf(D \cup B, b.bt) = AsOf(D, t)
        BY <1>5, <3>1, <4>3 DEF AsOf
      <4>6. <<n.cp, n.val>> \in AsOf(D \cup B, c.bt)
        <5>1. AsOf(D \cup B, t) = Pairs(B)
          BY <1>6, t <= t
        <5>2. AsOf(D \cup B, c.bt) = Pairs(B)
          BY <4>1, <5>1
        <5> QED
          BY <5>2 DEF Pairs
      <4> QED
        BY <4>4, <4>5, <4>6
    <3> QED
      BY <3>2, <3>3
  <2> QED
    BY <2>1, <2>2, <2>3
<1>8. CASE ~ \E c \in B : IsNews(c, D, t)
  <2>1. D \cup Filtered(B, D) = D
    BY <1>4, <1>8
  <2>2. AsOf(D, t) = Pairs(B)
    <3>1. Pairs(B) \subseteq AsOf(D, t)
      BY <1>8, NoNews
    <3>2. ASSUME NEW d \in MostRecent(D, t) PROVE <<d.cp, d.val>> \in Pairs(B)
      <4>1. d \in D /\ d \in Beliefs /\ d.cp \in Probabilities
        BY DEF MostRecent, Beliefs
      <4>2. PICK c \in B : c.cp = d.cp
        BY <4>1 DEF Whole
      <4>3. PICK e \in MostRecent(D, t) : SamePart(c, e)
        BY <1>8 DEF IsNews
      <4>4. e \in D /\ e.bt \in Nat /\ d.bt \in Nat /\ e.bt <= d.bt /\ d.bt <= e.bt
        BY <1>2 DEF MostRecent
      <4>5. SameRow(d, e) /\ d \in A /\ e \in A
        BY <4>1, <4>2, <4>3, <4>4 DEF SameRow, SamePart
      <4>6. d = e
        BY <4>5 DEF Rows
      <4> QED
        BY <4>2, <4>3, <4>6 DEF Pairs, SamePart
    <3> QED
      BY <3>1, <3>2 DEF AsOf, Pairs
  <2>3. \A u \in Nat : t <= u => AsOf(D, u) = Pairs(B)
    BY <1>2, <2>2, MostRecentLasts DEF AsOf
  <2>4. Faithful(D, A \cup B)
    <3> SUFFICES ASSUME NEW u \in Nat PROVE AsOf(D, u) = AsOf(A \cup B, u)
      BY DEF Faithful
    <3>1. u < t \/ t <= u
      OBVIOUS
    <3> QED
      BY <1>5, <1>6, <2>3, <3>1 DEF Faithful
  <2> QED
    BY <2>1, <2>4
<1> QED
  BY <1>7, <1>8

\* What was accepted before brings no news.
LEMMA AgainFiltered ==
  ASSUME NEW D, NEW A, NEW B, A \subseteq Beliefs, B \subseteq A, Faithful(D, A)
  PROVE  Filtered(B, D) = {}
<1>1. ASSUME NEW b \in B PROVE ~ IsNews(b, D, b.bt)
  <2>1. b.bt \in Nat
    BY BeliefAssumption DEF BeliefAssumption, Beliefs
  <2>2. b \in MostRecent(A, b.bt)
    BY <2>1 DEF MostRecent
  <2>3. <<b.cp, b.val>> \in AsOf(D, b.bt)
    BY <2>1, <2>2 DEF Faithful, AsOf, Pairs
  <2> QED
    BY <2>3, News
<1> QED
  BY <1>1 DEF Filtered, Changed, Deduplicated

\* Ex-post beliefs are more recent than ex-ante ones: what holds of the parts holds
\* of the whole.
LEMMA PartsFaithful ==
  ASSUME NEW D, NEW A, A \subseteq Beliefs, D \subseteq A,
         Faithful(ExAnte(D), ExAnte(A)), Faithful(ExPost(D), ExPost(A))
  PROVE  Faithful(D, A)
<1>1. \A a \in A : a.bt \in Nat
  BY BeliefAssumption DEF BeliefAssumption, Beliefs
<1>2. Known \in Nat
  BY BeliefAssumption DEF BeliefAssumption
<1> SUFFICES ASSUME NEW t \in Nat PROVE AsOf(D, t) = AsOf(A, t)
  BY DEF Faithful
<1>3. ASSUME NEW S \in {D, A}, \E b \in ExPost(S) : b.bt <= t
      PROVE  MostRecent(S, t) = MostRecent(ExPost(S), t)
  BY <1>1, <1>2, <1>3 DEF MostRecent, ExPost
<1>4. ASSUME NEW S \in {D, A}, ~ \E b \in ExPost(S) : b.bt <= t
      PROVE  MostRecent(S, t) = MostRecent(ExAnte(S), t)
  BY <1>1, <1>2, <1>4 DEF MostRecent, ExPost, ExAnte
<1>5. CASE \E b \in ExPost(A) : b.bt <= t
  <2>1. MostRecent(ExPost(A), t) # {}
    BY <1>1, <1>5, MostRecentExists DEF ExPost
  <2>2. AsOf(ExPost(D), t) # {}
    <3>1. Pairs(MostRecent(ExPost(A), t)) # {}
      BY <2>1 DEF Pairs
    <3> QED
      BY <3>1 DEF Faithful, AsOf
  <2>3. \E b \in ExPost(D) : b.bt <= t
    BY <2>2 DEF AsOf, Pairs, MostRecent
  <2> QED
    BY <1>3, <1>5, <2>3 DEF AsOf, Faithful
<1>6. CASE ~ \E b \in ExPost(A) : b.bt <= t
  <2>1. ~ \E b \in ExPost(D) : b.bt <= t
    BY <1>6 DEF ExPost
  <2> QED
    BY <1>4, <1>6, <2>1 DEF AsOf, Faithful
<1> QED
  BY <1>5, <1>6

\* The look-up of the ex-ante part also returns beliefs formed at the knowledge time,
\* which make no difference.
LEMMA AnteLook ==
  ASSUME NEW B, NEW D, B \subseteq Beliefs, D \subseteq Beliefs
  PROVE  Filtered(ExAnte(B), AnteQuery(D)) = Filtered(ExAnte(B), ExAnte(D))
<1>1. /\ Known \in Nat /\ \A d \in D : d.bt \in Nat
      /\ \A b \in B : b.bt \in Nat
  BY BeliefAssumption DEF BeliefAssumption, Beliefs
<1>2. \A b \in ExAnte(B) : MostRecent(AnteQuery(D), b.bt) = MostRecent(ExAnte(D), b.bt)
  BY <1>1 DEF MostRecent, AnteQuery, ExAnte
<1> QED
  BY <1>2 DEF Filtered, Changed, Deduplicated, IsNews

-----------------------------------------------------------------------------
(* All of them.                                                            *)

\* While batches come in order, what is stored is what was accepted, less what does
\* not change an answer.
FaithOf(D, A) ==
    /\ Rows(A) /\ D \subseteq A
    /\ Faithful(ExAnte(D), ExAnte(A)) /\ Uncluttered(ExAnte(D))
    /\ Faithful(ExPost(D), ExPost(A)) /\ Uncluttered(ExPost(D))

FaithInv == ordered => FaithOf(db, accepted)

\* Initially nothing is stored and nothing was accepted.
LEMMA FaithInit == Init => FaithInv
BY DEF Init, FaithInv, FaithOf, Rows, Faithful, Uncluttered, ExAnte, ExPost

\* A writer that nobody interfered with keeps what the filter leaves of each part.
LEMMA KeptParts ==
  ASSUME TypeInv, FreshInv, NEW w \in Writers, writer[w].pc = "save", ~ writer[w].dirty
  PROVE  writer[w].kept = Filtered(ExAnte(writer[w].batch), ExAnte(db))
                     \cup Filtered(ExPost(writer[w].batch), ExPost(db))
<1>1. writer[w].batch \subseteq Beliefs /\ db \subseteq Beliefs
  BY DEF TypeInv, TypeOK, WriterState
<1>2. PostQuery(db) = ExPost(db)
  BY DEF PostQuery, ExPost
<1> QED
  BY <1>1, <1>2, AnteLook DEF FreshInv, Fresh

\* Of a batch that was accepted before nothing is left.
LEMMA NothingKept ==
  ASSUME TypeInv, FreshInv, FaithInv, ordered, NEW w \in Writers,
         writer[w].pc = "save", ~ writer[w].dirty, writer[w].batch \subseteq accepted
  PROVE  writer[w].kept = {}
<1> DEFINE B == writer[w].batch
<1>1. /\ ExAnte(accepted) \subseteq Beliefs /\ ExAnte(B) \subseteq ExAnte(accepted)
      /\ ExPost(accepted) \subseteq Beliefs /\ ExPost(B) \subseteq ExPost(accepted)
  BY DEF TypeInv, TypeOK, ExAnte, ExPost
<1>2. Filtered(ExAnte(B), ExAnte(db)) = {}
  BY <1>1, AgainFiltered DEF FaithInv, FaithOf
<1>3. Filtered(ExPost(B), ExPost(db)) = {}
  BY <1>1, AgainFiltered DEF FaithInv, FaithOf
<1> QED
  BY <1>2, <1>3, KeptParts

\* Both parts of a batch that is later than all accepted ones.
LEMMA LaterCommit ==
  ASSUME TypeInv, WholeInv, FreshInv, FaithInv, ordered,
         NEW w \in Writers, Commit(w), ~ writer[w].dirty,
         OneTime(writer[w].batch),
         \A b \in writer[w].batch, a \in accepted : a.bt < b.bt
  PROVE  FaithInv'
<1> DEFINE B == writer[w].batch
           Fa == Filtered(ExAnte(B), ExAnte(db))
           Fp == Filtered(ExPost(B), ExPost(db))
<1>1. /\ B \subseteq Beliefs /\ Rows(B) /\ accepted \subseteq Beliefs
      /\ Whole(B) /\ OneTime(B)
      /\ Rows(accepted) /\ db \subseteq accepted
  BY DEF TypeInv, TypeOK, WriterState, WholeInv, FaithInv, FaithOf
<1>2. Fa \subseteq ExAnte(B) /\ Fp \subseteq ExPost(B)
  BY FilteredSubset
<1>3. Fa \subseteq B /\ Fp \subseteq B
  BY <1>2 DEF ExAnte, ExPost
<1>4. db' = db \cup Fa \cup Fp
  <2>1. db' = Saved(db, Fa \cup Fp)
    BY KeptParts DEF Commit
  <2>2. \A d \in db, b \in Fa \cup Fp : ~ SameRow(b, d)
    <3> SUFFICES ASSUME NEW d \in db, NEW b \in Fa \cup Fp, SameRow(b, d)
                 PROVE  FALSE
      OBVIOUS
    <3>1. d.bt < b.bt /\ d.bt = b.bt
      BY <1>1, <1>3 DEF SameRow
    <3>2. d.bt \in Nat
      BY ZenonT(30), <1>1, BeliefAssumption DEF BeliefAssumption, Beliefs
    <3> QED
      BY <3>1, <3>2
  <2> HIDE DEF Fa, Fp
  <2> QED
    BY <2>1, <2>2 DEF Saved
<1>5. accepted' = accepted \cup B
  BY DEF Commit
<1>6. /\ ExAnte(db') = ExAnte(db) \cup Fa
      /\ ExPost(db') = ExPost(db) \cup Fp
  <2>1. \A b \in B : b.bt \in Nat /\ Known \in Nat
    BY <1>1, BeliefAssumption DEF BeliefAssumption, Beliefs
  <2>2. /\ \A b \in Fa : b.bt < Known
        /\ \A b \in Fp : ~ (b.bt < Known) /\ b.bt >= Known
        /\ \A b \in Fa : ~ (b.bt >= Known)
    BY <1>2, <1>3, <2>1 DEF ExAnte, ExPost
  <2> HIDE DEF Fa, Fp
  <2> QED
    BY <1>4, <2>2 DEF ExAnte, ExPost
<1>7. /\ ExAnte(accepted') = ExAnte(accepted) \cup ExAnte(B)
      /\ ExPost(accepted') = ExPost(accepted) \cup ExPost(B)
  BY <1>5 DEF ExAnte, ExPost
<1>8. Rows(accepted') /\ db' \subseteq accepted'
  <2>1. \A b \in accepted \cup B : b.bt \in Nat
    BY <1>1, BeliefAssumption DEF BeliefAssumption, Beliefs
  <2> QED
    BY <1>1, <1>3, <1>4, <1>5, <2>1 DEF Rows, SameRow
<1>9. /\ Faithful(ExAnte(db) \cup Fa, ExAnte(accepted) \cup ExAnte(B))
      /\ Uncluttered(ExAnte(db) \cup Fa)
  <2>1. CASE ExAnte(B) = {}
    BY <1>2, <2>1 DEF FaithInv, FaithOf
  <2>2. CASE ExAnte(B) # {}
    <3>1. /\ ExAnte(accepted) \subseteq Beliefs /\ Rows(ExAnte(accepted))
          /\ ExAnte(db) \subseteq ExAnte(accepted)
          /\ ExAnte(B) \subseteq Beliefs /\ Rows(ExAnte(B))
          /\ \A a \in ExAnte(accepted), b \in ExAnte(B) : a.bt < b.bt
      BY <1>1 DEF ExAnte, Rows
    <3>2. Whole(ExAnte(B)) /\ \A b, c \in ExAnte(B) : b.bt = c.bt
      BY <1>1, PartsWhole
    <3> QED
      BY <2>2, <3>1, <3>2, LaterBatch DEF FaithInv, FaithOf
  <2> QED
    BY <2>1, <2>2
<1>10. /\ Faithful(ExPost(db) \cup Fp, ExPost(accepted) \cup ExPost(B))
       /\ Uncluttered(ExPost(db) \cup Fp)
  <2>1. CASE ExPost(B) = {}
    BY <1>2, <2>1 DEF FaithInv, FaithOf
  <2>2. CASE ExPost(B) # {}
    <3>1. /\ ExPost(accepted) \subseteq Beliefs /\ Rows(ExPost(accepted))
          /\ ExPost(db) \subseteq ExPost(accepted)
          /\ ExPost(B) \subseteq Beliefs /\ Rows(ExPost(B))
          /\ \A a \in ExPost(accepted), b \in ExPost(B) : a.bt < b.bt
      BY <1>1 DEF ExPost, Rows
    <3>2. Whole(ExPost(B)) /\ \A b, c \in ExPost(B) : b.bt = c.bt
      BY <1>1, PartsWhole
    <3> QED
      BY <2>2, <3>1, <3>2, LaterBatch DEF FaithInv, FaithOf
  <2> QED
    BY <2>1, <2>2
<1> HIDE DEF B, Fa, Fp
<1> QED
  BY <1>6, <1>7, <1>8, <1>9, <1>10 DEF FaithInv, FaithOf

\* Only commits change what is stored or accepted, and those that leave the order
\* intact are of later batches or of accepted ones.
LEMMA FaithNext ==
  ASSUME TypeInv, WholeInv, FreshInv, FaithInv, [Next]_vars
  PROVE  FaithInv'
<1>1. ASSUME NEW w \in Writers, Commit(w) PROVE FaithInv'
  <2>1. CASE ~ ordered'
    BY <2>1 DEF FaithInv, FaithOf
  <2>2. CASE ordered'
    <3>1. ordered /\ Arrived(w) /\ writer[w].pc = "save" /\ ~ writer[w].dirty
      BY <1>1, <2>2 DEF Commit, Arrived
    <3>2. CASE writer[w].batch \subseteq accepted
      <4>1. writer[w].kept = {}
        BY <3>1, <3>2, NothingKept
      <4>2. UNCHANGED <<db, accepted>>
        BY <1>1, <3>2, <4>1 DEF Commit, Saved
      <4> QED
        BY <3>1, <4>2 DEF FaithInv
    <3>3. CASE \A b \in writer[w].batch, a \in accepted : a.bt < b.bt
      BY <1>1, <3>1, <3>3, LaterCommit DEF Arrived
    <3> QED
      BY <3>1, <3>2, <3>3 DEF Arrived
  <2> QED
    BY <2>1, <2>2
<1>2. CASE UNCHANGED <<db, accepted, ordered>>
  BY <1>2 DEF FaithInv
<1> QED
  BY <1>1, <1>2 DEF Next, Receive, LookAnte, LookPost, MergeRows, Refuse, Kill, vars

\* FaithInv holds if callers send whole distributions.
LEMMA Faith ==
  ASSUME BatchesWhole
  PROVE  Spec => [](TypeInv /\ WholeInv /\ FreshInv /\ FaithInv)
<1>1. TypeInv /\ WholeInv /\ [Next]_vars => WholeInv'
  BY WholeNext
<1> QED
  BY <1>1, WholeInit, FreshInit, FreshNext, FaithInit, FaithNext, Typing, PTL DEF Spec

\* AsOfFaithful: if callers send whole distributions, and as long as batches come one
\* at a time, in the order of their belief times and with one belief time on each
\* side of the knowledge time, nobody who queries beliefs notices that unchanged ones
\* were dropped.
THEOREM DroppingUnnoticed ==
  ASSUME BatchesWhole
  PROVE  Spec => []AsOfFaithful
<1>1. TypeInv /\ FaithInv => AsOfFaithful
  <2> SUFFICES ASSUME TypeInv, FaithInv, ordered, NEW t \in Times
               PROVE  /\ AsOf(db, t) = AsOf(accepted, t)
                      /\ AsOf(ExAnte(db), t) = AsOf(ExAnte(accepted), t)
                      /\ AsOf(ExPost(db), t) = AsOf(ExPost(accepted), t)
    BY DEF AsOfFaithful
  <2>1. t \in Nat
    BY BeliefAssumption DEF BeliefAssumption
  <2>2. Faithful(db, accepted)
    BY PartsFaithful DEF FaithInv, FaithOf, TypeInv, TypeOK
  <2> QED
    BY <2>1, <2>2 DEF FaithInv, FaithOf, Faithful
<1> QED
  BY <1>1, Faith, PTL

\* NoClutter: under the same conditions two successive ex-ante (or ex-post) beliefs
\* that are stored always differ.
THEOREM OnlyNewsStored ==
  ASSUME BatchesWhole
  PROVE  Spec => []NoClutter
<1>1. FaithInv => NoClutter
  BY DEF FaithInv, FaithOf, NoClutter, Uncluttered
<1> QED
  BY <1>1, Faith, PTL

\* Redelivered: a batch that comes once more, and alone, changes nothing and is not
\* refused, with or without permission to overwrite.
THEOREM RedeliveryHarmless ==
  ASSUME BatchesWhole
  PROVE  Spec => Redelivered
<1> DEFINE Again(w) ==
             /\ writer[w].pc = "save" /\ writer'[w].pc # "save"
             /\ ordered /\ ~ writer[w].dirty
             /\ writer[w].batch \subseteq accepted
<1>1. ASSUME TypeInv, FreshInv, FaithInv, Next, NEW w \in Writers, Again(w)
      PROVE  db' = db /\ ~ Refused(w)
  <2>1. writer[w].kept = {}
    BY <1>1, NothingKept
  <2>2. writer \in [Writers -> WriterState] /\ \A v \in Writers : writer[v] \in WriterState
    BY <1>1 DEF TypeInv, TypeOK
  <2>3. PICK v \in Writers :
          \/ \E C \in Batches : Receive(v, C)
          \/ LookAnte(v) \/ LookPost(v) \/ MergeRows(v) \/ Commit(v)
          \/ Refuse(v) \/ Kill(v)
    BY <1>1 DEF Next
  <2>4. CASE Commit(v)
    <3>1. writer'[w] = IF w = v THEN Idle ELSE IF Free(w) THEN writer[w]
                       ELSE [writer[w] EXCEPT !.dirty = TRUE]
      BY <2>4 DEF Commit
    <3>2. v = w
      BY <1>1, <2>2, <3>1 DEF WriterState, Free
    <3> QED
      BY <2>1, <2>4, <3>1, <3>2, IdleState DEF Commit, Saved, Refused
  <2>5. CASE ~ Commit(v) /\ v # w
    <3>1. writer'[w] = writer[w]
      BY <2>2, <2>3, <2>5 DEF Receive, LookAnte, LookPost, MergeRows, Refuse, Kill
    <3> QED
      BY <1>1, <3>1
  <2>6. CASE ~ Commit(v) /\ v = w
    <3>1. ~ Refuse(w)
      BY <2>1 DEF Refuse, Violations
    <3>2. Kill(w)
      BY <1>1, <2>3, <2>6, <3>1 DEF Receive, LookAnte, LookPost, MergeRows, Free
    <3> QED
      BY <2>2, <3>2, IdleState DEF Kill, Refused
  <2> QED
    BY <2>4, <2>5, <2>6
<1>2. TypeInv /\ FreshInv /\ FaithInv /\ [Next]_vars
        => [\A w \in Writers : Again(w) => db' = db /\ ~ Refused(w)]_vars
  BY <1>1
<1>3. Redelivered <=> [][\A w \in Writers : Again(w) => db' = db /\ ~ Refused(w)]_vars
  BY DEF Redelivered
<1> HIDE DEF Again
<1> QED
  BY <1>2, <1>3, Faith, PTL DEF Spec

=============================================================================
