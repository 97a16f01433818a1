------------------------------ MODULE LookUpProofs ------------------------------
(***************************************************************************)
(* What look-ups without a lock between them may rely on: ToldIsListed of  *)
(* SimultaneousScheduling, for any number of web processes and jobs, and   *)
(* OrdersHonoured of GetOrCreate, for any number of agents and orders.     *)
(*                                                                         *)
(* The invariant of the first says that a job id can be found in the inner *)
(* entry before the job is in the queue, but that whoever goes on to the   *)
(* outer entry or to an answer has seen its status, or has put it in the   *)
(* queue.                                                                  *)
(***************************************************************************)
EXTENDS SimultaneousScheduling, GetOrCreate, FiniteSetTheorems, TLAPS

Steps == {"away", "find", "fetch", "create", "storeInner", "check", "enqueue",
          "storeOuter"}

HasJob == {"fetch", "storeInner", "check", "enqueue", "storeOuter"}

TypeOK ==
    /\ entry \in [{"outer", "inner"} -> SiteJob \cup {NoJob}]
    /\ state \in [SiteJob -> JobStates]
    /\ line \in Seq(SiteJob)
    /\ caller \in [Callers -> [step : Steps, key : {"outer", "inner"},
                               force : BOOLEAN, job : SiteJob \cup {NoJob}]]
    /\ \A c \in Callers :
          /\ caller[c].step \in HasJob => caller[c].job \in SiteJob
          /\ caller[c].step \notin {"away", "find", "fetch"} => caller[c].key = "inner"

\* A job that has a status was in the queue, and so was one in the outer entry.
WasListed ==
    /\ told \subseteq listed
    /\ \A j \in SiteJob : state[j] \in {"queued", "done", "gone"} => j \in listed
    /\ \A i \in 1..Len(line) : line[i] \in listed
    /\ entry["outer"] \in listed \cup {NoJob}
    /\ \A c \in Callers :
          \/ caller[c].step = "storeOuter"
          \/ caller[c].step = "fetch" /\ caller[c].key = "outer"
          => caller[c].job \in listed

\* No id is handed around before its job is in Redis.
Exists ==
    /\ entry["inner"] \in SiteJob => state[entry["inner"]] # "absent"
    /\ \A c \in Callers :
          caller[c].step \in HasJob \ {"storeOuter"} /\ caller[c].key = "inner"
              => state[caller[c].job] # "absent"

IInv == TypeOK /\ WasListed /\ Exists

-----------------------------------------------------------------------------

LEMMA InitHolds == MInit => IInv
BY SimultaneousAssumption
   DEF MInit, IInv, TypeOK, WasListed, Exists, Away, Steps, HasJob, JobStates

LEMMA NextHolds == IInv /\ [MNext]_mvars => IInv'
<1> SUFFICES ASSUME IInv, [MNext]_mvars PROVE IInv'
  OBVIOUS
<1> USE SimultaneousAssumption DEF IInv, Steps, HasJob
<1>1. ASSUME NEW c \in Callers, NEW force \in BOOLEAN, Ask(c, force) PROVE IInv'
  BY <1>1 DEF Ask, TypeOK, WasListed, Exists, Away
<1>2. ASSUME NEW c \in Callers, Find(c) PROVE IInv'
  <2>1. TypeOK'
    <3>1. CASE caller'[c].step = "fetch"
      <4>1. entry[caller[c].key] \in SiteJob
        BY <1>2, <3>1 DEF Find, TypeOK
      <4> DEFINE job == entry[caller[c].key]
      <4>2. caller' = [caller EXCEPT ![c] = [@ EXCEPT !.step = "fetch", !.job = job]]
        BY <1>2, <3>1 DEF Find, TypeOK
      <4>3. UNCHANGED <<entry, state, line>>
        BY <1>2 DEF Find
      <4> HIDE DEF job
      <4>4. /\ caller'[c] = [caller[c] EXCEPT !.step = "fetch", !.job = job]
            /\ caller[c] \in [step : Steps, key : {"outer", "inner"}, force : BOOLEAN,
                              job : SiteJob \cup {NoJob}]
        BY <4>2 DEF TypeOK
      <4>5. caller'[c] = [step |-> "fetch", key |-> caller[c].key,
                          force |-> caller[c].force, job |-> job]
        BY <4>4
      <4> QED
        BY <4>1, <4>2, <4>3, <4>4, <4>5 DEF TypeOK, job
    <3>2. CASE caller'[c].step = "find"
      <4>1. caller' = [caller EXCEPT ![c] = [@ EXCEPT !.key = "inner"]]
        BY <1>2, <3>2 DEF Find, TypeOK
      <4> QED
        BY <1>2, <4>1 DEF Find, TypeOK
    <3>3. CASE caller'[c].step = "create"
      <4>1. caller' = [caller EXCEPT ![c] = [@ EXCEPT !.step = "create"]]
            /\ caller[c].key = "inner"
        BY <1>2, <3>3 DEF Find, TypeOK
      <4> QED
        BY <1>2, <4>1 DEF Find, TypeOK
    <3> QED
      BY <1>2, <3>1, <3>2, <3>3 DEF Find, TypeOK
  <2>2. WasListed'
    BY <1>2 DEF Find, TypeOK, WasListed
  <2>3. Exists'
    BY <1>2 DEF Find, TypeOK, Exists
  <2> QED
    BY <2>1, <2>2, <2>3
<1>3. ASSUME NEW c \in Callers, Fetch(c) PROVE IInv'
  <2>1. TypeOK'
    <3>1. CASE caller' = [caller EXCEPT ![c] = Away]
      BY <1>3, <3>1 DEF Fetch, Away, TypeOK
    <3>2. CASE caller[c].key = "inner" /\ caller' = [caller EXCEPT ![c].step = "check"]
      <4>1. caller'[c] = [step |-> "check", key |-> "inner",
                          force |-> caller[c].force, job |-> caller[c].job]
        BY <3>2 DEF TypeOK
      <4> QED
        BY <1>3, <3>2, <4>1 DEF Fetch, TypeOK
    <3> QED
      BY <1>3, <3>1, <3>2 DEF Fetch
  <2>2. WasListed'
    BY <1>3 DEF Fetch, Away, TypeOK, WasListed
  <2>3. Exists'
    BY <1>3 DEF Fetch, Away, TypeOK, Exists
  <2> QED
    BY <2>1, <2>2, <2>3
<1>4. ASSUME NEW c \in Callers, Create(c) PROVE IInv'
  <2> DEFINE new == CHOOSE i \in SiteJob : state[i] = "absent"
  <2>1. new \in SiteJob /\ state[new] = "absent"
    BY <1>4 DEF Create
  <2>2. /\ state' = [state EXCEPT ![new] = "saved"]
        /\ caller' = [caller EXCEPT ![c].step = "storeInner", ![c].job = new]
        /\ UNCHANGED <<entry, line, told, listed>>
    BY <1>4 DEF Create
  <2> HIDE DEF new
  <2>3. TypeOK'
    <3>1. caller[c].key = "inner" /\ caller[c].step = "create"
      BY <1>4 DEF Create, TypeOK
    <3>2. caller'[c] = [step |-> "storeInner", key |-> "inner",
                        force |-> caller[c].force, job |-> new]
      BY <2>2, <3>1 DEF TypeOK
    <3>3. state' \in [SiteJob -> JobStates]
      BY <2>1, <2>2 DEF TypeOK, JobStates
    <3> QED
      BY <2>1, <2>2, <3>1, <3>2, <3>3 DEF TypeOK
  <2>4. WasListed'
    BY <1>4, <2>1, <2>2 DEF Create, TypeOK, WasListed
  <2>5. Exists'
    BY <1>4, <2>1, <2>2 DEF Create, TypeOK, Exists
  <2> QED
    BY <2>3, <2>4, <2>5
<1>5. ASSUME NEW c \in Callers, Refuse(c) PROVE IInv'
  BY <1>5 DEF Refuse, TypeOK, WasListed, Exists, Away
<1>6. ASSUME NEW c \in Callers, StoreInner(c) PROVE IInv'
  <2>1. TypeOK'
    BY <1>6 DEF StoreInner, TypeOK
  <2>2. WasListed'
    BY <1>6 DEF StoreInner, TypeOK, WasListed
  <2>3. Exists'
    <3>1. /\ entry'["inner"] = caller[c].job /\ caller[c].key = "inner"
          /\ state[caller[c].job] # "absent"
      BY <1>6 DEF StoreInner, TypeOK, Exists
    <3>2. state' = state
      BY <1>6 DEF StoreInner
    <3>3. entry'["inner"] \in SiteJob => state'[entry'["inner"]] # "absent"
      BY <3>1, <3>2
    <3>4. ASSUME NEW d \in Callers, caller'[d].step \in HasJob \ {"storeOuter"},
                 caller'[d].key = "inner"
          PROVE  state'[caller'[d].job] # "absent"
      <4>1. caller'[d].job = caller[d].job /\ caller[d].key = "inner"
        BY <1>6, <3>4 DEF StoreInner, TypeOK
      <4>2. state[caller[d].job] # "absent"
        <5>1. CASE d = c
          BY <3>1, <5>1
        <5>2. CASE d # c
          <6>1. caller[d].step \in HasJob \ {"storeOuter"}
            BY <1>6, <3>4, <5>2 DEF StoreInner, TypeOK
          <6> QED
            BY <4>1, <6>1 DEF Exists
        <5> QED
          BY <5>1, <5>2
      <4> QED
        BY <3>2, <4>1, <4>2
    <3> QED
      BY <3>3, <3>4 DEF Exists
  <2> QED
    BY <2>1, <2>2, <2>3
<1>7. ASSUME NEW c \in Callers, CheckStatus(c) PROVE IInv'
  <2>1. TypeOK'
    BY <1>7 DEF CheckStatus, JobStates, TypeOK
  <2>2. WasListed'
    <3>1. CASE state[caller[c].job] \in {"saved", "gone"}
      BY <1>7, <3>1 DEF CheckStatus, TypeOK, WasListed
    <3>2. CASE state[caller[c].job] \in {"queued", "done"}
      BY <1>7, <3>2 DEF CheckStatus, TypeOK, WasListed
    <3>3. CASE state[caller[c].job] = "absent"
      BY <1>7, <3>3 DEF CheckStatus, TypeOK, Exists
    <3> QED
      BY <1>7, <3>1, <3>2, <3>3 DEF CheckStatus, TypeOK, JobStates
  <2>3. Exists'
    BY <1>7 DEF CheckStatus, JobStates, TypeOK, WasListed, Exists
  <2> QED
    BY <2>1, <2>2, <2>3
<1>8. ASSUME NEW c \in Callers, EnqueueSiteJob(c) PROVE IInv'
  BY <1>8 DEF EnqueueSiteJob, TypeOK, WasListed, Exists, JobStates
<1>9. ASSUME NEW c \in Callers, StoreOuter(c) PROVE IInv'
  BY <1>9 DEF StoreOuter, TypeOK, WasListed, Exists, Away
<1>10. ASSUME NEW c \in Callers, KillCaller(c) PROVE IInv'
  BY <1>10 DEF KillCaller, TypeOK, WasListed, Exists, Away
<1>11. CASE RunSiteJob
  BY <1>11 DEF RunSiteJob, TypeOK, WasListed, Exists, JobStates
<1>12. ASSUME NEW key \in {"outer", "inner"}, ExpireKey(key) PROVE IInv'
  BY <1>12 DEF ExpireKey, TypeOK, WasListed, Exists
<1>13. ASSUME NEW j \in SiteJob, ExpireSiteJob(j) PROVE IInv'
  BY <1>13 DEF ExpireSiteJob, TypeOK, WasListed, Exists, JobStates
<1>14. CASE UNCHANGED mvars
  BY <1>14 DEF mvars, TypeOK, WasListed, Exists
<1> QED
  BY <1>1, <1>2, <1>3, <1>4, <1>5, <1>6, <1>7, <1>8, <1>9, <1>10, <1>11, <1>12, <1>13,
     <1>14 DEF MNext

\* ToldIsListed: whoever triggers a schedule gets the id of a job that was in the queue,
\* also when its creator was killed between caching the id and enqueueing the job.
THEOREM ToldJobsAreListed == MSpec => []ToldIsListed
<1>1. IInv => ToldIsListed
  BY DEF IInv, WasListed, ToldIsListed
<1> QED
  BY <1>1, InitHolds, NextHolds, PTL DEF MSpec

-----------------------------------------------------------------------------
(***************************************************************************)
(* OrdersHonoured for any number of agents and any orders. What a look-up  *)
(* found is true for as long as no other order is committed, and the rows  *)
(* it found stay whatever happens; of two rows that a look-up cannot tell  *)
(* apart, one was inserted by a transaction that overlapped another.       *)
(***************************************************************************)

GSteps == {"source", "insert", "note", "link", "commit"}

Working ==
    [step : GSteps, order : {Orders[o] : o \in DOMAIN Orders}, number : Nat,
     source : Nat \cup {Null}, newSource : BOOLEAN, note : Nat \cup {Null},
     newNote : BOOLEAN, linked : BOOLEAN, alone : BOOLEAN]

Active(p) == agent[p] # Asleep

\* Ids are drawn once: whoever works has two that no row has.
IdsOK ==
    /\ taken \in Nat
    /\ agent \in [Agents -> {Asleep} \cup Working]
    /\ DOMAIN sources \subseteq Nat /\ DOMAIN notes \subseteq Nat
    /\ \A s \in DOMAIN sources : s <= 2 * taken + 1
    /\ \A n \in DOMAIN notes : n <= 2 * taken + 1
    /\ \A p \in Agents : Active(p) =>
          /\ agent[p].number <= taken
          /\ SourceId(p) \notin DOMAIN sources /\ NoteId(p) \notin DOMAIN notes
    /\ \A p, q \in Agents : Active(p) /\ Active(q) /\ p # q =>
          agent[p].number # agent[q].number

\* A row of a source that the look-up of an order finds, and one of an annotation.
Fits(row, order) ==
    /\ row.user = order.user
    /\ order.model # Null => row.model = order.model

Same(row, order, source) ==
    /\ row.content = order.content
    /\ row.end = order.end
    /\ row.source = source

\* What an agent with the source of record r has learnt of sources src.
SourceKnown(r, src) ==
    /\ r.step \in {"source", "insert"} => ~ r.newSource
    /\ r.alone /\ (r.step = "insert" \/ r.newSource) =>
          \A s \in DOMAIN src : ~ Fits(src[s], r.order)
    /\ r.newSource =>
          /\ r.source = 2 * r.number
          /\ r.order.user # Null => \A s \in DOMAIN src : src[s].user # r.order.user
    /\ r.step \in {"note", "link", "commit"} /\ ~ r.newSource =>
          r.source \in DOMAIN src /\ Fits(src[r.source], r.order)

\* What it has learnt of annotations nts and of links lks.
NoteKnown(r, nts, lks) ==
    /\ r.step \in {"source", "insert", "note"} => r.note = Null /\ ~ r.newNote
    /\ r.step = "link" => r.order.content # Null
    /\ r.step \in {"link", "commit"} => (r.order.content # Null => r.note # Null)
    /\ r.newNote =>
          /\ r.note = 2 * r.number + 1
          /\ r.alone => \A n \in DOMAIN nts : ~ Same(nts[n], r.order, r.source)
    /\ r.note # Null /\ ~ r.newNote =>
          r.note \in DOMAIN nts /\ Same(nts[r.note], r.order, r.source)
    /\ r.step = "commit" /\ r.alone /\ r.note # Null =>
          (r.linked <=> <<r.note, r.order.on>> \in lks)

\* Nobody else waits to insert the user whom one agent has inserted.
Waits ==
    \A p, q \in Agents :
        /\ Active(p) /\ Active(q) /\ p # q /\ agent[p].newSource /\ agent[q].newSource
        => agent[p].order.user # agent[q].order.user \/ agent[p].order.user = Null

\* A user has one source; of two rows that look alike one was inserted in a race.
RowsOK ==
    /\ \A s, t \in DOMAIN sources :
          s # t /\ sources[s].user = sources[t].user /\ sources[s].user # Null => FALSE
    /\ \A s, t \in DOMAIN sources :
          /\ s # t /\ sources[s].user = sources[t].user
          /\ sources[s].model = sources[t].model /\ sources[s].model # Null
          => s \in raced \/ t \in raced
    /\ \A m, n \in DOMAIN notes :
          /\ m # n /\ notes[m].content = notes[n].content
          /\ notes[m].end = notes[n].end /\ notes[m].source = notes[n].source
          => m \in raced \/ n \in raced

\* How an order ended, with the rows this is about.
Honoured(e, src, nts, lks, rcd) ==
    IF ~ e.error
    THEN /\ e.source \in DOMAIN src /\ src[e.source].user = e.order.user
         /\ e.order.model \in {Null, src[e.source].model}
         /\ e.order.content # Null =>
               /\ <<e.note, e.order.on>> \in lks
               /\ e.note \in DOMAIN nts
               /\ nts[e.note].content = e.order.content
               /\ nts[e.note].end = e.order.end
               /\ nts[e.note].source = e.source
    ELSE \/ ~ e.alone
         \/ e.step \in {"source", "note"} /\ e.found \cap rcd # {}
         \/ e.step = "source" /\ e.order.model = Null /\ e.order.user = Null
         \/ /\ e.step = "commit"
            /\ \E n \in e.found : n \in DOMAIN nts /\ nts[n].end # e.order.end

GInv ==
    /\ IdsOK
    /\ \A p \in Agents : Active(p) => SourceKnown(agent[p], sources)
    /\ \A p \in Agents : Active(p) => NoteKnown(agent[p], notes, links)
    /\ Waits
    /\ RowsOK
    /\ \A e \in ended : Honoured(e, sources, notes, links, raced)

-----------------------------------------------------------------------------

\* The invariant holds at the start.
LEMMA GInitHolds == GInit => GInv
<1> SUFFICES ASSUME GInit PROVE GInv
  OBVIOUS
<1> USE OrdersAssumption DEF GInit
<1>1. IdsOK
  BY DEF IdsOK, Active, Asleep
<1>2. Waits /\ RowsOK
  BY DEF Waits, RowsOK, Active, Asleep
<1> QED BY <1>1, <1>2 DEF GInv, Active

\* More than one is two.
LEMMA TwoFound ==
    ASSUME NEW S, Cardinality(S) > 1
    PROVE  \E x, y \in S : x # y
<1> SUFFICES ASSUME \A x, y \in S : x = y PROVE FALSE
  OBVIOUS
<1>1. CASE S = {}
  BY <1>1, FS_EmptySet
<1>2. CASE S # {}
  <2>1. PICK x \in S : S = {x}
    BY <1>2
  <2> QED BY <2>1, FS_Singleton
<1> QED BY <1>1, <1>2

\* Of two agents that work, none has the other's record, and none that works sleeps.
LEMMA ActiveRecord ==
    ASSUME IdsOK, NEW p \in Agents
    PROVE  /\ Active(p) <=> agent[p].step # "asleep"
           /\ Active(p) => agent[p] \in Working
BY DEF IdsOK, Active, Asleep, Working, GSteps

\* A step in which agent p goes from one record of its work to the next, and no more.
LEMMA ProceedKeeps ==
    ASSUME GInv, NEW p \in Agents, Active(p), NEW r \in Working, Proceed(p, r),
           r.number = agent[p].number,
           SourceKnown(r, sources), NoteKnown(r, notes, links),
           r.newSource => agent[p].newSource
               \/ \A q \in Agents \ {p} : Active(q) /\ agent[q].newSource =>
                      agent[q].order.user # r.order.user \/ r.order.user = Null
           , r.order = agent[p].order
    PROVE  GInv'
<1>1. /\ agent' = [agent EXCEPT ![p] = r] /\ agent'[p] = r /\ r # Asleep
      /\ \A q \in Agents \ {p} : agent'[q] = agent[q]
      /\ agent' \in [Agents -> {Asleep} \cup Working]
  BY DEF Proceed, GInv, IdsOK, Working, Asleep, GSteps
<1>2. UNCHANGED <<sources, notes, links, raced, ended, taken>>
  BY DEF Proceed
<1>3. \A q \in Agents : Active(q)' <=> Active(q)
  BY <1>1 DEF Active
<1>4. \A q \in Agents : Active(q) => agent'[q].number = agent[q].number
  BY <1>1
<1>5. IdsOK'
  BY <1>1, <1>2, <1>3, <1>4 DEF GInv, IdsOK, SourceId, NoteId
<1>6. Waits'
  BY <1>1, <1>3 DEF GInv, Waits
<1>7. RowsOK'
  BY <1>2 DEF GInv, RowsOK
<1> QED BY <1>1, <1>2, <1>3, <1>5, <1>6, <1>7 DEF GInv

\* A step in which agent p ends its work, with an explained error or with none.
LEMMA EndKeeps ==
    ASSUME GInv, NEW p \in Agents, agent' = [agent EXCEPT ![p] = Asleep],
           UNCHANGED <<sources, notes, links, raced, taken>>, NEW e,
           ended' \subseteq ended \cup {e}, e \in ended' => Honoured(e, sources, notes, links, raced)
    PROVE  GInv'
<1>1. /\ agent'[p] = Asleep
      /\ \A q \in Agents \ {p} : agent'[q] = agent[q]
      /\ agent' \in [Agents -> {Asleep} \cup Working]
  BY DEF GInv, IdsOK
<1>3. \A q \in Agents : Active(q)' => Active(q) /\ q # p
  BY <1>1 DEF Active
<1>5. IdsOK'
  BY <1>1, <1>3 DEF GInv, IdsOK, SourceId, NoteId
<1>6. Waits'
  BY <1>1, <1>3 DEF GInv, Waits
<1>7. RowsOK'
  BY DEF GInv, RowsOK
<1>8. \A x \in ended' : Honoured(x, sources, notes, links, raced)
  BY DEF GInv
<1> QED BY <1>1, <1>3, <1>5, <1>6, <1>7, <1>8 DEF GInv


\* Taking an order draws ids that no row has.
LEMMA TakeKeeps ==
    ASSUME GInv, NEW p \in Agents, NEW o \in DOMAIN Orders, Take(p, o)
    PROVE  GInv'
<1> DEFINE r == [step |-> "source", order |-> Orders[o], number |-> taken + 1,
                 source |-> Null, newSource |-> FALSE, note |-> Null, newNote |-> FALSE,
                 linked |-> FALSE, alone |-> TRUE]
<1>1. /\ agent' = [agent EXCEPT ![p] = r] /\ agent[p] = Asleep /\ taken' = taken + 1
      /\ UNCHANGED <<sources, notes, links, raced, ended>>
  BY DEF Take
<1>2. r \in Working /\ r # Asleep
  BY DEF GInv, IdsOK, Working, GSteps, Asleep
<1> HIDE DEF r
<1>3. /\ agent'[p] = r
      /\ \A q \in Agents \ {p} : agent'[q] = agent[q]
      /\ agent' \in [Agents -> {Asleep} \cup Working]
  BY <1>1, <1>2 DEF GInv, IdsOK
<1>4. /\ r.number = taken + 1 /\ r.newSource = FALSE /\ r.newNote = FALSE
      /\ r.step = "source" /\ r.note = Null
  BY DEF r
<1>5. IdsOK'
  <2>1. taken' \in Nat /\ taken' = taken + 1 /\ taken \in Nat
    BY <1>1 DEF GInv, IdsOK
  <2>2. /\ \A s \in DOMAIN sources : s <= 2 * taken + 1 /\ s \in Nat
        /\ \A n \in DOMAIN notes : n <= 2 * taken + 1 /\ n \in Nat
    BY DEF GInv, IdsOK
  <2>3. \A q \in Agents : Active(q)' =>
           /\ agent'[q].number <= taken'
           /\ SourceId(q)' \notin DOMAIN sources /\ NoteId(q)' \notin DOMAIN notes
    <3> SUFFICES ASSUME NEW q \in Agents, Active(q)'
                 PROVE  /\ agent'[q].number <= taken'
                        /\ SourceId(q)' \notin DOMAIN sources
                        /\ NoteId(q)' \notin DOMAIN notes
      OBVIOUS
    <3>1. CASE q = p
      <4>1. agent'[q].number = taken + 1
        BY <3>1, <1>3, <1>4
      <4>2. SourceId(q)' = 2 * (taken + 1) /\ NoteId(q)' = 2 * (taken + 1) + 1
        BY <4>1 DEF SourceId, NoteId
      <4> QED BY <4>1, <4>2, <2>1, <2>2
    <3>2. CASE q # p
      <4>1. agent'[q] = agent[q] /\ Active(q)
        BY <3>2, <1>3 DEF Active
      <4>2. agent[q].number \in Nat /\ agent[q].number <= taken
        BY <4>1, ActiveRecord DEF GInv, IdsOK, Working
      <4> QED BY <4>1, <4>2, <2>1 DEF GInv, IdsOK, SourceId, NoteId
    <3> QED BY <3>1, <3>2
  <2>4. \A x, y \in Agents : Active(x)' /\ Active(y)' /\ x # y =>
           agent'[x].number # agent'[y].number
    <3> SUFFICES ASSUME NEW x \in Agents, NEW y \in Agents, Active(x)', Active(y)', x # y
                 PROVE  agent'[x].number # agent'[y].number
      OBVIOUS
    <3>1. \A z \in Agents \ {p} : Active(z)' =>
             agent'[z].number = agent[z].number /\ agent[z].number <= taken
                /\ agent[z].number \in Nat /\ Active(z)
      BY <1>3, ActiveRecord DEF GInv, IdsOK, Working, Active
    <3>2. x # p /\ y # p => agent'[x].number # agent'[y].number
      BY <3>1 DEF GInv, IdsOK
    <3> QED BY <3>1, <3>2, <1>3, <1>4, <2>1
  <2> QED BY <1>1, <1>3, <2>1, <2>2, <2>3, <2>4 DEF IdsOK
<1>6. Waits'
  BY <1>3, <1>4 DEF GInv, Waits, Active
<1>7. RowsOK'
  BY <1>1 DEF GInv, RowsOK
<1>8. SourceKnown(r, sources) /\ NoteKnown(r, notes, links)
  BY <1>4 DEF SourceKnown, NoteKnown
<1>9. \A q \in Agents : Active(q)' => Active(q) \/ q = p
  BY <1>3 DEF Active
<1> QED BY <1>1, <1>3, <1>5, <1>6, <1>7, <1>8, <1>9 DEF GInv

\* The facts that every step of agent p starts from.
LEMMA AtWork ==
    ASSUME GInv, NEW p \in Agents, agent[p].step # "asleep"
    PROVE  /\ Active(p) /\ agent[p] \in Working
           /\ SourceKnown(agent[p], sources) /\ NoteKnown(agent[p], notes, links)
BY ActiveRecord DEF GInv

\* A look-up of the source finds one row, none, or rows that raced.
LEMMA FindSourceKeeps ==
    ASSUME GInv, NEW p \in Agents, FindSource(p)
    PROVE  GInv'
<1> DEFINE found == SourcesFor(agent[p].order)
<1>1. agent[p].step = "source"
  BY DEF FindSource
<1>2. /\ Active(p) /\ agent[p] \in Working
      /\ SourceKnown(agent[p], sources) /\ NoteKnown(agent[p], notes, links)
  BY <1>1, AtWork
<1>3. \A s \in DOMAIN sources : s \in found <=> Fits(sources[s], agent[p].order)
  BY DEF SourcesFor, Fits
<1>4. found \subseteq DOMAIN sources /\ DOMAIN sources \subseteq Nat
  BY DEF SourcesFor, GInv, IdsOK
<1>5. /\ agent[p].newSource = FALSE /\ agent[p].newNote = FALSE /\ agent[p].note = Null
  BY <1>1, <1>2 DEF SourceKnown, NoteKnown, Working
<1>6. ASSUME found = {}, Proceed(p, [agent[p] EXCEPT !.step = "insert"]) PROVE GInv'
  <2> DEFINE r == [agent[p] EXCEPT !.step = "insert"]
  <2>1. /\ r \in Working /\ r.number = agent[p].number /\ r.order = agent[p].order
        /\ r.step = "insert" /\ r.newSource = FALSE /\ r.newNote = FALSE /\ r.note = Null
    BY <1>2, <1>5 DEF Working, GSteps
  <2> HIDE DEF r
  <2>2. SourceKnown(r, sources)
    BY <2>1, <1>6, <1>3 DEF SourceKnown
  <2>3. NoteKnown(r, notes, links)
    BY <2>1 DEF NoteKnown
  <2>4. Proceed(p, r)
    BY <1>6 DEF r
  <2> QED BY <1>2, <2>1, <2>2, <2>3, <2>4, ProceedKeeps
<1>7. ASSUME NEW s \in found, Proceed(p, [agent[p] EXCEPT !.step = "note", !.source = s])
      PROVE  GInv'
  <2> DEFINE r == [agent[p] EXCEPT !.step = "note", !.source = s]
  <2>1. /\ r \in Working /\ r.number = agent[p].number /\ r.order = agent[p].order
        /\ r.step = "note" /\ r.newSource = FALSE /\ r.newNote = FALSE /\ r.note = Null
        /\ r.source = s
    BY <1>2, <1>4, <1>5 DEF Working, GSteps
  <2> HIDE DEF r
  <2>2. SourceKnown(r, sources)
    BY <2>1, <1>3, <1>4 DEF SourceKnown
  <2>3. NoteKnown(r, notes, links)
    BY <2>1 DEF NoteKnown
  <2>4. Proceed(p, r)
    BY <1>7 DEF r
  <2> QED BY <1>2, <2>1, <2>2, <2>3, <2>4, ProceedKeeps
<1>8. ASSUME Cardinality(found) > 1, Fail(p, found) PROVE GInv'
  <2> DEFINE e == [order |-> agent[p].order, step |-> agent[p].step,
                   error |-> TRUE, alone |-> agent[p].alone, found |-> found]
  <2>1. PICK s, t \in found : s # t
    BY <1>8, TwoFound
  <2>2. Fits(sources[s], agent[p].order) /\ Fits(sources[t], agent[p].order)
    BY <1>3, <1>4
  <2>3. agent[p].order.user = Null
    BY <2>1, <2>2, <1>4 DEF GInv, RowsOK, Fits
  <2>4. agent[p].order.model # Null => s \in raced \/ t \in raced
    BY <2>1, <2>2, <1>4 DEF GInv, RowsOK, Fits
  <2>5. /\ e.error = TRUE /\ e.step = "source" /\ e.found = found
        /\ e.order = agent[p].order
    BY <1>1
  <2>6. ended' = ended \cup {e} /\ agent' = [agent EXCEPT ![p] = Asleep]
        /\ UNCHANGED <<sources, notes, links, raced, taken>>
    BY <1>8 DEF Fail
  <2> HIDE DEF e, found
  <2>7. Honoured(e, sources, notes, links, raced)
    BY <2>1, <2>3, <2>4, <2>5 DEF Honoured
  <2> QED BY <2>6, <2>7, EndKeeps
<1> QED BY <1>6, <1>7, <1>8 DEF FindSource

\* A user that was not there and is there now was inserted by another order.
LEMMA InsertSourceKeeps ==
    ASSUME GInv, NEW p \in Agents, InsertSource(p)
    PROVE  GInv'
<1> DEFINE user == agent[p].order.user
<1>1. agent[p].step = "insert"
  BY DEF InsertSource
<1>2. /\ Active(p) /\ agent[p] \in Working
      /\ SourceKnown(agent[p], sources) /\ NoteKnown(agent[p], notes, links)
  BY <1>1, AtWork
<1>3. /\ agent[p].newSource = FALSE /\ agent[p].newNote = FALSE /\ agent[p].note = Null
  BY <1>1, <1>2 DEF SourceKnown, NoteKnown, Working
<1>4. user # Null => agent[p].order.model = Null
  BY <1>2, OrdersAssumption DEF Working
<1>5. agent[p].alone => \A s \in DOMAIN sources : ~ Fits(sources[s], agent[p].order)
  BY <1>1, <1>2 DEF SourceKnown
<1>6. ASSUME user # Null, NEW s \in DOMAIN sources, sources[s].user = user, Fail(p, {})
      PROVE  GInv'
  <2> DEFINE e == [order |-> agent[p].order, step |-> agent[p].step,
                   error |-> TRUE, alone |-> agent[p].alone, found |-> {}]
  <2>1. ~ agent[p].alone
    BY <1>4, <1>5, <1>6 DEF Fits
  <2>2. ended' = ended \cup {e} /\ agent' = [agent EXCEPT ![p] = Asleep]
        /\ UNCHANGED <<sources, notes, links, raced, taken>>
    BY <1>6 DEF Fail
  <2>3. Honoured(e, sources, notes, links, raced)
    BY <2>1 DEF Honoured
  <2> HIDE DEF e
  <2> QED BY <2>2, <2>3, EndKeeps
<1>7. ASSUME ~ (user # Null /\ \E s \in DOMAIN sources : sources[s].user = user),
             Proceed(p, [agent[p] EXCEPT !.step = "note", !.source = SourceId(p),
                                         !.newSource = TRUE])
      PROVE  GInv'
  <2> DEFINE r == [agent[p] EXCEPT !.step = "note", !.source = SourceId(p),
                                   !.newSource = TRUE]
  <2>1. /\ r \in Working /\ r.number = agent[p].number /\ r.order = agent[p].order
        /\ r.step = "note" /\ r.newSource = TRUE /\ r.newNote = FALSE /\ r.note = Null
        /\ r.source = 2 * r.number /\ r.alone = agent[p].alone
    <3>1. agent[p].number \in Nat /\ SourceId(p) = 2 * agent[p].number /\ SourceId(p) \in Nat
      BY <1>2 DEF Working, SourceId
    <3> QED BY <1>2, <1>3, <3>1 DEF Working, GSteps
  <2> HIDE DEF r
  <2>2. SourceKnown(r, sources)
    BY <2>1, <1>5, <1>7 DEF SourceKnown
  <2>3. NoteKnown(r, notes, links)
    BY <2>1 DEF NoteKnown
  <2>4. Proceed(p, r)
    BY <1>7 DEF r
  <2>5. \A q \in Agents \ {p} : Active(q) /\ agent[q].newSource =>
           agent[q].order.user # r.order.user \/ r.order.user = Null
    BY SMTT(30), <2>1 DEF InsertSource, Active
  <2> QED BY <1>2, <2>1, <2>2, <2>3, <2>4, <2>5, ProceedKeeps
<1> QED BY <1>6, <1>7 DEF InsertSource

\* A look-up of the annotation finds one row, none, or rows that raced.
LEMMA FindNoteKeeps ==
    ASSUME GInv, NEW p \in Agents, FindNote(p)
    PROVE  GInv'
<1> DEFINE order == agent[p].order
           found == {n \in DOMAIN notes : SameNote(n, order, agent[p].source)}
<1>1. agent[p].step = "note"
  BY DEF FindNote
<1>2. /\ Active(p) /\ agent[p] \in Working
      /\ SourceKnown(agent[p], sources) /\ NoteKnown(agent[p], notes, links)
  BY <1>1, AtWork
<1>3. \A n \in DOMAIN notes : n \in found <=> Same(notes[n], order, agent[p].source)
  BY DEF SameNote, Same
<1>4. found \subseteq DOMAIN notes /\ DOMAIN notes \subseteq Nat /\ Null \notin Nat
  BY OrdersAssumption DEF GInv, IdsOK
<1>5. agent[p].newNote = FALSE /\ agent[p].note = Null
  BY <1>1, <1>2 DEF NoteKnown, Working
<1> HIDE DEF found
<1>6. ASSUME order.content = Null, Proceed(p, [agent[p] EXCEPT !.step = "commit"])
      PROVE  GInv'
  <2> DEFINE r == [agent[p] EXCEPT !.step = "commit"]
  <2>1. /\ r \in Working /\ r.number = agent[p].number /\ r.order = order
        /\ r.step = "commit" /\ r.newSource = agent[p].newSource /\ r.newNote = FALSE
        /\ r.note = Null /\ r.alone = agent[p].alone /\ r.source = agent[p].source
    BY <1>2, <1>5 DEF Working, GSteps
  <2> HIDE DEF r
  <2>2. SourceKnown(r, sources)
    BY <2>1, <1>1, <1>2 DEF SourceKnown
  <2>3. NoteKnown(r, notes, links)
    BY <2>1, <1>6 DEF NoteKnown
  <2>4. Proceed(p, r)
    BY <1>6 DEF r
  <2> QED BY <1>2, <2>1, <2>2, <2>3, <2>4, ProceedKeeps
<1>7. ASSUME order.content # Null, found = {},
             Proceed(p, [agent[p] EXCEPT !.step = "link", !.note = NoteId(p),
                                         !.newNote = TRUE])
      PROVE  GInv'
  <2> DEFINE r == [agent[p] EXCEPT !.step = "link", !.note = NoteId(p), !.newNote = TRUE]
  <2>1. /\ r \in Working /\ r.number = agent[p].number /\ r.order = order
        /\ r.step = "link" /\ r.newSource = agent[p].newSource /\ r.newNote = TRUE
        /\ r.note = 2 * r.number + 1 /\ r.alone = agent[p].alone
        /\ r.source = agent[p].source /\ r.note \in Nat
    <3>1. agent[p].number \in Nat /\ NoteId(p) = 2 * agent[p].number + 1 /\ NoteId(p) \in Nat
      BY <1>2 DEF Working, NoteId
    <3> QED BY <1>2, <1>5, <3>1 DEF Working, GSteps
  <2> HIDE DEF r
  <2>2. SourceKnown(r, sources)
    BY <2>1, <1>1, <1>2 DEF SourceKnown
  <2>3. NoteKnown(r, notes, links)
    BY <2>1, <1>3, <1>4, <1>7 DEF NoteKnown
  <2>4. Proceed(p, r)
    BY <1>7 DEF r
  <2> QED BY <1>2, <2>1, <2>2, <2>3, <2>4, ProceedKeeps
<1>8. ASSUME order.content # Null, NEW n \in found,
             Proceed(p, [agent[p] EXCEPT !.step = "link", !.note = n])
      PROVE  GInv'
  <2> DEFINE r == [agent[p] EXCEPT !.step = "link", !.note = n]
  <2>1. /\ r \in Working /\ r.number = agent[p].number /\ r.order = order
        /\ r.step = "link" /\ r.newSource = agent[p].newSource /\ r.newNote = FALSE
        /\ r.note = n /\ r.alone = agent[p].alone
        /\ r.source = agent[p].source
    BY <1>2, <1>4, <1>5 DEF Working, GSteps
  <2> HIDE DEF r
  <2>2. SourceKnown(r, sources)
    BY <2>1, <1>1, <1>2 DEF SourceKnown
  <2>3. NoteKnown(r, notes, links)
    BY <2>1, <1>3, <1>4, <1>8 DEF NoteKnown
  <2>4. Proceed(p, r)
    BY <1>8 DEF r
  <2> QED BY <1>2, <2>1, <2>2, <2>3, <2>4, ProceedKeeps
<1>9. ASSUME Cardinality(found) > 1, Fail(p, found) PROVE GInv'
  <2> DEFINE e == [order |-> agent[p].order, step |-> agent[p].step,
                   error |-> TRUE, alone |-> agent[p].alone, found |-> found]
  <2>1. PICK m, n \in found : m # n
    BY <1>9, TwoFound
  <2>2. Same(notes[m], order, agent[p].source) /\ Same(notes[n], order, agent[p].source)
    BY <1>3, <1>4
  <2>3. m \in raced \/ n \in raced
    BY <2>1, <2>2, <1>4 DEF GInv, RowsOK, Same
  <2>5. e.error = TRUE /\ e.step = "note" /\ e.found = found
    BY <1>1
  <2>6. ended' = ended \cup {e} /\ agent' = [agent EXCEPT ![p] = Asleep]
        /\ UNCHANGED <<sources, notes, links, raced, taken>>
    BY <1>9 DEF Fail
  <2> HIDE DEF e
  <2>7. Honoured(e, sources, notes, links, raced)
    BY <2>1, <2>3, <2>5 DEF Honoured
  <2> QED BY <2>6, <2>7, EndKeeps
<1> QED BY <1>6, <1>7, <1>8, <1>9 DEF FindNote, found

\* Whether the annotation is linked is known until another order is committed.
LEMMA FindLinkKeeps ==
    ASSUME GInv, NEW p \in Agents, FindLink(p)
    PROVE  GInv'
<1> DEFINE seen == <<agent[p].note, agent[p].order.on>> \in links
           r == [agent[p] EXCEPT !.step = "commit", !.linked = seen]
<1>1. agent[p].step = "link"
  BY DEF FindLink
<1>2. /\ Active(p) /\ agent[p] \in Working
      /\ SourceKnown(agent[p], sources) /\ NoteKnown(agent[p], notes, links)
  BY <1>1, AtWork
<1>3. /\ r \in Working /\ r.number = agent[p].number /\ r.order = agent[p].order
      /\ r.step = "commit" /\ r.newSource = agent[p].newSource
      /\ r.newNote = agent[p].newNote /\ r.note = agent[p].note
      /\ r.alone = agent[p].alone /\ r.source = agent[p].source
      /\ r.linked = seen
  <2>1. seen \in BOOLEAN
    OBVIOUS
  <2> HIDE DEF seen
  <2> QED BY <1>2, <2>1 DEF Working, GSteps
<1>4. Proceed(p, r)
  BY DEF FindLink
<1> HIDE DEF r
<1>5. SourceKnown(r, sources)
  BY <1>1, <1>2, <1>3 DEF SourceKnown
<1>6. NoteKnown(r, notes, links)
  BY <1>1, <1>2, <1>3 DEF NoteKnown
<1> QED BY <1>2, <1>3, <1>4, <1>5, <1>6, ProceedKeeps


\* Rows that others have found stay, whatever a commit adds.
LEMMA WithKeeps ==
    ASSUME NEW rows, NEW id, NEW row
    PROVE  /\ DOMAIN With(rows, id, row) = DOMAIN rows \cup {id}
           /\ \A i \in DOMAIN rows : With(rows, id, row)[i] = rows[i]
           /\ id \notin DOMAIN rows => With(rows, id, row)[id] = row
BY DEF With

\* An agent that learns of another's commit only that it is not alone keeps what it knows
\* of sources and annotations that are there.
LEMMA KnownLasts ==
    ASSUME NEW r, NEW src, NEW nts, NEW lks, SourceKnown(r, src), NoteKnown(r, nts, lks),
           NEW a, ~ a.alone, a.step = r.step, a.order = r.order, a.number = r.number,
           a.source = r.source, a.newSource = r.newSource, a.note = r.note,
           a.newNote = r.newNote,
           NEW src2, DOMAIN src \subseteq DOMAIN src2,
           \A s \in DOMAIN src : src2[s] = src[s],
           a.newSource /\ a.order.user # Null =>
               \A s \in DOMAIN src2 \ DOMAIN src : src2[s].user # a.order.user,
           NEW nts2, DOMAIN nts \subseteq DOMAIN nts2,
           \A n \in DOMAIN nts : nts2[n] = nts[n], NEW lks2
    PROVE  SourceKnown(a, src2) /\ NoteKnown(a, nts2, lks2)
<1>1. SourceKnown(a, src2)
  BY DEF SourceKnown
<1>2. NoteKnown(a, nts2, lks2)
  BY DEF NoteKnown
<1> QED BY <1>1, <1>2

\* How an order ended stays explained when rows, links and races are added.
LEMMA HonouredLasts ==
    ASSUME NEW e, NEW src, NEW nts, NEW lks, NEW rcd, Honoured(e, src, nts, lks, rcd),
           NEW src2, DOMAIN src \subseteq DOMAIN src2,
           \A s \in DOMAIN src : src2[s] = src[s],
           NEW nts2, DOMAIN nts \subseteq DOMAIN nts2,
           \A n \in DOMAIN nts : nts2[n] = nts[n],
           NEW lks2, lks \subseteq lks2, NEW rcd2, rcd \subseteq rcd2
    PROVE  Honoured(e, src2, nts2, lks2, rcd2)
<1>1. CASE e.error
  BY <1>1 DEF Honoured
<1>2. CASE ~ e.error
  BY <1>2 DEF Honoured
<1> QED BY <1>1, <1>2

\* The commit of an order that nothing conflicts with.
Committed(p, r) ==
    /\ sources' = IF r.newSource
                  THEN With(sources, r.source, [user |-> r.order.user, model |-> r.order.model])
                  ELSE sources
    /\ notes' = IF r.newNote
                THEN With(notes, r.note,
                          [content |-> r.order.content, end |-> r.order.end,
                           prior |-> r.order.prior, source |-> r.source])
                ELSE notes
    /\ links' = IF r.note = Null THEN links ELSE links \cup {<<r.note, r.order.on>>}
    /\ raced' = IF r.alone THEN raced
                ELSE raced \cup ((IF r.newSource THEN {r.source} ELSE {})
                                 \cup (IF r.newNote THEN {r.note} ELSE {}))
    /\ ended' = ended \cup {[order |-> r.order, error |-> FALSE, note |-> r.note,
                             source |-> r.source]}
    /\ agent' = [q \in Agents |->
           IF q = p \/ agent[q] = Asleep THEN Asleep
           ELSE [agent[q] EXCEPT !.alone = FALSE]]
    /\ UNCHANGED taken

\* A commit adds rows that the look-ups of an agent that is alone did not find.
LEMMA CommittedKeeps ==
    ASSUME GInv, NEW p \in Agents, agent[p].step = "commit", Committed(p, agent[p])
    PROVE  GInv'
<1> DEFINE r == agent[p]
           srow == [user |-> r.order.user, model |-> r.order.model]
           nrow == [content |-> r.order.content, end |-> r.order.end,
                    prior |-> r.order.prior, source |-> r.source]
<1>1. /\ Active(p) /\ r \in Working
      /\ SourceKnown(r, sources) /\ NoteKnown(r, notes, links)
  BY AtWork
<1>2. r.number \in Nat /\ r.step = "commit" /\ Null \notin Nat
  BY <1>1, OrdersAssumption DEF Working
<1>3. /\ r.newSource => r.source = 2 * r.number /\ r.source \in Nat
                        /\ r.source \notin DOMAIN sources /\ r.source <= 2 * taken + 1
      /\ r.newNote => r.note = 2 * r.number + 1 /\ r.note \in Nat
                      /\ r.note \notin DOMAIN notes /\ r.note <= 2 * taken + 1
  BY <1>1, <1>2 DEF SourceKnown, NoteKnown, GInv, IdsOK, SourceId, NoteId
<1>4. /\ DOMAIN sources' = DOMAIN sources \cup (IF r.newSource THEN {r.source} ELSE {})
      /\ \A s \in DOMAIN sources : sources'[s] = sources[s]
      /\ r.newSource => sources'[r.source] = srow
  <2>1. CASE r.newSource
    <3>1. sources' = With(sources, r.source, srow)
      BY <2>1 DEF Committed
    <3>2. /\ DOMAIN With(sources, r.source, srow) = DOMAIN sources \cup {r.source}
          /\ \A i \in DOMAIN sources : With(sources, r.source, srow)[i] = sources[i]
          /\ r.source \notin DOMAIN sources => With(sources, r.source, srow)[r.source] = srow
      BY WithKeeps
    <3> HIDE DEF srow, r
    <3> QED BY <2>1, <3>1, <3>2, <1>3
  <2>2. CASE ~ r.newSource
    BY <2>2 DEF Committed
  <2> QED BY <2>1, <2>2
<1>5. /\ DOMAIN notes' = DOMAIN notes \cup (IF r.newNote THEN {r.note} ELSE {})
      /\ \A n \in DOMAIN notes : notes'[n] = notes[n]
      /\ r.newNote => notes'[r.note] = nrow
  <2>1. CASE r.newNote
    <3>1. notes' = With(notes, r.note, nrow)
      BY <2>1 DEF Committed
    <3>2. /\ DOMAIN With(notes, r.note, nrow) = DOMAIN notes \cup {r.note}
          /\ \A i \in DOMAIN notes : With(notes, r.note, nrow)[i] = notes[i]
          /\ r.note \notin DOMAIN notes => With(notes, r.note, nrow)[r.note] = nrow
      BY WithKeeps
    <3> HIDE DEF nrow, r
    <3> QED BY <2>1, <3>1, <3>2, <1>3
  <2>2. CASE ~ r.newNote
    BY <2>2 DEF Committed
  <2> QED BY <2>1, <2>2
<1>6. /\ links \subseteq links' /\ raced \subseteq raced' /\ taken' = taken
      /\ ~ r.alone /\ r.newSource => r.source \in raced'
      /\ ~ r.alone /\ r.newNote => r.note \in raced'
      /\ r.note # Null => <<r.note, r.order.on>> \in links'
  BY DEF Committed
<1>7. /\ srow.user = r.order.user /\ srow.model = r.order.model
      /\ nrow.content = r.order.content /\ nrow.end = r.order.end /\ nrow.source = r.source
  OBVIOUS
<1>8. /\ agent'[p] = Asleep
      /\ \A q \in Agents \ {p} : ~ Active(q) => agent'[q] = Asleep
      /\ \A q \in Agents \ {p} : Active(q) => agent'[q] = [agent[q] EXCEPT !.alone = FALSE]
      /\ agent' = [q \in Agents |-> agent'[q]]
  BY DEF Committed, Active
<1>9. \A q \in Agents : Active(q)' => Active(q) /\ q # p
  BY <1>8 DEF Active
<1>10. ASSUME NEW q \in Agents, Active(q), q # p
       PROVE  /\ agent'[q] \in Working /\ ~ agent'[q].alone
              /\ agent'[q].step = agent[q].step /\ agent'[q].order = agent[q].order
              /\ agent'[q].number = agent[q].number /\ agent'[q].source = agent[q].source
              /\ agent'[q].newSource = agent[q].newSource
              /\ agent'[q].note = agent[q].note /\ agent'[q].newNote = agent[q].newNote
  <2>1. agent[q] \in Working
    BY <1>10, ActiveRecord DEF GInv
  <2>2. agent'[q] = [agent[q] EXCEPT !.alone = FALSE]
    BY <1>8, <1>10
  <2> QED BY <2>1, <2>2 DEF Working
<1> HIDE DEF srow, nrow
<1>11. IdsOK'
  <2>1. agent' \in [Agents -> {Asleep} \cup Working]
    BY <1>8, <1>10
  <2>2. /\ taken' \in Nat /\ DOMAIN sources' \subseteq Nat /\ DOMAIN notes' \subseteq Nat
        /\ \A s \in DOMAIN sources' : s <= 2 * taken' + 1
        /\ \A n \in DOMAIN notes' : n <= 2 * taken' + 1
    BY <1>3, <1>4, <1>5, <1>6 DEF GInv, IdsOK
  <2>3. ASSUME NEW q \in Agents, Active(q)'
        PROVE  /\ agent'[q].number <= taken'
               /\ SourceId(q)' \notin DOMAIN sources' /\ NoteId(q)' \notin DOMAIN notes'
    <3>1. Active(q) /\ q # p
      BY <2>3, <1>9
    <3>2. agent'[q].number = agent[q].number
      BY <3>1, <1>10
    <3>3. agent[q].number \in Nat /\ agent[q].number # r.number
      BY <3>1, <1>1, ActiveRecord DEF GInv, IdsOK, Working
    <3>4. /\ agent[q].number <= taken /\ 2 * agent[q].number \notin DOMAIN sources
          /\ 2 * agent[q].number + 1 \notin DOMAIN notes
      BY <3>1 DEF GInv, IdsOK, SourceId, NoteId
    <3>5. SourceId(q)' = 2 * agent[q].number /\ NoteId(q)' = 2 * agent[q].number + 1
      BY <3>2 DEF SourceId, NoteId
    <3> QED BY <3>2, <3>3, <3>4, <3>5, <1>2, <1>3, <1>4, <1>5, <1>6
  <2>4. \A x, y \in Agents : Active(x)' /\ Active(y)' /\ x # y =>
           agent'[x].number # agent'[y].number
    BY <1>9, <1>10 DEF GInv, IdsOK
  <2> QED BY <2>1, <2>2, <2>3, <2>4 DEF IdsOK
<1>12. Waits'
  BY <1>9, <1>10 DEF GInv, Waits
<1>13. ASSUME NEW q \in Agents, Active(q)'
       PROVE  SourceKnown(agent'[q], sources') /\ NoteKnown(agent'[q], notes', links')
  <2>1. Active(q) /\ q # p
    BY <1>13, <1>9
  <2>2. SourceKnown(agent[q], sources) /\ NoteKnown(agent[q], notes, links)
    BY <2>1 DEF GInv
  <2>3. agent[q].newSource /\ agent[q].order.user # Null =>
           \A s \in DOMAIN sources' \ DOMAIN sources : sources'[s].user # agent[q].order.user
    BY <2>1, <1>1, <1>4, <1>7 DEF GInv, Waits
  <2> HIDE DEF r
  <2> QED BY <2>1, <2>2, <2>3, <1>4, <1>5, <1>10, KnownLasts
<1>14. RowsOK'
  <2>1. ASSUME NEW s \in DOMAIN sources', NEW t \in DOMAIN sources', s # t,
               sources'[s].user = sources'[t].user
        PROVE  /\ sources'[s].user = Null
               /\ sources'[s].model = sources'[t].model /\ sources'[s].model # Null
                  => s \in raced' \/ t \in raced'
    <3>1. CASE s \in DOMAIN sources /\ t \in DOMAIN sources
      BY <3>1, <2>1, <1>4, <1>6 DEF GInv, RowsOK
    <3>2. ASSUME NEW x \in DOMAIN sources, r.newSource, sources[x].user = r.order.user
          PROVE  /\ r.order.user = Null
                 /\ sources[x].model = r.order.model => r.source \in raced'
      BY <3>2, <1>1, <1>2, <1>6 DEF SourceKnown, Fits
    <3> QED BY <3>1, <3>2, <2>1, <1>4, <1>7
  <2>2. ASSUME NEW m \in DOMAIN notes', NEW n \in DOMAIN notes', m # n,
               notes'[m].content = notes'[n].content, notes'[m].end = notes'[n].end,
               notes'[m].source = notes'[n].source
        PROVE  m \in raced' \/ n \in raced'
    <3>1. CASE m \in DOMAIN notes /\ n \in DOMAIN notes
      BY <3>1, <2>2, <1>5, <1>6 DEF GInv, RowsOK
    <3>2. ASSUME NEW x \in DOMAIN notes, r.newNote, Same(notes[x], r.order, r.source)
          PROVE  r.note \in raced'
      BY <3>2, <1>1, <1>6 DEF NoteKnown
    <3> QED BY <3>1, <3>2, <2>2, <1>5, <1>7 DEF Same
  <2> QED BY <2>1, <2>2 DEF RowsOK
<1>15. ASSUME NEW e \in ended' PROVE Honoured(e, sources', notes', links', raced')
  <2>1. CASE e \in ended
    <3>1. Honoured(e, sources, notes, links, raced)
      BY <2>1 DEF GInv
    <3> QED BY <3>1, <1>4, <1>5, <1>6, HonouredLasts
  <2>2. CASE e = [order |-> r.order, error |-> FALSE, note |-> r.note, source |-> r.source]
    <3>1. e.order = r.order /\ e.error = FALSE /\ e.note = r.note /\ e.source = r.source
      BY <2>2
    <3>2. /\ r.source \in DOMAIN sources' /\ sources'[r.source].user = r.order.user
          /\ r.order.model \in {Null, sources'[r.source].model}
      BY <1>1, <1>2, <1>4, <1>7 DEF SourceKnown, Fits
    <3>3. r.order.content # Null =>
             /\ <<r.note, r.order.on>> \in links' /\ r.note \in DOMAIN notes'
             /\ notes'[r.note].content = r.order.content
             /\ notes'[r.note].end = r.order.end /\ notes'[r.note].source = r.source
      BY <1>1, <1>2, <1>5, <1>6, <1>7 DEF NoteKnown, Same
    <3> QED BY <3>1, <3>2, <3>3 DEF Honoured
  <2> QED BY <1>15, <2>1, <2>2 DEF Committed
<1> QED BY <1>11, <1>12, <1>13, <1>14, <1>15 DEF GInv

\* Who was alone is refused only for an annotation that differs in its end.
LEMMA CommitOrderKeeps ==
    ASSUME GInv, NEW p \in Agents, CommitOrder(p)
    PROVE  GInv'
<1> DEFINE r == agent[p]
           conflicts == IF r.newNote THEN Conflicts(r.order, r.source) ELSE {}
           again == r.note # Null /\ ~ r.linked /\ <<r.note, r.order.on>> \in links
<1>1. r.step = "commit"
  BY DEF CommitOrder
<1>2. /\ Active(p) /\ r \in Working
      /\ SourceKnown(r, sources) /\ NoteKnown(r, notes, links)
  BY <1>1, AtWork
<1>3. ASSUME conflicts # {} \/ again, Fail(p, conflicts) PROVE GInv'
  <2> DEFINE e == [order |-> r.order, step |-> r.step, error |-> TRUE,
                   alone |-> r.alone, found |-> conflicts]
  <2>1. /\ e.order = r.order /\ e.step = "commit" /\ e.error = TRUE
        /\ e.alone = r.alone /\ e.found = conflicts
    BY <1>1
  <2>2. ended' = ended \cup {e} /\ agent' = [agent EXCEPT ![p] = Asleep]
        /\ UNCHANGED <<sources, notes, links, raced, taken>>
    BY <1>3 DEF Fail
  <2>3. r.alone => ~ again
    BY <1>1, <1>2 DEF NoteKnown
  <2>4. ASSUME r.alone, NEW n \in conflicts
        PROVE  n \in DOMAIN notes /\ notes[n].end # r.order.end
    <3>1. r.newNote /\ n \in Conflicts(r.order, r.source)
      BY <2>4
    <3>2. /\ n \in DOMAIN notes /\ notes[n].content = r.order.content
          /\ notes[n].source = r.source
      BY <3>1 DEF Conflicts
    <3> QED BY <3>1, <3>2, <2>4, <1>2 DEF NoteKnown, Same
  <2> HIDE DEF e, conflicts, again
  <2>5. Honoured(e, sources, notes, links, raced)
    BY <1>3, <2>1, <2>3, <2>4 DEF Honoured
  <2> QED BY <2>2, <2>5, EndKeeps
<1>4. ASSUME Committed(p, r) PROVE GInv'
  BY <1>1, <1>4, CommittedKeeps
<1> QED BY <1>3, <1>4 DEF CommitOrder, Committed

\* Every step keeps the invariant.
LEMMA GNextHolds == GInv /\ [GNext]_gvars => GInv'
<1> SUFFICES ASSUME GInv, [GNext]_gvars PROVE GInv'
  OBVIOUS
<1>1. ASSUME NEW p \in Agents, Drop(p) PROVE GInv'
  <2>1. \A e \in ended : Honoured(e, sources, notes, links, raced)
    BY DEF GInv
  <2>2. /\ agent' = [agent EXCEPT ![p] = Asleep]
        /\ UNCHANGED <<sources, notes, links, raced, ended, taken>>
    BY <1>1 DEF Drop
  <2>3. /\ ended' \subseteq ended \cup {Asleep}
        /\ Asleep \in ended' => Honoured(Asleep, sources, notes, links, raced)
    BY <2>1, <2>2
  <2> QED BY <2>2, <2>3, EndKeeps
<1>2. CASE UNCHANGED gvars
  BY <1>2 DEF gvars, GInv, IdsOK, Active, SourceId, NoteId, Waits, RowsOK
<1> QED
  BY <1>1, <1>2, TakeKeeps, FindSourceKeeps, InsertSourceKeeps, FindNoteKeeps,
     FindLinkKeeps, CommitOrderKeeps DEF GNext

\* GInv is an invariant.
LEMMA GInvariant == GSpec => []GInv
BY GInitHolds, GNextHolds, PTL DEF GSpec

\* OrdersHonoured for any agents, any orders and any interleaving of look-ups, inserts,
\* commits and kills.
THEOREM OrdersAreHonoured == GSpec => []OrdersHonoured
<1>1. GInv => OrdersHonoured
  BY DEF GInv, OrdersHonoured, Honoured
<1> QED BY <1>1, GInvariant, PTL

=============================================================================
