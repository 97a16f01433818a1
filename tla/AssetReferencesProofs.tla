------------------------- MODULE AssetReferencesProofs -------------------------
(***************************************************************************)
(* ReferencesLive and CopyMirrors for any number of web processes, assets  *)
(* and sensors.                                                            *)
(*                                                                         *)
(* Each request that is open is given what it may rely on: the references  *)
(* it is going to write were alive when it read them, so others deleted    *)
(* them since if they are not any more; and the rows it is going to leave  *)
(* alone do not refer to what it deletes, unless others wrote them since.  *)
(*                                                                         *)
(* A copy is followed call by call, up to a tree each asset of which has   *)
(* been copied once.                                                       *)
(***************************************************************************)
EXTENDS AssetReferences, FiniteSetTheorems, NaturalsInduction, TLAPS

Live == DOMAIN home \cup DOMAIN assets

\* What is alive, or may be referred to although it is not.
Known(p) == Live \cup race[p].lost \cup loose

ReferencesOf(row) == row.flex \cup row.shows

Types ==
    /\ DOMAIN assets \subseteq AssetId /\ IsFiniteSet(DOMAIN assets)
    /\ \A a \in DOMAIN assets : assets[a] \in AssetRow
    /\ DOMAIN home \subseteq SensorId
    /\ request = [p \in Web |-> request[p]]
    /\ race = [p \in Web |-> race[p]]

DeleteSensorOK(p) ==
    request[p].step = "deleteSensor" =>
        LET r == request[p] IN
        /\ r.of \in SensorId
        /\ \A a \in DOMAIN r.pruned :
              r.pruned[a] \subseteq (SensorId \cap Known(p)) \ {r.of}
        /\ \A a \in DOMAIN assets \ DOMAIN r.pruned :
              r.of \in assets[a].flex => r.of \in race[p].news \cup loose

PatchOK(p) ==
    request[p].step = "patch" =>
        LET r == request[p] IN
        /\ r.column \in {"flex", "shows", "parent"}
        /\ r.column = "flex" => r.value \subseteq SensorId \cap Known(p)
        /\ r.column = "shows" => r.value \subseteq AssetId \cap Known(p)
        /\ r.column = "parent" => r.value \in AssetId \cup {Nowhere}

DeleteAssetOK(p) ==
    request[p].step = "deleteAsset" =>
        LET r == request[p] IN
        /\ r.of \in AssetId
        /\ \A a \in DOMAIN r.pruned :
              r.pruned[a] \subseteq (AssetId \cap Known(p)) \ {r.of}
        /\ \A a \in DOMAIN assets \ DOMAIN r.pruned :
              a # r.of /\ r.of \in assets[a].shows => r.of \in race[p].news \cup loose

CallType == [from : AssetId, row : AssetRow, under : AssetId \cup {Nowhere}]

Copies(r) ==
    r = [step |-> r.step, of |-> r.of, account |-> r.account, under |-> r.under,
         calls |-> r.calls, made |-> r.made, origin |-> r.origin, hosts |-> r.hosts,
         map |-> r.map]

CopyOK(p) ==
    request[p].step \in {"copy", "resolved"} =>
        LET r == request[p] IN
        /\ Copies(r)
        /\ r.account \in Account \cup {Public}
        /\ r.calls \in Seq(CallType)
        /\ \A i \in 1..Len(r.calls) :
              ReferencesOf(r.calls[i].row) \subseteq Known(p) \cup DOMAIN r.hosts
        /\ DOMAIN r.made \subseteq AssetId /\ IsFiniteSet(DOMAIN r.made)
        /\ \A a \in DOMAIN r.made :
              /\ r.made[a] \in AssetRow
              /\ ReferencesOf(r.made[a]) \subseteq Known(p) \cup DOMAIN r.hosts
        /\ DOMAIN r.hosts \subseteq SensorId
        /\ \A s \in DOMAIN r.map : r.map[s] \in DOMAIN r.hosts

RequestOK(p) == DeleteSensorOK(p) /\ PatchOK(p) /\ DeleteAssetOK(p) /\ CopyOK(p)

IInv == Types /\ ReferencesLive /\ \A p \in Web : RequestOK(p)

-----------------------------------------------------------------------------

\* What a function laid over another is.
LEMMA Joined ==
    ASSUME NEW f, NEW g
    PROVE  /\ DOMAIN Over(f, g) = DOMAIN f \cup DOMAIN g
           /\ \A x \in DOMAIN f : Over(f, g)[x] = f[x]
           /\ \A x \in DOMAIN g \ DOMAIN f : Over(f, g)[x] = g[x]
BY DEF Over

\* A commit that deletes no more than it says, and writes no other references than it
\* says, leaves what the other requests rely on.
LEMMA CommitKeeps ==
    ASSUME IInv, NEW p \in Web, NEW deleted, NEW written, End(p, deleted, written),
           Types', Live \subseteq Live' \cup deleted, loose \subseteq loose',
           \A a \in DOMAIN assets' :
              \/ ReferencesOf(assets'[a]) \subseteq written
              \/ /\ a \in DOMAIN assets
                 /\ assets'[a].flex \subseteq assets[a].flex \cup written
                 /\ assets'[a].shows \subseteq assets[a].shows \cup written
    PROVE  \A q \in Web : RequestOK(q)'
<1> SUFFICES ASSUME NEW q \in Web PROVE RequestOK(q)'
    OBVIOUS
<1>1. CASE q = p \/ request[q] = Resting
    <2>1. request'[q] = Resting
        BY <1>1 DEF End, IInv, Types
    <2> QED
        BY <2>1 DEF Resting, RequestOK, DeleteSensorOK, PatchOK, DeleteAssetOK, CopyOK
<1>2. CASE q # p /\ request[q] # Resting
    <2>1. request'[q] = request[q]
        BY <1>2 DEF End, IInv, Types
    <2>2. /\ race'[q].lost = race[q].lost \cup deleted
          /\ race'[q].news = race[q].news \cup written
        BY <1>2 DEF End
    <2>3. Known(q) \subseteq Known(q)'
        BY <2>2 DEF Known
    <2>4. RequestOK(q)
        BY DEF IInv
    <2>5. DeleteSensorOK(q)'
        BY <2>1, <2>2, <2>3, <2>4 DEF RequestOK, DeleteSensorOK, ReferencesOf
    <2>6. PatchOK(q)'
        BY <2>1, <2>3, <2>4 DEF RequestOK, PatchOK
    <2>7. DeleteAssetOK(q)'
        BY <2>1, <2>2, <2>3, <2>4 DEF RequestOK, DeleteAssetOK, ReferencesOf
    <2>8. CopyOK(q)'
        BY <2>1, <2>3, <2>4 DEF RequestOK, CopyOK
    <2> QED
        BY <2>5, <2>6, <2>7, <2>8 DEF RequestOK
<1> QED
    BY <1>1, <1>2

\* So does a step of another request that does not commit.
LEMMA OthersKeep ==
    ASSUME IInv, NEW p \in Web, UNCHANGED <<assets, home, loose>>,
           \A q \in Web \ {p} : request'[q] = request[q] /\ race'[q] = race[q],
           NEW q \in Web, q # p
    PROVE  RequestOK(q)'
<1>1. /\ request'[q] = request[q] /\ race'[q] = race[q]
      /\ Known(q)' = Known(q) /\ RequestOK(q)
    BY DEF IInv, Known, Live
<1>2. DeleteSensorOK(q)'
    BY <1>1 DEF RequestOK, DeleteSensorOK
<1>3. PatchOK(q)'
    BY <1>1 DEF RequestOK, PatchOK
<1>4. DeleteAssetOK(q)'
    BY <1>1 DEF RequestOK, DeleteAssetOK
<1>5. CopyOK(q)'
    BY <1>1 DEF RequestOK, CopyOK
<1> QED
    BY <1>2, <1>3, <1>4, <1>5 DEF RequestOK

\* A request that begins has read what is there now, and has changed nothing.
LEMMA BeginKeeps ==
    ASSUME IInv, NEW p \in Web, NEW what, Begin(p, what), RequestOK(p)'
    PROVE  IInv'
<1>1. Types' /\ ReferencesLive'
    BY DEF IInv, Types, ReferencesLive, Begin
<1>2. \A q \in Web \ {p} : request'[q] = request[q] /\ race'[q] = race[q]
    BY DEF IInv, Types, Begin
<1>3. \A q \in Web \ {p} : RequestOK(q)'
    BY <1>2, OthersKeep DEF Begin
<1> QED
    BY <1>1, <1>3 DEF IInv

-----------------------------------------------------------------------------

\* At the start every reference is to something there, and no request is open.
LEMMA InitOK == AInit => IInv
<1> SUFFICES ASSUME AInit PROVE IInv
    OBVIOUS
<1> USE AssetsAssumption DEF AInit
<1>1. Types
    BY DEF Types
<1>2. ReferencesLive
    BY DEF ReferencesLive
<1>3. \A p \in Web : RequestOK(p)
    BY DEF RequestOK, DeleteSensorOK, PatchOK, DeleteAssetOK, CopyOK, Resting
<1> QED
    BY <1>1, <1>2, <1>3 DEF IInv

\* What a request has read when it begins: the deletion of a sensor,
LEMMA StartDeleteSensorOK ==
    ASSUME IInv, NEW p \in Web, NEW s \in SensorId, StartDeleteSensor(p, s)
    PROVE  IInv'
<1> DEFINE what == [step |-> "deleteSensor", of |-> s, on |-> home[s],
                    pruned |-> [a \in Referring(s) |-> Pruned(assets[a].flex, s)]]
<1>1. Begin(p, what)
    BY DEF StartDeleteSensor
<1>2. request'[p] = what
    BY <1>1 DEF Begin, IInv, Types
<1>3. \A a \in DOMAIN assets : assets[a].flex \subseteq SensorId /\ assets[a].flex \subseteq Live \cup loose
    BY DEF IInv, Types, ReferencesLive, AssetRow, Live
<1>4. Known(p)' = Known(p) /\ race' = race /\ assets' = assets /\ loose' = loose
    BY <1>1 DEF Begin, Known, Live
<1>5. DeleteSensorOK(p)'
    BY <1>2, <1>3, <1>4 DEF DeleteSensorOK, Referring, Pruned, Known
<1>6. RequestOK(p)'
    BY <1>2, <1>5 DEF RequestOK, PatchOK, DeleteAssetOK, CopyOK
<1> HIDE DEF what
<1> QED
    BY <1>1, <1>6, BeginKeeps

\* a patch,
LEMMA StartPatchOK ==
    ASSUME IInv, NEW p \in Web, NEW a \in AssetId, NEW column \in DOMAIN Patches,
           NEW value, StartPatch(p, a, column, value)
    PROVE  IInv'
<1> DEFINE what == [step |-> "patch", of |-> a, column |-> column, value |-> value]
<1>1. Begin(p, what)
    BY DEF StartPatch
<1>2. request'[p] = what
    BY <1>1 DEF Begin, IInv, Types
<1>3. Known(p)' = Known(p)
    BY <1>1 DEF Begin, Known, Live
<1>4. column \in {"flex", "shows", "parent"} /\ Accepted(a, column, value)
    BY AssetsAssumption DEF StartPatch
<1>5. PatchOK(p)'
    <2>1. column = "flex" => value \subseteq SensorId \cap Known(p)
        BY <1>4 DEF Accepted, IInv, Types, Known, Live
    <2>2. column = "shows" => value \subseteq AssetId \cap Known(p)
        BY <1>4 DEF Accepted, IInv, Types, Known, Live
    <2>3. column = "parent" => value \in AssetId \cup {Nowhere}
        BY <1>4 DEF Accepted, IInv, Types
    <2> QED
        BY <1>2, <1>3, <1>4, <2>1, <2>2, <2>3 DEF PatchOK
<1>6. RequestOK(p)'
    BY <1>2, <1>5 DEF RequestOK, DeleteSensorOK, DeleteAssetOK, CopyOK
<1> HIDE DEF what
<1> QED
    BY <1>1, <1>6, BeginKeeps

\* the deletion of an asset,
LEMMA StartDeleteAssetOK ==
    ASSUME IInv, NEW p \in Web, NEW a \in AssetId, StartDeleteAsset(p, a)
    PROVE  IInv'
<1> DEFINE what == [step |-> "deleteAsset", of |-> a,
                    pruned |-> [b \in {c \in DOMAIN assets \ {a} : a \in assets[c].shows} |->
                                   Pruned(assets[b].shows, a)]]
<1>1. Begin(p, what)
    BY DEF StartDeleteAsset
<1>2. request'[p] = what
    BY <1>1 DEF Begin, IInv, Types
<1>3. \A b \in DOMAIN assets : assets[b].shows \subseteq AssetId /\ assets[b].shows \subseteq Live \cup loose
    BY DEF IInv, Types, ReferencesLive, AssetRow, Live
<1>4. Known(p)' = Known(p) /\ race' = race /\ assets' = assets /\ loose' = loose
    BY <1>1 DEF Begin, Known, Live
<1>5. DeleteAssetOK(p)'
    BY <1>2, <1>3, <1>4 DEF DeleteAssetOK, Pruned, Known
<1>6. RequestOK(p)'
    BY <1>2, <1>5 DEF RequestOK, PatchOK, DeleteSensorOK, CopyOK
<1> HIDE DEF what
<1> QED
    BY <1>1, <1>6, BeginKeeps

\* and a copy, with its first call.
LEMMA StartCopyOK ==
    ASSUME IInv, NEW p \in Web, NEW a \in AssetId, NEW t \in Targets,
           StartCopy(p, a, t.account, t.parent)
    PROVE  IInv'
<1> DEFINE d == Destination(a, t.account, t.parent)
           what == [step |-> "copy", of |-> a, account |-> d.account, under |-> d.parent,
                    calls |-> <<Call(a, assets[a], d.parent)>>,
                    made |-> << >>, origin |-> << >>, hosts |-> << >>, map |-> << >>]
<1>1. Begin(p, what) /\ a \in DOMAIN assets
      /\ (t.parent # Nowhere => t.parent \in DOMAIN assets)
    BY DEF StartCopy
<1>2. t.account \in Account \cup {Nowhere} /\ t.parent \in AssetId \cup {Nowhere}
    BY AssetsAssumption
<1>3. d.account \in Account \cup {Public} /\ d.parent \in AssetId \cup {Nowhere}
    BY <1>1, <1>2 DEF Destination, IInv, Types, AssetRow
<1> HIDE DEF d
<1>4. request'[p] = what
    BY <1>1 DEF Begin, IInv, Types
<1>5. /\ assets[a] \in AssetRow
      /\ ReferencesOf(assets[a]) \subseteq Known(p)
    BY <1>1 DEF IInv, Types, ReferencesLive, Known, Live, ReferencesOf
<1>6. Known(p)' = Known(p)
    BY <1>1 DEF Begin, Known, Live
<1>7. CopyOK(p)'
    <2> DEFINE call == Call(a, assets[a], d.parent)
    <2>1. call \in CallType /\ call.row = assets[a]
        BY <1>3, <1>5 DEF Call, CallType
    <2> HIDE DEF call
    <2>2. /\ <<call>> \in Seq(CallType)
          /\ \A i \in 1..Len(<<call>>) : <<call>>[i] = call
        BY <2>1
    <2>3. IsFiniteSet(DOMAIN << >>)
        BY FS_EmptySet
    <2> QED
        BY <1>3, <1>4, <1>5, <1>6, <2>1, <2>2, <2>3 DEF CopyOK, Copies, call
<1>8. RequestOK(p)'
    BY <1>4, <1>7 DEF RequestOK, PatchOK, DeleteSensorOK, DeleteAssetOK
<1> HIDE DEF what
<1> QED
    BY <1>1, <1>8, BeginKeeps

\* A request that is rolled back is forgotten.
LEMMA RollbackOK ==
    ASSUME IInv, NEW p \in Web, Rollback(p)
    PROVE  IInv'
<1>1. Types' /\ ReferencesLive'
    BY DEF IInv, Types, ReferencesLive, Rollback
<1>2. \A q \in Web \ {p} : request'[q] = request[q] /\ race'[q] = race[q]
    BY DEF IInv, Types, Rollback
<1>3. \A q \in Web \ {p} : RequestOK(q)'
    BY <1>2, OthersKeep DEF Rollback
<1>4. request'[p] = Resting
    BY DEF IInv, Types, Rollback
<1>5. RequestOK(p)'
    BY <1>4 DEF Resting, RequestOK, DeleteSensorOK, PatchOK, DeleteAssetOK, CopyOK
<1> QED
    BY <1>1, <1>3, <1>5 DEF IInv

-----------------------------------------------------------------------------

\* A sensor is deleted, and the references to it that were read.
LEMMA CommitDeleteSensorOK ==
    ASSUME IInv, NEW p \in Web, CommitDeleteSensor(p)
    PROVE  IInv'
<1> DEFINE r == request[p]
           written == UNION {r.pruned[a] : a \in DOMAIN r.pruned}
<1>1. /\ r.of \in SensorId
      /\ \A a \in DOMAIN r.pruned : r.pruned[a] \subseteq (SensorId \cap Known(p)) \ {r.of}
      /\ \A a \in DOMAIN assets \ DOMAIN r.pruned :
            r.of \in assets[a].flex => r.of \in race[p].news \cup loose
    BY DEF IInv, RequestOK, DeleteSensorOK, CommitDeleteSensor
<1>2. /\ DOMAIN assets' = DOMAIN assets
      /\ \A a \in DOMAIN assets : assets'[a] = IF a \in DOMAIN r.pruned
                                               THEN [assets[a] EXCEPT !.flex = r.pruned[a]]
                                               ELSE assets[a]
      /\ DOMAIN home' = DOMAIN home \ {r.of}
      /\ loose' = loose \cup (written \cap race[p].lost) \cup ({r.of} \cap race[p].news)
      /\ End(p, {r.of}, written)
    BY DEF CommitDeleteSensor, Restrict
<1>3. \A a \in DOMAIN assets :
         /\ assets[a] \in AssetRow
         /\ assets[a].flex \cup assets[a].shows \subseteq Live \cup loose
    BY DEF IInv, Types, ReferencesLive, Live
<1>4. \A a \in DOMAIN assets :
         /\ assets'[a] \in AssetRow
         /\ assets'[a].shows = assets[a].shows
         /\ assets'[a].flex = IF a \in DOMAIN r.pruned THEN r.pruned[a] ELSE assets[a].flex
    <2> SUFFICES ASSUME NEW a \in DOMAIN assets
                 PROVE  /\ assets'[a] \in AssetRow
                        /\ assets'[a].shows = assets[a].shows
                        /\ assets'[a].flex = IF a \in DOMAIN r.pruned THEN r.pruned[a]
                                             ELSE assets[a].flex
        OBVIOUS
    <2>1. CASE a \in DOMAIN r.pruned
        BY <1>1, <1>2, <1>3, <2>1 DEF AssetRow
    <2>2. CASE a \notin DOMAIN r.pruned
        BY <1>2, <1>3, <2>2
    <2> QED
        BY <2>1, <2>2
<1>5. Types'
    BY <1>2, <1>4 DEF IInv, Types, End
<1>6. written \subseteq Known(p) \ {r.of} /\ \A a \in DOMAIN r.pruned : r.pruned[a] \subseteq written
    BY <1>1
<1> HIDE DEF r, written
<1>7. ReferencesLive'
    <2> SUFFICES ASSUME NEW a \in DOMAIN assets,
                        NEW x \in assets'[a].flex \cup assets'[a].shows
                 PROVE  x \in Live' \cup loose'
        BY <1>2 DEF ReferencesLive, Live
    <2>1. CASE x \in Live \cup loose /\ x # r.of
        BY <1>2, <2>1 DEF Live
    <2>2. CASE a \in DOMAIN r.pruned /\ x \in assets'[a].flex
        <3>1. x \in written
            BY <1>4, <1>6, <2>2
        <3> QED
            BY <1>2, <1>6, <2>1, <3>1 DEF Known
    <2>3. CASE x = r.of /\ ~ (a \in DOMAIN r.pruned /\ x \in assets'[a].flex)
        <3>1. x \notin assets[a].shows
            BY <1>1, <1>3, <2>3, AssetsAssumption DEF AssetRow
        <3> QED
            BY <1>1, <1>2, <1>4, <2>3, <3>1
    <2> QED
        BY <1>3, <1>4, <2>1, <2>2, <2>3
<1>8. Live \subseteq Live' \cup {r.of} /\ loose \subseteq loose'
    BY <1>2 DEF Live
<1>9. \A a \in DOMAIN assets' :
         /\ a \in DOMAIN assets
         /\ assets'[a].flex \subseteq assets[a].flex \cup written
         /\ assets'[a].shows \subseteq assets[a].shows \cup written
    BY <1>2, <1>4, <1>6
<1>10. \A q \in Web : RequestOK(q)'
    BY <1>2, <1>5, <1>8, <1>9, CommitKeeps
<1> QED
    BY <1>5, <1>7, <1>10 DEF IInv

\* A column is overwritten with references that were alive when they were read.
LEMMA CommitPatchOK ==
    ASSUME IInv, NEW p \in Web, CommitPatch(p)
    PROVE  IInv'
<1> DEFINE r == request[p]
           references == IF r.column = "parent" THEN {} ELSE r.value
<1>1. /\ r.column \in {"flex", "shows", "parent"}
      /\ r.column = "flex" => r.value \subseteq SensorId \cap Known(p)
      /\ r.column = "shows" => r.value \subseteq AssetId \cap Known(p)
      /\ r.column = "parent" => r.value \in AssetId \cup {Nowhere}
    BY DEF IInv, RequestOK, PatchOK, CommitPatch
<1>2. /\ r.of \in DOMAIN assets
      /\ assets' = [assets EXCEPT ![r.of] = [assets[r.of] EXCEPT ![r.column] = r.value]]
      /\ home' = home
      /\ loose' = loose \cup (references \cap race[p].lost)
      /\ End(p, {}, references)
    BY DEF CommitPatch
<1> HIDE DEF r
<1>3. \A a \in DOMAIN assets :
         /\ assets[a] \in AssetRow
         /\ assets[a].flex \cup assets[a].shows \subseteq Live \cup loose
    BY DEF IInv, Types, ReferencesLive, Live
<1>4. DOMAIN assets' = DOMAIN assets
    BY <1>2
<1>5. ASSUME NEW a \in DOMAIN assets
      PROVE  /\ assets'[a] \in AssetRow
             /\ assets'[a].flex \in {assets[a].flex, references}
             /\ assets'[a].shows \in {assets[a].shows, references}
    <2>1. CASE a # r.of
        BY <1>2, <1>3, <2>1
    <2>2. CASE a = r.of /\ r.column = "flex"
        <3>1. assets'[a] = [assets[a] EXCEPT !.flex = r.value] /\ references = r.value
            BY <1>2, <2>2
        <3> QED
            BY <1>1, <1>3, <2>2, <3>1 DEF AssetRow
    <2>3. CASE a = r.of /\ r.column = "shows"
        <3>1. assets'[a] = [assets[a] EXCEPT !.shows = r.value] /\ references = r.value
            BY <1>2, <2>3
        <3> QED
            BY <1>1, <1>3, <2>3, <3>1 DEF AssetRow
    <2>4. CASE a = r.of /\ r.column = "parent"
        <3>1. assets'[a] = [assets[a] EXCEPT !.parent = r.value]
            BY <1>2, <2>4
        <3> QED
            BY <1>1, <1>3, <2>4, <3>1 DEF AssetRow
    <2> QED
        BY <1>1, <2>1, <2>2, <2>3, <2>4
<1>6. Types'
    BY <1>2, <1>4, <1>5 DEF IInv, Types, End
<1>7. references \subseteq Known(p)
    BY <1>1
<1> HIDE DEF references
<1>8. ReferencesLive'
    BY <1>2, <1>3, <1>4, <1>5, <1>7 DEF ReferencesLive, Known, Live
<1>9. \A q \in Web : RequestOK(q)'
    <2>1. Live \subseteq Live' \cup {} /\ loose \subseteq loose'
        BY <1>2, <1>4 DEF Live
    <2>2. \A a \in DOMAIN assets' :
             /\ a \in DOMAIN assets
             /\ assets'[a].flex \subseteq assets[a].flex \cup references
             /\ assets'[a].shows \subseteq assets[a].shows \cup references
        BY <1>4, <1>5
    <2> QED
        BY <1>2, <1>6, <2>1, <2>2, CommitKeeps
<1> QED
    BY <1>6, <1>8, <1>9 DEF IInv

\* An asset is deleted with all below it, and the references to it that were read.
LEMMA CommitDeleteAssetOK ==
    ASSUME IInv, NEW p \in Web, CommitDeleteAsset(p)
    PROVE  IInv'
<1> DEFINE r == request[p]
           doomed == Subtree(assets, r.of)
           sensors == {s \in DOMAIN home : home[s] \in doomed}
           written == UNION {r.pruned[a] : a \in DOMAIN r.pruned}
           deleted == doomed \cup sensors
<1>1. /\ r.of \in AssetId
      /\ \A a \in DOMAIN r.pruned : r.pruned[a] \subseteq (AssetId \cap Known(p)) \ {r.of}
      /\ \A a \in DOMAIN assets \ DOMAIN r.pruned :
            a # r.of /\ r.of \in assets[a].shows => r.of \in race[p].news \cup loose
    BY DEF IInv, RequestOK, DeleteAssetOK, CommitDeleteAsset
<1>2. /\ r.of \in DOMAIN assets
      /\ assets' = [a \in DOMAIN assets \ doomed |->
                        IF a \in DOMAIN r.pruned
                        THEN [assets[a] EXCEPT !.shows = r.pruned[a]] ELSE assets[a]]
      /\ DOMAIN home' = DOMAIN home \ sensors
      /\ loose' = loose \cup (doomed \ {r.of}) \cup sensors
                        \cup (written \cap race[p].lost) \cup ({r.of} \cap race[p].news)
      /\ End(p, deleted, written)
    BY DEF CommitDeleteAsset, Restrict
<1>3. \A a \in DOMAIN assets :
         /\ assets[a] \in AssetRow
         /\ assets[a].flex \cup assets[a].shows \subseteq Live \cup loose
    BY DEF IInv, Types, ReferencesLive, Live
<1>4. written \subseteq Known(p) \ {r.of} /\ \A a \in DOMAIN r.pruned : r.pruned[a] \subseteq written
    BY <1>1
<1>5. sensors \subseteq DOMAIN home
    OBVIOUS
<1> HIDE DEF r, doomed, sensors, written
<1>6. DOMAIN assets' = DOMAIN assets \ doomed
    BY <1>2
<1>7. ASSUME NEW a \in DOMAIN assets'
      PROVE  /\ assets'[a] \in AssetRow
             /\ assets'[a].flex = assets[a].flex
             /\ assets'[a].shows = IF a \in DOMAIN r.pruned THEN r.pruned[a]
                                   ELSE assets[a].shows
    <2>1. CASE a \in DOMAIN r.pruned
        BY <1>1, <1>2, <1>3, <2>1 DEF AssetRow
    <2>2. CASE a \notin DOMAIN r.pruned
        BY <1>2, <1>3, <2>2
    <2> QED
        BY <2>1, <2>2
<1>8. Types'
    <2>1. IsFiniteSet(DOMAIN assets')
        BY <1>6, FS_Subset DEF IInv, Types
    <2> QED
        BY <1>2, <1>6, <1>7, <2>1 DEF IInv, Types, End
<1>9. ReferencesLive'
    <2> SUFFICES ASSUME NEW a \in DOMAIN assets',
                        NEW x \in assets'[a].flex \cup assets'[a].shows
                 PROVE  x \in Live' \cup loose'
        BY DEF ReferencesLive, Live
    <2>1. CASE x \in Live \cup loose /\ x # r.of
        BY <1>2, <1>6, <2>1 DEF Live
    <2>2. CASE a \in DOMAIN r.pruned /\ x \in assets'[a].shows
        <3>1. x \in written
            BY <1>4, <1>7, <2>2
        <3> QED
            BY <1>2, <1>4, <2>1, <3>1 DEF Known
    <2>3. CASE x = r.of /\ ~ (a \in DOMAIN r.pruned /\ x \in assets'[a].shows)
        <3>1. x \in assets[a].shows /\ a \notin DOMAIN r.pruned
            BY <1>1, <1>3, <1>6, <1>7, <2>3, AssetsAssumption DEF AssetRow
        <3>2. CASE a = r.of
            BY <1>2, <1>6, <2>3, <3>2 DEF Live
        <3>3. CASE a # r.of
            BY <1>1, <1>2, <1>6, <2>3, <3>1, <3>3
        <3> QED
            BY <3>2, <3>3
    <2> QED
        BY <1>3, <1>6, <1>7, <2>1, <2>2, <2>3
<1>10. \A q \in Web : RequestOK(q)'
    <2>1. Live \subseteq Live' \cup deleted /\ loose \subseteq loose'
        BY <1>2, <1>6 DEF Live
    <2>2. \A a \in DOMAIN assets' :
             /\ a \in DOMAIN assets
             /\ assets'[a].flex \subseteq assets[a].flex \cup written
             /\ assets'[a].shows \subseteq assets[a].shows \cup written
        BY <1>4, <1>6, <1>7
    <2> HIDE DEF deleted
    <2> QED
        BY <1>2, <1>8, <2>1, <2>2, CommitKeeps
<1> QED
    BY <1>8, <1>9, <1>10 DEF IInv

-----------------------------------------------------------------------------

\* What one call of _copy_asset_subtree does to the request, field by field.
Continues(r, what, new, copy, children, rows) ==
    LET call == Head(r.calls) IN
    /\ Copies(what)
    /\ what.step = r.step /\ what.account = r.account
    /\ what.of = r.of /\ what.under = r.under
    /\ what.origin = Over([a \in Range(new) |-> call.from], r.origin)
    /\ what.made = Over([a \in Range(new) |->
           [call.row EXCEPT !.parent = call.under, !.account = r.account]], r.made)
    /\ what.hosts = Over([s \in Range(copy) |-> new[call.from]], r.hosts)
    /\ what.map = Over(copy, r.map)
    /\ what.calls = [i \in DOMAIN children |->
           Call(children[i], rows[children[i]], new[call.from])] \o Tail(r.calls)

\* What a step of a copy leaves of the request, as far as the invariant speaks of it.
LEMMA CopiedFields ==
    ASSUME NEW r, Copies(r), NEW new, NEW copy, NEW children, NEW rows
    PROVE  Continues(r, Copied(r, new, copy, children, rows), new, copy, children, rows)
<1> DEFINE call == Head(r.calls)
           made == Over([a \in Range(new) |->
                      [call.row EXCEPT !.parent = call.under, !.account = r.account]], r.made)
           origin == Over([a \in Range(new) |-> call.from], r.origin)
           hosts == Over([s \in Range(copy) |-> new[call.from]], r.hosts)
           map == Over(copy, r.map)
           calls == [i \in DOMAIN children |->
                        Call(children[i], rows[children[i]], new[call.from])] \o Tail(r.calls)
<1>1. Copied(r, new, copy, children, rows)
        = [r EXCEPT !.made = made, !.origin = origin, !.hosts = hosts, !.map = map,
                    !.calls = calls]
    BY DEF Copied
<1> HIDE DEF made, origin, hosts, map, calls
<1> DEFINE r1 == [r EXCEPT !.made = made]
           r2 == [r1 EXCEPT !.origin = origin]
           r3 == [r2 EXCEPT !.hosts = hosts]
           r4 == [r3 EXCEPT !.map = map]
<1>2. r1 = [step |-> r.step, of |-> r.of, account |-> r.account, under |-> r.under,
           calls |-> r.calls, made |-> made, origin |-> r.origin, hosts |-> r.hosts, map
           |-> r.map]
    BY DEF Copies
<1>3. [r EXCEPT !.made = made, !.origin = origin, !.hosts = hosts, !.map = map,
                !.calls = calls] = [r4 EXCEPT !.calls = calls]
    OBVIOUS
<1> HIDE DEF r1
<1>4. r2 = [step |-> r.step, of |-> r.of, account |-> r.account, under |-> r.under,
           calls |-> r.calls, made |-> made, origin |-> origin, hosts |-> r.hosts, map
           |-> r.map]
    BY <1>2
<1> HIDE DEF r2
<1>5. r3 = [step |-> r.step, of |-> r.of, account |-> r.account, under |-> r.under,
           calls |-> r.calls, made |-> made, origin |-> origin, hosts |-> hosts, map |->
           r.map]
    BY <1>4
<1> HIDE DEF r3
<1>6. r4 = [step |-> r.step, of |-> r.of, account |-> r.account, under |-> r.under,
           calls |-> r.calls, made |-> made, origin |-> origin, hosts |-> hosts, map |->
           map]
    BY <1>5
<1> HIDE DEF r4
<1>7. [r4 EXCEPT !.calls = calls] = [step |-> r.step, of |-> r.of, account |-> r.account, under |-> r.under,
           calls |-> calls, made |-> made, origin |-> origin, hosts |-> hosts, map |->
           map]
    BY <1>6
<1> DEFINE what == Copied(r, new, copy, children, rows)
<1>8. /\ Copies(what)
      /\ what.step = r.step /\ what.account = r.account
      /\ what.of = r.of /\ what.under = r.under /\ what.origin = origin
      /\ what.made = made /\ what.hosts = hosts /\ what.map = map /\ what.calls = calls
    BY <1>1, <1>3, <1>7 DEF Copies
<1> QED
    BY <1>8, Zenon DEF Continues, made, origin, hosts, map, calls

\* A step that only goes on with p's copy.
LEMMA CopyKeeps ==
    ASSUME IInv, NEW p \in Web, UNCHANGED <<assets, home, race, loose>>,
           NEW what, request' = [request EXCEPT ![p] = what],
           what.step \in {"copy", "resolved"}, CopyOK(p)'
    PROVE  IInv'
<1>1. Types' /\ ReferencesLive'
    BY DEF IInv, Types, ReferencesLive
<1>2. \A q \in Web \ {p} : request'[q] = request[q] /\ race'[q] = race[q]
    BY DEF IInv, Types
<1>3. \A q \in Web \ {p} : RequestOK(q)'
    BY <1>2, OthersKeep
<1>4. request'[p] = what
    BY DEF IInv, Types
<1>5. RequestOK(p)'
    BY <1>4 DEF RequestOK, DeleteSensorOK, PatchOK, DeleteAssetOK
<1> QED
    BY <1>1, <1>3, <1>5 DEF IInv

\* A call of _copy_asset_subtree copies rows as they are now.
LEMMA CopyNextOK ==
    ASSUME IInv, NEW p \in Web, CopyNext(p)
    PROVE  IInv'
<1> DEFINE r == request[p]
           call == Head(r.calls)
           rows == Over(r.made, assets)
           mine == SensorsOn(Over(r.hosts, home), call.from)
           kids == ChildrenOf(rows, call.from)
<1>1. CopyOK(p) /\ r.step = "copy"
    BY DEF IInv, RequestOK, CopyNext
<1>2. /\ r.calls # << >>
      /\ call.under # Nowhere => call.under \in DOMAIN rows
      /\ UNCHANGED <<assets, home, race, loose>>
    BY DEF CopyNext
<1>3. PICK new \in Numbering({call.from}, AssetId), copy \in Numbering(mine, SensorId),
           children \in SetToSeqs(kids) :
        request' = [request EXCEPT ![p] = Copied(r, new, copy, children, rows)]
    BY DEF CopyNext
<1> HIDE DEF mine, rows
<1> DEFINE row == [call.row EXCEPT !.parent = call.under, !.account = r.account]
           made == Over([a \in Range(new) |-> row], r.made)
           hosts == Over([s \in Range(copy) |-> new[call.from]], r.hosts)
           map == Over(copy, r.map)
           more == [i \in DOMAIN children |->
                       Call(children[i], rows[children[i]], new[call.from])]
           what == Copied(r, new, copy, children, rows)
           fine == Known(p) \cup DOMAIN hosts
           FineCall == {c \in CallType : ReferencesOf(c.row) \subseteq fine}
<1>4. /\ new \in [{call.from} -> AssetId] /\ copy \in [mine -> SensorId]
      /\ Range(new) \subseteq AssetId /\ IsFiniteSet(Range(new))
      /\ Range(copy) \subseteq SensorId
      /\ new[call.from] \in AssetId
    <2>1. new \in [{call.from} -> AssetId] /\ copy \in [mine -> SensorId]
        BY DEF Numbering
    <2>2. Range(new) = {new[call.from]}
        BY <2>1 DEF Range
    <2>3. IsFiniteSet(Range(new))
        BY ZenonT(30), <2>2, FS_Singleton
    <2> QED
        BY <2>1, <2>2, <2>3 DEF Range
<1>5. /\ DOMAIN made = Range(new) \cup DOMAIN r.made
      /\ DOMAIN hosts = Range(copy) \cup DOMAIN r.hosts
      /\ DOMAIN map = mine \cup DOMAIN r.map
      /\ \A a \in DOMAIN made : made[a] = IF a \in Range(new) THEN row ELSE r.made[a]
      /\ \A s \in DOMAIN map : map[s] = IF s \in mine THEN copy[s] ELSE r.map[s]
    BY <1>4 DEF Over
<1>6. call \in CallType /\ ReferencesOf(call.row) \subseteq fine
    <2>1. r.calls \in Seq(CallType) /\ 1 \in 1..Len(r.calls) /\ call = r.calls[1]
        BY <1>1, <1>2 DEF CopyOK
    <2>2. \A i \in 1..Len(r.calls) : ReferencesOf(r.calls[i].row) \subseteq fine
        BY <1>1, <1>5 DEF CopyOK
    <2>3. 1 \in 1..Len(r.calls) => r.calls[1] \in CallType
        BY SMTT(30), <2>1
    <2> QED
        BY <2>1, <2>2, <2>3
<1>7. /\ row \in AssetRow /\ ReferencesOf(row) \subseteq fine
      /\ \A a \in DOMAIN r.made : r.made[a] \in AssetRow /\ ReferencesOf(r.made[a]) \subseteq fine
    BY Zenon, <1>1, <1>5, <1>6 DEF CopyOK, CallType, AssetRow, ReferencesOf
<1>8. /\ DOMAIN rows = DOMAIN r.made \cup DOMAIN assets
      /\ \A a \in DOMAIN rows : rows[a] \in AssetRow /\ ReferencesOf(rows[a]) \subseteq fine
    <2>1. \A a \in DOMAIN assets : assets[a] \in AssetRow /\ ReferencesOf(assets[a]) \subseteq fine
        BY DEF IInv, Types, ReferencesLive, ReferencesOf, Known, Live
    <2> QED
        BY <1>7, <2>1 DEF rows, Over
<1>9. more \in Seq(FineCall)
    <2>1. IsFiniteSet(DOMAIN rows) /\ DOMAIN rows \subseteq AssetId
        <3>1. IsFiniteSet(DOMAIN r.made) /\ IsFiniteSet(DOMAIN assets)
              /\ DOMAIN r.made \subseteq AssetId /\ DOMAIN assets \subseteq AssetId
            BY <1>1 DEF CopyOK, IInv, Types
        <3>2. IsFiniteSet(DOMAIN r.made \cup DOMAIN assets)
            BY <3>1, FS_Union
        <3> QED
            BY <1>8, <3>1, <3>2
    <2>2. kids \subseteq DOMAIN rows
        BY DEF ChildrenOf
    <2>3. Cardinality(kids) \in Nat
        BY <2>1, <2>2, FS_Subset, FS_CardinalityType
    <2>4. children \in [1..Cardinality(kids) -> kids]
        BY DEF SetToSeqs
    <2>5. \A i \in 1..Cardinality(kids) :
             Call(children[i], rows[children[i]], new[call.from]) \in FineCall
        BY <1>4, <1>8, <2>1, <2>2, <2>4 DEF Call, CallType
    <2> HIDE DEF FineCall, kids
    <2> QED
        BY <2>3, <2>4, <2>5
<1>10. Tail(r.calls) \in Seq(FineCall)
    <2>3. r.calls \in Seq(CallType) /\ r.calls # << >>
        BY <1>1, <1>2 DEF CopyOK
    <2>4. \A i \in 1..Len(r.calls) : ReferencesOf(r.calls[i].row) \subseteq fine
        BY <1>1, <1>5 DEF CopyOK
    <2>5. \A i \in 1..Len(r.calls) : r.calls[i] \in CallType
        BY <2>3
    <2>1. r.calls \in Seq(CallType) /\ r.calls # << >>
          /\ \A i \in 1..Len(r.calls) : r.calls[i] \in FineCall
        BY <2>3, <2>4, <2>5
    <2>2. r.calls \in Seq(FineCall)
        <3> HIDE DEF FineCall
        <3> QED
            BY <2>1
    <2> HIDE DEF FineCall
    <2> QED
        BY <2>1, <2>2
<1>11. /\ Copies(what)
       /\ what.step = r.step /\ what.account = r.account
       /\ what.made = made /\ what.hosts = hosts /\ what.map = map
       /\ what.calls = more \o Tail(r.calls)
    <2>1. Copies(r)
        BY <1>1 DEF CopyOK
    <2> HIDE DEF r
    <2>2. ASSUME NEW s, Copies(s)
          PROVE  Continues(s, Copied(s, new, copy, children, rows), new, copy, children,
                           rows)
        BY <2>2, CopiedFields
    <2> QED
        BY <2>1, <2>2, Zenon DEF Continues
<1>12. /\ what.calls \in Seq(CallType)
       /\ \A i \in 1..Len(what.calls) : ReferencesOf(what.calls[i].row) \subseteq fine
    <2>1. what.calls = more \o Tail(r.calls)
        BY Zenon, <1>11
    <2>2. what.calls \in Seq(FineCall)
        <3> HIDE DEF more, FineCall, what
        <3> QED
            BY <1>9, <1>10, <2>1
    <2> HIDE DEF what, more
    <2>3. \A i \in 1..Len(what.calls) : what.calls[i] \in FineCall
        <3> HIDE DEF FineCall
        <3> QED
            BY <2>2
    <2>4. Len(what.calls) \in Nat /\ what.calls = [i \in 1..Len(what.calls) |-> what.calls[i]]
        <3> HIDE DEF FineCall
        <3> QED
            BY <2>2
    <2>5. \A i \in 1..Len(what.calls) :
              what.calls[i] \in CallType /\ ReferencesOf(what.calls[i].row) \subseteq fine
        BY <2>3
    <2> HIDE DEF fine, FineCall
    <2> QED
        BY <2>4, <2>5
<1>13. request' = [request EXCEPT ![p] = what] /\ request'[p] = what
    BY <1>3 DEF IInv, Types
<1>14. IsFiniteSet(DOMAIN made)
    <2>1. IsFiniteSet(DOMAIN r.made)
        BY <1>1 DEF CopyOK
    <2>2. IsFiniteSet(Range(new) \cup DOMAIN r.made)
        BY <1>4, <2>1, FS_Union
    <2> QED
        BY <1>5, <2>2
<1>15. Known(p)' = Known(p)
    BY <1>2 DEF Known, Live
<1>16. DOMAIN made \subseteq AssetId /\ DOMAIN hosts \subseteq SensorId
    <2>1. DOMAIN r.made \subseteq AssetId /\ DOMAIN r.hosts \subseteq SensorId
        BY <1>1 DEF CopyOK
    <2> HIDE DEF r, made, hosts
    <2> QED
        BY <1>4, <1>5, <2>1
<1>17. \A a \in DOMAIN made : made[a] \in AssetRow /\ ReferencesOf(made[a]) \subseteq fine
    <2> HIDE DEF r, row, made, fine
    <2> QED
        BY <1>5, <1>7
<1>18. \A s \in DOMAIN map : map[s] \in DOMAIN hosts
    BY Zenon, <1>1, <1>4, <1>5 DEF CopyOK, Range
<1> HIDE DEF what, made, hosts, map, more
<1>19. CopyOK(p)'
    BY <1>1, <1>11, <1>12, <1>13, <1>14, <1>15, <1>16, <1>17, <1>18 DEF CopyOK
<1> HIDE DEF r
<1> QED
    BY <1>1, <1>2, <1>11, <1>13, <1>19, CopyKeeps

\* What resolving the references of a copy leaves of the request.
LEMMA ResolvedFields ==
    ASSUME NEW r, Copies(r), NEW made
    PROVE  [r EXCEPT !.step = "resolved", !.made = made]
             = [step |-> "resolved", of |-> r.of, account |-> r.account,
                under |-> r.under, calls |-> r.calls, made |-> made,
                origin |-> r.origin, hosts |-> r.hosts, map |-> r.map]
<1> DEFINE r1 == [r EXCEPT !.step = "resolved"]
<1>1. r1 = [step |-> "resolved", of |-> r.of, account |-> r.account,
            under |-> r.under, calls |-> r.calls, made |-> r.made,
            origin |-> r.origin, hosts |-> r.hosts, map |-> r.map]
    BY DEF Copies
<1>2. [r EXCEPT !.step = "resolved", !.made = made] = [r1 EXCEPT !.made = made]
    OBVIOUS
<1> HIDE DEF r1
<1> QED
    BY <1>1, <1>2

\* Resolved references are to copies, or to what is there.
LEMMA ResolveCopyOK ==
    ASSUME IInv, NEW p \in Web, ResolveCopy(p)
    PROVE  IInv'
<1> DEFINE r == request[p]
           made == IF r.map = << >> THEN r.made
                   ELSE [a \in DOMAIN r.made |->
                            [r.made[a] EXCEPT !.flex = ReferencesInCopy(@, r.map)]]
           what == [r EXCEPT !.step = "resolved", !.made = made]
           fine == Known(p) \cup DOMAIN r.hosts
<1>1. CopyOK(p) /\ r.step = "copy"
    BY DEF IInv, RequestOK, ResolveCopy
<1>2. /\ UNCHANGED <<assets, home, race, loose>>
      /\ request' = [request EXCEPT ![p] = what]
    BY DEF ResolveCopy
<1>3. request'[p] = what
    BY <1>2 DEF IInv, Types
<1>4. \A a \in DOMAIN r.made : r.made[a] \in AssetRow /\ ReferencesOf(r.made[a]) \subseteq fine
    BY <1>1 DEF CopyOK
<1>5. ASSUME NEW flex PROVE ReferencesInCopy(flex, r.map) \subseteq SensorId \cap fine
    BY <1>1 DEF CopyOK, ReferencesInCopy, OnPublicAsset, IInv, Types, Known, Live
<1>6. /\ DOMAIN made = DOMAIN r.made
      /\ \A a \in DOMAIN made : made[a] \in AssetRow /\ ReferencesOf(made[a]) \subseteq fine
    <2>1. CASE r.map = << >>
        BY <1>4, <2>1
    <2>2. CASE r.map # << >>
        <3>1. ASSUME NEW a \in DOMAIN r.made, NEW flex, flex \subseteq SensorId \cap fine
              PROVE  /\ [r.made[a] EXCEPT !.flex = flex] \in AssetRow
                     /\ ReferencesOf([r.made[a] EXCEPT !.flex = flex]) \subseteq fine
            BY <1>4, <3>1 DEF AssetRow, ReferencesOf
        <3> QED
            BY <1>5, <2>2, <3>1
    <2> QED
        BY <2>1, <2>2
<1> HIDE DEF made
<1>7. what = [step |-> "resolved", of |-> r.of, account |-> r.account, under |-> r.under,
              calls |-> r.calls, made |-> made, origin |-> r.origin, hosts |-> r.hosts,
              map |-> r.map]
    <2>1. Copies(r)
        BY <1>1 DEF CopyOK
    <2> HIDE DEF r
    <2>2. ASSUME NEW t, Copies(t)
          PROVE  [t EXCEPT !.step = "resolved", !.made = made]
                   = [step |-> "resolved", of |-> t.of, account |-> t.account,
                      under |-> t.under, calls |-> t.calls, made |-> made,
                      origin |-> t.origin, hosts |-> t.hosts, map |-> t.map]
        BY <2>2, ResolvedFields
    <2> QED
        BY <2>1, <2>2
<1> HIDE DEF what
<1>8. Known(p)' = Known(p)
    BY <1>2 DEF Known, Live
<1>9. /\ what.made = made /\ what.hosts = r.hosts /\ what.map = r.map
      /\ what.step = "resolved" /\ what.account = r.account /\ what.calls = r.calls
      /\ Copies(what)
    BY <1>7 DEF Copies
<1>10. CopyOK(p)'
    BY <1>1, <1>3, <1>6, <1>8, <1>9 DEF CopyOK
<1> QED
    BY <1>2, <1>9, <1>10, CopyKeeps

\* The rows of a copy are added.
LEMMA CommitCopyOK ==
    ASSUME IInv, NEW p \in Web, CommitCopy(p)
    PROVE  IInv'
<1> DEFINE r == request[p]
           written == UNION {r.made[a].flex \cup r.made[a].shows : a \in DOMAIN r.made}
<1>1. CopyOK(p) /\ r.step = "resolved"
    BY DEF IInv, RequestOK, CommitCopy
<1>2. /\ assets' = Over(r.made, assets)
      /\ home' = Over(r.hosts, home)
      /\ loose' = loose \cup (written \cap race[p].lost)
      /\ End(p, {}, written)
    BY DEF CommitCopy
<1>3. /\ DOMAIN assets' = DOMAIN r.made \cup DOMAIN assets
      /\ DOMAIN home' = DOMAIN r.hosts \cup DOMAIN home
      /\ \A a \in DOMAIN assets' :
            assets'[a] = IF a \in DOMAIN r.made THEN r.made[a] ELSE assets[a]
    BY <1>2 DEF Over
<1>4. /\ DOMAIN r.made \subseteq AssetId /\ IsFiniteSet(DOMAIN r.made)
      /\ DOMAIN r.hosts \subseteq SensorId
      /\ \A a \in DOMAIN r.made :
            /\ r.made[a] \in AssetRow
            /\ ReferencesOf(r.made[a]) \subseteq Known(p) \cup DOMAIN r.hosts
            /\ ReferencesOf(r.made[a]) \subseteq written
    BY <1>1 DEF CopyOK, ReferencesOf
<1> HIDE DEF r, written
<1>5. Types'
    <2>1. IsFiniteSet(DOMAIN assets')
        <3>1. IsFiniteSet(DOMAIN assets)
            BY DEF IInv, Types
        <3>2. IsFiniteSet(DOMAIN r.made \cup DOMAIN assets)
            BY <1>4, <3>1, FS_Union
        <3> QED
            BY <1>3, <3>2
    <2> QED
        BY <1>2, <1>3, <1>4, <2>1 DEF IInv, Types, End
<1>6. Live \subseteq Live' \cup {} /\ DOMAIN r.hosts \subseteq Live' /\ loose \subseteq loose'
    BY <1>2, <1>3 DEF Live
<1>7. ReferencesLive'
    <2> SUFFICES ASSUME NEW a \in DOMAIN assets', NEW x \in ReferencesOf(assets'[a])
                 PROVE  x \in Live' \cup loose'
        BY DEF ReferencesLive, Live, ReferencesOf
    <2>1. CASE a \in DOMAIN r.made
        BY <1>2, <1>3, <1>4, <1>6, <2>1 DEF Known
    <2>2. CASE a \notin DOMAIN r.made
        <3>1. a \in DOMAIN assets /\ x \in ReferencesOf(assets[a])
            BY <1>3, <2>2
        <3> QED
            BY <1>6, <3>1 DEF IInv, ReferencesLive, ReferencesOf, Live
    <2> QED
        BY <2>1, <2>2
<1>8. \A a \in DOMAIN assets' :
         \/ ReferencesOf(assets'[a]) \subseteq written
         \/ /\ a \in DOMAIN assets
            /\ assets'[a].flex \subseteq assets[a].flex \cup written
            /\ assets'[a].shows \subseteq assets[a].shows \cup written
    BY <1>3, <1>4
<1>9. \A q \in Web : RequestOK(q)'
    BY <1>2, <1>5, <1>6, <1>8, CommitKeeps
<1> QED
    BY <1>5, <1>7, <1>9 DEF IInv

-----------------------------------------------------------------------------

\* One case for each action.
LEMMA NextOK == IInv /\ [ANext]_avars => IInv'
<1> SUFFICES ASSUME IInv, [ANext]_avars PROVE IInv'
    OBVIOUS
<1>1. ASSUME NEW p \in Web, StartRequest(p) PROVE IInv'
    BY <1>1, StartDeleteSensorOK, StartPatchOK, StartDeleteAssetOK, StartCopyOK
       DEF StartRequest
<1>2. CASE UNCHANGED avars
    <2>1. Types' /\ ReferencesLive'
        BY <1>2 DEF avars, IInv, Types, ReferencesLive
    <2>2. ASSUME NEW p \in Web PROVE RequestOK(p)'
        <3>1. request'[p] = request[p] /\ RequestOK(p) /\ Known(p)' = Known(p)
              /\ UNCHANGED <<assets, race, loose>>
            BY <1>2 DEF avars, IInv, Known, Live
        <3> QED
            BY <3>1 DEF RequestOK, DeleteSensorOK, PatchOK, DeleteAssetOK, CopyOK
    <2> QED
        BY <2>1, <2>2 DEF IInv
<1> QED
    BY <1>1, <1>2, RollbackOK, CommitDeleteSensorOK, CommitPatchOK, CommitDeleteAssetOK,
       CopyNextOK, ResolveCopyOK, CommitCopyOK DEF ANext

\* ReferencesLive: no reference to a deleted sensor or asset is left but to those that
\* went with an asset above them, or to those that a request wrote or was about to
\* write while another deleted them.
THEOREM ReferencesStayLive == ASpec => []ReferencesLive
<1>1. IInv => ReferencesLive
    BY DEF IInv
<1> QED
    BY <1>1, InitOK, NextOK, PTL DEF ASpec

-----------------------------------------------------------------------------
(* What the tree below an asset is.                                        *)

\* A set of natural numbers that is not empty has a smallest member.
LEMMA LeastExists ==
    ASSUME NEW S \in SUBSET Nat, S # {}
    PROVE  \E x \in S : \A y \in S : x <= y
<1>1. PICK x \in S : \A y \in S : ~ (<<y, x>> \in OpToRel(<, Nat))
    BY WFMin, NatLessThanWellFounded, Zenon
<1>2. x \in Nat /\ \A y \in S : y \in Nat
    OBVIOUS
<1>3. \A y \in S : ~ (y < x)
    BY <1>1, <1>2, Zenon DEF OpToRel
<1> QED
    BY <1>2, <1>3

\* The children of the members of a set.
Below(rows, S) == UNION {ChildrenOf(rows, b) : b \in S}

\* The levels up to depth n.
Levels(rows, a, n, g) ==
    g = [k \in 0..n |-> IF k = 0 THEN {a} ELSE g[k - 1] \cup Below(rows, g[k - 1])]

\* Two functions that give the levels agree where both do.
LEMMA LevelsAgree ==
    ASSUME NEW rows, NEW a, NEW n \in Nat, NEW m \in Nat, NEW g, NEW h,
           Levels(rows, a, n, g), Levels(rows, a, m, h),
           NEW k \in Nat, k <= n, k <= m
    PROVE  g[k] = h[k]
<1> DEFINE Bad == {i \in Nat : i <= n /\ i <= m /\ g[i] # h[i]}
<1>1. SUFFICES ASSUME Bad # {} PROVE FALSE
    OBVIOUS
<1>2. PICK i \in Bad : \A j \in Bad : i <= j
  <2>1. Bad \in SUBSET Nat
      OBVIOUS
  <2> HIDE DEF Bad
  <2> QED
      BY <1>1, <2>1, LeastExists
<1>3. i \in 0..n /\ i \in 0..m
    BY <1>2
<1>4. /\ g[i] = IF i = 0 THEN {a} ELSE g[i - 1] \cup Below(rows, g[i - 1])
      /\ h[i] = IF i = 0 THEN {a} ELSE h[i - 1] \cup Below(rows, h[i - 1])
    BY <1>3, Zenon DEF Levels
<1>5. CASE i = 0
    BY <1>2, <1>4, <1>5
<1>6. CASE i # 0
  <2>1. i - 1 \in Nat /\ i - 1 <= n /\ i - 1 <= m /\ ~ (i <= i - 1)
      BY <1>3, <1>6
  <2>2. g[i - 1] = h[i - 1]
      BY <1>2, <2>1
  <2> QED
      BY <1>2, <1>4, <1>6, <2>2
<1> QED
    BY <1>5, <1>6

\* There are levels up to any depth.
LEMMA LevelsExist ==
    ASSUME NEW rows, NEW a, NEW n \in Nat
    PROVE  \E g : Levels(rows, a, n, g)
<1> DEFINE Bad == {i \in Nat : ~ \E g : Levels(rows, a, i, g)}
<1>1. SUFFICES ASSUME Bad # {} PROVE FALSE
    OBVIOUS
<1>2. PICK i \in Bad : \A j \in Bad : i <= j
  <2>1. Bad \in SUBSET Nat
      OBVIOUS
  <2> HIDE DEF Bad
  <2> QED
      BY <1>1, <2>1, LeastExists
<1>3. CASE i = 0
  <2> DEFINE g == [k \in 0..0 |-> {a}]
  <2>1. Levels(rows, a, 0, g)
      BY DEF Levels
  <2> QED
      BY <1>2, <1>3, <2>1
<1>4. CASE i # 0
  <2>1. i \in Nat /\ i - 1 \in Nat /\ ~ (i <= i - 1)
      BY <1>2, <1>4
  <2>2. PICK h : Levels(rows, a, i - 1, h)
      BY <1>2, <2>1
  <2> DEFINE last == h[i - 1] \cup Below(rows, h[i - 1])
             g == [k \in 0..i |-> IF k = i THEN last ELSE h[k]]
  <2>3. \A k \in 0..i - 1 : h[k] = IF k = 0 THEN {a}
                                   ELSE h[k - 1] \cup Below(rows, h[k - 1])
      BY <2>2, Zenon DEF Levels
  <2>4. ASSUME NEW k \in 0..i
        PROVE  g[k] = IF k = 0 THEN {a} ELSE g[k - 1] \cup Below(rows, g[k - 1])
    <3>1. CASE k = i
      <4>1. i - 1 \in 0..i /\ i - 1 # i /\ k # 0
          BY <1>4, <2>1, <3>1
      <4>2. g[k - 1] = h[i - 1]
          BY <3>1, <4>1
      <4>3. g[k] = last
          BY <3>1
      <4> QED
          BY <4>1, <4>2, <4>3
    <3>2. CASE k # i
      <4>1. k \in 0..i - 1 /\ (k # 0 => k - 1 \in 0..i /\ k - 1 # i)
          BY <2>1, <3>2
      <4>2. g[k] = h[k] /\ (k # 0 => g[k - 1] = h[k - 1])
          BY <3>2, <4>1
      <4> QED
          BY <2>3, <4>1, <4>2
    <3> QED
        BY <3>1, <3>2
  <2>5. g = [k \in 0..i |-> g[k]]
      OBVIOUS
  <2> HIDE DEF g
  <2>6. Levels(rows, a, i, g)
      BY <2>4, <2>5 DEF Levels
  <2> QED
      BY <1>2, <2>6
<1> QED
    BY <1>3, <1>4

\* The function by which Subtree is defined has the values it is defined by.
LEMMA WithinIs ==
    ASSUME NEW rows, NEW a
    PROVE  \E f : /\ f = [depth \in Nat |-> IF depth = 0 THEN {a}
                             ELSE f[depth - 1] \cup UNION {ChildrenOf(rows, b) : b \in f[depth - 1]}]
                  /\ Subtree(rows, a) = f[Cardinality(DOMAIN rows)]
<1> DEFINE Is(f) == f = [depth \in Nat |-> IF depth = 0 THEN {a}
                       ELSE f[depth - 1] \cup UNION {ChildrenOf(rows, b) : b \in f[depth - 1]}]
           level(n) == CHOOSE g : Levels(rows, a, n, g)
           e == [n \in Nat |-> level(n)[n]]
<1>1. \A n \in Nat : Levels(rows, a, n, level(n))
    BY LevelsExist
<1>2. ASSUME NEW n \in Nat
      PROVE  e[n] = IF n = 0 THEN {a} ELSE e[n - 1] \cup Below(rows, e[n - 1])
  <2>1. n \in 0..n /\ e[n] = level(n)[n]
      OBVIOUS
  <2> DEFINE g == level(n)
  <2>2. Levels(rows, a, n, g)
      BY <1>1
  <2> HIDE DEF g
  <2>3. g[n] = IF n = 0 THEN {a} ELSE g[n - 1] \cup Below(rows, g[n - 1])
      BY <2>1, <2>2, Zenon DEF Levels
  <2>4. CASE n # 0
    <3>1. n - 1 \in Nat /\ n - 1 <= n /\ n - 1 <= n - 1
        BY <2>4
    <3> DEFINE h == level(n - 1)
    <3>2. Levels(rows, a, n - 1, h) /\ e[n - 1] = h[n - 1]
        BY <1>1, <3>1
    <3> HIDE DEF h
    <3>3. g[n - 1] = h[n - 1]
        BY <2>2, <3>1, <3>2, LevelsAgree
    <3> HIDE DEF e
    <3> QED
        BY <2>1, <2>3, <3>2, <3>3 DEF g
  <2> HIDE DEF e
  <2> QED
      BY <2>1, <2>3, <2>4 DEF g
<1>3. Is(e)
  <2>1. e = [n \in Nat |-> e[n]]
      OBVIOUS
  <2> HIDE DEF e
  <2> QED
      BY <1>2, <2>1 DEF Below
<1> DEFINE f == CHOOSE f : Is(f)
<1> HIDE DEF e
<1>4. Is(f)
  <2> HIDE DEF Is
  <2> QED
      BY <1>3, Zenon
<1>5. Subtree(rows, a) = f[Cardinality(DOMAIN rows)]
    BY DEF Subtree
<1> HIDE DEF f
<1> QED
    BY <1>4, <1>5

\* The asset is in it, so are the children of what is, and it is in every set of which
\* this is true.
LEMMA SubtreeIs ==
    ASSUME NEW rows, NEW a \in DOMAIN rows, IsFiniteSet(DOMAIN rows)
    PROVE  LET tree == Subtree(rows, a) IN
           /\ a \in tree /\ tree \subseteq DOMAIN rows
           /\ \A b \in tree : ChildrenOf(rows, b) \subseteq tree
           /\ \A S : a \in S /\ (\A b \in S : ChildrenOf(rows, b) \subseteq S)
                     => tree \subseteq S
<1>1. PICK f : /\ f = [depth \in Nat |-> IF depth = 0 THEN {a}
                          ELSE f[depth - 1] \cup UNION {ChildrenOf(rows, b) : b \in f[depth - 1]}]
               /\ Subtree(rows, a) = f[Cardinality(DOMAIN rows)]
    BY WithinIs
<1> DEFINE Closed(S) == \A b \in S : ChildrenOf(rows, b) \subseteq S
<1>2. f[0] = {a} /\ \A n \in Nat : n # 0 =>
         f[n] = f[n - 1] \cup UNION {ChildrenOf(rows, b) : b \in f[n - 1]}
    BY <1>1, Zenon
<1>3. ASSUME NEW S, a \in S, Closed(S), NEW m \in Nat
      PROVE  f[m] \subseteq S
  <2> DEFINE Bad == {n \in Nat : ~ (f[n] \subseteq S)}
  <2>1. SUFFICES ASSUME Bad # {} PROVE FALSE
      OBVIOUS
  <2>2. PICK n \in Bad : \A j \in Bad : n <= j
    <3>1. Bad \in SUBSET Nat
        OBVIOUS
    <3> HIDE DEF Bad
    <3> QED
        BY <2>1, <3>1, LeastExists
  <2>3. n # 0
      BY <1>2, <1>3, <2>2
  <2>4. n - 1 \in Nat /\ ~ (n <= n - 1)
      BY <2>2, <2>3
  <2>5. f[n - 1] \subseteq S
      BY <2>2, <2>4
  <2>6. f[n] \subseteq S
      BY <1>2, <1>3, <2>2, <2>3, <2>5
  <2> QED
      BY <2>2, <2>6
<1>4. \A n \in Nat : f[n] \subseteq DOMAIN rows
  <2>1. Closed(DOMAIN rows)
      BY DEF ChildrenOf
  <2> HIDE DEF Closed
  <2> QED
      BY <1>3, <2>1
<1>5. \A n \in Nat : a \in f[n]
  <2> DEFINE Bad == {n \in Nat : a \notin f[n]}
  <2>1. SUFFICES ASSUME Bad # {} PROVE FALSE
      OBVIOUS
  <2>2. PICK n \in Bad : \A j \in Bad : n <= j
    <3>1. Bad \in SUBSET Nat
        OBVIOUS
    <3> HIDE DEF Bad
    <3> QED
        BY <2>1, <3>1, LeastExists
  <2>3. n # 0
      BY <1>2, <2>2
  <2>4. n - 1 \in Nat /\ ~ (n <= n - 1)
      BY <2>2, <2>3
  <2> QED
      BY <1>2, <2>2, <2>3, <2>4
<1>6. \A n \in Nat : Closed(f[n]) \/ n + 1 <= Cardinality(f[n])
  <2> DEFINE Fine(n) == Closed(f[n]) \/ n + 1 <= Cardinality(f[n])
             Bad == {n \in Nat : ~ Fine(n)}
  <2>1. SUFFICES ASSUME Bad # {} PROVE FALSE
      OBVIOUS
  <2>2. PICK n \in Bad : \A j \in Bad : n <= j
    <3>1. Bad \in SUBSET Nat
        OBVIOUS
    <3> HIDE DEF Bad
    <3> QED
        BY <2>1, <3>1, LeastExists
  <2>3. n # 0
    <3>1. Cardinality(f[0]) = 1
        BY <1>2, FS_Singleton
    <3>2. Fine(0)
        BY <3>1
    <3> HIDE DEF Fine
    <3> QED
        BY <2>2, <3>2
  <2>4. n \in Nat /\ n - 1 \in Nat /\ ~ (n <= n - 1)
      BY <2>2, <2>3
  <2>5. Fine(n - 1)
      BY <2>2, <2>4
  <2> DEFINE old == f[n - 1]
             new == f[n]
  <2>6. new = old \cup UNION {ChildrenOf(rows, b) : b \in old}
      BY <1>2, <2>3, <2>4
  <2>7. CASE Closed(old)
    <3>1. new = old
        BY <2>6, <2>7
    <3> QED
        BY <2>2, <2>7, <3>1
  <2>8. CASE ~ Closed(old)
    <3>1. old \subseteq new /\ new # old
        BY <2>6, <2>8
    <3>2. /\ IsFiniteSet(new) /\ Cardinality(old) \in Nat /\ Cardinality(new) \in Nat
          /\ Cardinality(old) <= Cardinality(new) /\ Cardinality(old) # Cardinality(new)
        BY <1>4, <2>4, <3>1, FS_Subset, FS_CardinalityType
    <3>3. n <= Cardinality(old)
        BY <2>4, <2>5, <2>8
    <3> HIDE DEF old, new
    <3>4. n + 1 <= Cardinality(new)
        BY <2>4, <3>2, <3>3
    <3> QED
        BY <2>2, <3>4 DEF new
  <2> QED
      BY <2>7, <2>8
<1> DEFINE N == Cardinality(DOMAIN rows)
<1>7. N \in Nat
    BY FS_CardinalityType
<1>8. Closed(f[N])
  <2>1. f[N] \in SUBSET DOMAIN rows
      BY <1>4, <1>7
  <2>2. Cardinality(f[N]) <= N /\ Cardinality(f[N]) \in Nat
      BY <2>1, FS_Subset, FS_CardinalityType
  <2>3. ~ (N + 1 <= Cardinality(f[N]))
      BY <1>7, <2>2
  <2> HIDE DEF N, Closed
  <2> QED
      BY <1>6, <1>7, <2>3
<1> HIDE DEF Closed
<1>9. /\ a \in f[N] /\ f[N] \subseteq DOMAIN rows /\ Closed(f[N])
      /\ \A S : a \in S /\ Closed(S) => f[N] \subseteq S
    BY <1>3, <1>4, <1>5, <1>7, <1>8
<1>10. Subtree(rows, a) = f[N]
    BY <1>1
<1> HIDE DEF N
<1> QED
    BY <1>9, <1>10, Zenon DEF Closed

\* What is below an asset is the asset and what is below its children.
LEMMA SubtreeSplits ==
    ASSUME NEW rows, IsFiniteSet(DOMAIN rows), NEW a \in DOMAIN rows,
           NEW x \in Subtree(rows, a), x # a
    PROVE  \E c \in ChildrenOf(rows, a) : x \in Subtree(rows, c)
<1> DEFINE S == {a} \cup UNION {Subtree(rows, c) : c \in ChildrenOf(rows, a)}
<1>1. \A c \in ChildrenOf(rows, a) : c \in DOMAIN rows
    BY DEF ChildrenOf
<1>2. \A b \in S : ChildrenOf(rows, b) \subseteq S
  <2>1. \A c \in ChildrenOf(rows, a) : c \in Subtree(rows, c)
      BY <1>1, SubtreeIs
  <2>2. \A c \in ChildrenOf(rows, a) : \A b \in Subtree(rows, c) :
            ChildrenOf(rows, b) \subseteq Subtree(rows, c)
      BY <1>1, SubtreeIs
  <2> QED
      BY <2>1, <2>2
<1>3. a \in S
    OBVIOUS
<1> HIDE DEF S
<1>4. Subtree(rows, a) \subseteq S
    BY <1>2, <1>3, SubtreeIs
<1> QED
    BY <1>4 DEF S

-----------------------------------------------------------------------------
(***************************************************************************)
(* CopyMirrors for trees of any size. A copy is followed call by call: a   *)
(* pair of an asset and a parent to put its copy under belongs to the copy *)
(* of a tree if the parent is a copy of the asset's parent. Of all pairs   *)
(* that belong to it, each is exactly once among the rows that were made   *)
(* and the calls that are left. When no call is left the tree has no cycle *)
(* and each asset of it was copied once.                                   *)
(***************************************************************************)

\* Ids are drawn once; what a transaction is about to insert has ids of its own.
IdsDrawn ==
    /\ DOMAIN assets \cup DOMAIN home \subseteq drawn
    /\ IsFiniteSet(DOMAIN home)
    /\ \A p \in Web : request[p].step \in {"copy", "resolved"} =>
          /\ DOMAIN request[p].made \cup DOMAIN request[p].hosts \subseteq drawn
          /\ IsFiniteSet(DOMAIN request[p].hosts)

\* The copy of asset from is to be put under that parent.
Link(r, from, under) ==
    \/ from = r.of /\ under = r.under
    \/ under \in DOMAIN r.made /\ r.origin[under] = assets[from].parent

\* Where the copy is put is not within what is copied, nor made by it.
Placed(r) ==
    /\ r.of \in DOMAIN assets
    /\ r.under \notin Subtree(assets, r.of)
    /\ r.under \notin DOMAIN r.made
    /\ DOMAIN r.made # {} => r.under \in drawn \cup {Nowhere}

\* What is made is new; ids drawn later are larger.
Novel(r) ==
    /\ DOMAIN r.origin = DOMAIN r.made
    /\ DOMAIN r.made \cap DOMAIN assets = {}
    /\ DOMAIN r.hosts \cap DOMAIN home = {}
    /\ \A a \in DOMAIN r.made, i \in AssetId : i <= a => i \in drawn

\* Rows are copied as they were, parents before children.
Linked(r) ==
    /\ \A a \in DOMAIN r.made :
          /\ r.origin[a] \in Subtree(assets, r.of)
          /\ Link(r, r.origin[a], r.made[a].parent)
          /\ r.made[a].parent \in DOMAIN r.made => r.made[a].parent < a
          /\ r.made[a].flex = assets[r.origin[a]].flex
    /\ \A i \in 1..Len(r.calls) :
          /\ r.calls[i].from \in Subtree(assets, r.of)
          /\ Link(r, r.calls[i].from, r.calls[i].under)
          /\ r.calls[i].row = assets[r.calls[i].from]

Made(r, a, from, under) == r.origin[a] = from /\ r.made[a].parent = under

Called(r, i, from, under) == r.calls[i].from = from /\ r.calls[i].under = under

\* No pair twice,
Once(r) ==
    /\ \A a, b \in DOMAIN r.made : Made(r, a, r.origin[b], r.made[b].parent) => a = b
    /\ \A i, j \in 1..Len(r.calls) : Called(r, i, r.calls[j].from, r.calls[j].under) => i = j
    /\ \A a \in DOMAIN r.made, i \in 1..Len(r.calls) :
          ~ Called(r, i, r.origin[a], r.made[a].parent)

\* and none left out.
Covered(r) ==
    \A from \in DOMAIN assets, under \in DOMAIN r.made \cup {r.under} :
        Link(r, from, under) =>
            \/ \E a \in DOMAIN r.made : Made(r, a, from, under)
            \/ \E i \in 1..Len(r.calls) : Called(r, i, from, under)

\* The sensors of an asset are copied with it, to its copy; one is only overwritten in
\* the map if the asset was copied again.
Mapped(r) ==
    /\ DOMAIN r.map = {s \in DOMAIN home : \E a \in DOMAIN r.made : r.origin[a] = home[s]}
    /\ \A h \in DOMAIN r.hosts : r.hosts[h] \in DOMAIN r.made
    /\ \A s \in DOMAIN r.map : /\ r.map[s] \in DOMAIN r.hosts
                               /\ r.origin[r.hosts[r.map[s]]] = home[s]
    /\ \A s, t \in DOMAIN r.map : r.map[s] = r.map[t] => s = t
    /\ \A h \in DOMAIN r.hosts :
          \/ \E s \in DOMAIN r.map : r.map[s] = h
          \/ \E a, b \in DOMAIN r.made : a # b /\ r.origin[a] = r.origin[b]

Copying(r) == Placed(r) /\ Novel(r) /\ Linked(r) /\ Once(r) /\ Covered(r) /\ Mapped(r)

\* What CopyMirrors says of a request.
Mirrored(r) ==
    LET tree == Subtree(assets, r.of) IN
    /\ {r.origin[a] : a \in DOMAIN r.made} = tree
    /\ Cardinality(DOMAIN r.made) = Cardinality(tree)
    /\ \A a \in DOMAIN r.made : r.origin[a] # r.of =>
           r.origin[r.made[a].parent] = assets[r.origin[a]].parent
    /\ DOMAIN r.map = {s \in DOMAIN home : home[s] \in tree}
    /\ Cardinality(DOMAIN r.hosts) = Cardinality(DOMAIN r.map)
    /\ \A s \in DOMAIN r.map : r.origin[r.hosts[r.map[s]]] = home[s]
    /\ \A a \in DOMAIN r.made :
          LET before == assets[r.origin[a]].flex IN
          r.map # << >> =>
             /\ \A s \in before \cap DOMAIN r.map : r.map[s] \in r.made[a].flex
             /\ r.made[a].flex \cap DOMAIN home =
                   {s \in before \ DOMAIN r.map : OnPublicAsset(s)}

CopyInv(p) ==
    race[p].alone =>
        /\ request[p].step = "copy" => Copying(request[p])
        /\ request[p].step = "resolved" => Mirrored(request[p])

Mirrors == IdsDrawn /\ \A p \in Web : CopyInv(p)

-----------------------------------------------------------------------------
(* Ids.                                                                    *)

\* A function takes finitely many values on a finite set.
LEMMA RangeIsFinite ==
    ASSUME NEW S, IsFiniteSet(S), NEW T, NEW f \in [S -> T]
    PROVE  IsFiniteSet(Range(f))
<1>1. f \in Surjection(S, Range(f))
    BY DEF Surjection, Range
<1> QED
    BY <1>1, FS_Surjection

\* A call copies its asset to the least id there is, its sensors to ids of their own,
\* and calls itself for each child.
Onward(r, s, id, copy, children) ==
    LET call == r.calls[1]
        rows == Over(r.made, assets)
        kids == ChildrenOf(rows, call.from)
        n == Cardinality(kids) IN
    /\ id \in AssetId \ drawn /\ \A i \in AssetId \ drawn : id <= i
    /\ copy \in [SensorsOn(Over(r.hosts, home), call.from) -> SensorId \ drawn]
    /\ \A x, y \in DOMAIN copy : copy[x] = copy[y] => x = y
    /\ n \in Nat
    /\ \A i \in 1..n : children[i] \in kids
    /\ \A c \in kids : \E i \in 1..n : children[i] = c
    /\ \A i, j \in 1..n : children[i] = children[j] => i = j
    /\ s.step = "copy" /\ s.of = r.of /\ s.under = r.under
    /\ DOMAIN s.made = DOMAIN r.made \cup {id}
    /\ s.made[id].parent = call.under /\ s.made[id].flex = call.row.flex
    /\ \A a \in DOMAIN r.made \ {id} : s.made[a] = r.made[a]
    /\ DOMAIN s.origin = DOMAIN r.origin \cup {id}
    /\ s.origin[id] = call.from
    /\ \A a \in DOMAIN r.origin \ {id} : s.origin[a] = r.origin[a]
    /\ DOMAIN s.hosts = DOMAIN r.hosts \cup Range(copy)
    /\ \A h \in DOMAIN s.hosts : s.hosts[h] = IF h \in Range(copy) THEN id ELSE r.hosts[h]
    /\ DOMAIN s.map = DOMAIN r.map \cup DOMAIN copy
    /\ \A x \in DOMAIN s.map : s.map[x] = IF x \in DOMAIN copy THEN copy[x] ELSE r.map[x]
    /\ Len(s.calls) = n + Len(r.calls) - 1
    /\ \A i \in 1..n : s.calls[i] = Call(children[i], rows[children[i]], id)
    /\ \A i \in n + 1..Len(s.calls) : s.calls[i] = r.calls[i - n + 1]

\* CopyNext is such a call, and leaves the other requests alone.
LEMMA CopyStep ==
    ASSUME IInv, IdsDrawn, NEW p \in Web, CopyNext(p)
    PROVE  /\ \E id, copy, children :
                 /\ Onward(request[p], request'[p], id, copy, children)
                 /\ drawn' = drawn \cup {id} \cup Range(copy)
           /\ request[p].step = "copy" /\ CopyOK(p)
           /\ Len(request[p].calls) \in Nat \ {0}
           /\ request[p].calls[1].under # Nowhere =>
                 request[p].calls[1].under \in DOMAIN request[p].made \cup DOMAIN assets
           /\ UNCHANGED <<assets, home, race>>
           /\ \A q \in Web \ {p} : request'[q] = request[q]
           /\ IsFiniteSet(SensorsOn(Over(request[p].hosts, home), request[p].calls[1].from))
<1> DEFINE r == request[p]
           call == Head(r.calls)
           rows == Over(r.made, assets)
           mine == SensorsOn(Over(r.hosts, home), call.from)
           kids == ChildrenOf(rows, call.from)
<1>1. CopyOK(p) /\ r.step = "copy"
    BY DEF IInv, RequestOK, CopyNext
<1>2. /\ r.calls # << >>
      /\ call.under # Nowhere => call.under \in DOMAIN rows
      /\ UNCHANGED <<assets, home, race, loose>>
    BY DEF CopyNext
<1>3. PICK new \in Numbering({call.from}, AssetId), copy \in Numbering(mine, SensorId),
           children \in SetToSeqs(kids) :
        /\ drawn' = drawn \cup Range(new) \cup Range(copy)
        /\ request' = [request EXCEPT ![p] = Copied(r, new, copy, children, rows)]
    BY DEF CopyNext
<1>4. /\ r.calls \in Seq(CallType) /\ call = r.calls[1] /\ Len(r.calls) \in Nat \ {0}
      /\ Tail(r.calls) \in Seq(CallType) /\ Len(Tail(r.calls)) = Len(r.calls) - 1
      /\ \A i \in 1..Len(Tail(r.calls)) : Tail(r.calls)[i] = r.calls[i + 1]
    BY <1>1, <1>2 DEF CopyOK
<1> DEFINE id == new[call.from]
           s == Copied(r, new, copy, children, rows)
<1>5. /\ new \in [{call.from} -> AssetId \ drawn] /\ Range(new) = {id}
      /\ \A i \in AssetId \ drawn : i < id => id = i
  <2>1. /\ new \in [{call.from} -> AssetId \ drawn]
        /\ \A x \in {call.from}, i \in AssetId \ drawn :
              i < new[x] => \E y \in {call.from} : new[y] = i
      BY DEF Numbering
  <2> QED
      BY <2>1 DEF Range
<1>6. id \in AssetId \ drawn /\ \A i \in AssetId \ drawn : id <= i
  <2>1. \A i \in AssetId : i \in Nat
      BY AssetsAssumption
  <2> QED
      BY <1>5, <2>1
<1>7. /\ copy \in [mine -> SensorId \ drawn]
      /\ \A x, y \in mine : x < y => copy[x] < copy[y]
    BY DEF Numbering
<1>8. mine \subseteq DOMAIN r.hosts \cup DOMAIN home
    BY DEF SensorsOn, Over
<1>9. mine \subseteq SensorId /\ IsFiniteSet(mine)
  <2>1. DOMAIN r.hosts \subseteq SensorId /\ DOMAIN home \subseteq SensorId
      BY <1>1 DEF CopyOK, IInv, Types
  <2>2. IsFiniteSet(DOMAIN r.hosts) /\ IsFiniteSet(DOMAIN home)
      BY <1>1 DEF IdsDrawn
  <2>3. IsFiniteSet(DOMAIN r.hosts \cup DOMAIN home)
      BY <2>2, FS_Union
  <2> QED
      BY <1>8, <2>1, <2>3, FS_Subset
<1>10. \A x, y \in DOMAIN copy : copy[x] = copy[y] => x = y
  <2> HIDE DEF mine
  <2>1. \A x \in mine : x \in Nat /\ copy[x] \in Nat
      BY <1>7, <1>9, AssetsAssumption
  <2> QED
      BY <1>7, <2>1
<1>11. kids \subseteq DOMAIN rows /\ IsFiniteSet(kids) /\ Cardinality(kids) \in Nat
  <2>1. IsFiniteSet(DOMAIN r.made) /\ IsFiniteSet(DOMAIN assets)
      BY <1>1 DEF CopyOK, IInv, Types
  <2>2. IsFiniteSet(DOMAIN r.made \cup DOMAIN assets)
      BY <2>1, FS_Union
  <2>3. DOMAIN rows = DOMAIN r.made \cup DOMAIN assets /\ kids \subseteq DOMAIN rows
      BY DEF Over, ChildrenOf
  <2> QED
      BY <2>2, <2>3, FS_Subset, FS_CardinalityType
<1> DEFINE n == Cardinality(kids)
<1> HIDE DEF kids
<1>12. /\ children \in [1..n -> kids]
       /\ \A i, j \in 1..n : children[i] = children[j] => i = j
    BY DEF SetToSeqs
<1>13. \A c \in kids : \E i \in 1..n : children[i] = c
  <2>1. children \in Injection(1..n, kids)
      BY <1>12 DEF Injection, IsInjective
  <2>2. Cardinality(1..n) = n
      BY <1>11, FS_Interval
  <2>3. children \in Surjection(1..n, kids)
      BY <1>11, <2>1, <2>2, FS_Injection
  <2> QED
      BY <2>3 DEF Surjection
<1>14. request'[p] = s /\ \A q \in Web \ {p} : request'[q] = request[q]
    BY <1>3 DEF IInv, Types
<1>15. Continues(r, s, new, copy, children, rows)
  <2>1. Copies(r)
      BY <1>1 DEF CopyOK
  <2> HIDE DEF r
  <2>2. ASSUME NEW t, Copies(t)
        PROVE  Continues(t, Copied(t, new, copy, children, rows), new, copy, children, rows)
      BY <2>2, CopiedFields
  <2> QED
      BY <2>1, <2>2, Zenon
<1> DEFINE more == [i \in DOMAIN children |->
                       Call(children[i], rows[children[i]], new[call.from])]
<1>16. /\ s.step = r.step /\ s.of = r.of /\ s.under = r.under
       /\ s.origin = Over([a \in Range(new) |-> call.from], r.origin)
       /\ s.made = Over([a \in Range(new) |->
              [call.row EXCEPT !.parent = call.under, !.account = r.account]], r.made)
       /\ s.hosts = Over([x \in Range(copy) |-> id], r.hosts)
       /\ s.map = Over(copy, r.map)
       /\ s.calls = more \o Tail(r.calls)
    BY <1>15, Zenon DEF Continues
<1>17. /\ Len(s.calls) = n + Len(r.calls) - 1
       /\ \A i \in 1..n : s.calls[i] = Call(children[i], rows[children[i]], id)
       /\ \A i \in n + 1..Len(s.calls) : s.calls[i] = r.calls[i - n + 1]
  <2> DEFINE Entry == {more[i] : i \in 1..n} \cup CallType
             rest == Tail(r.calls)
  <2>1. more \in Seq(Entry) /\ Len(more) = n
        /\ \A i \in 1..n : more[i] = Call(children[i], rows[children[i]], id)
    <3>1. more = [i \in 1..n |-> more[i]]
        BY <1>12
    <3> HIDE DEF more
    <3>2. more \in Seq(Entry) /\ Len(more) = n
        BY <1>11, <3>1
    <3> QED
        BY Zenon, <1>12, <3>2 DEF more
  <2>2. rest \in Seq(Entry)
    <3>1. CallType \subseteq Entry
        BY SMTT(30)
    <3> HIDE DEF Entry
    <3> QED
        BY <1>4, <3>1
  <2>3. s.calls = more \o rest
      BY Zenon, <1>16
  <2>4. /\ Len(rest) = Len(r.calls) - 1
        /\ \A i \in 1..Len(rest) : rest[i] = r.calls[i + 1]
      BY <1>4
  <2> HIDE DEF more, Entry, s, rest, r
  <2>5. /\ Len(s.calls) = n + Len(rest)
        /\ \A i \in 1..n : s.calls[i] = more[i]
        /\ \A i \in n + 1..n + Len(rest) : s.calls[i] = rest[i - n]
    <3> DEFINE calls == more \o rest
    <3>1. Len(more) = n /\ more \in Seq(Entry) /\ Len(rest) \in Nat
        BY <2>1, <2>2
    <3>2. Len(calls) = n + Len(rest)
        BY <2>2, <3>1
    <3>3. \A i \in 1..n : calls[i] = more[i]
        BY <1>11, <2>2, <3>1
    <3> HIDE DEF n
    <3>4. \A i \in n + 1..n + Len(rest) : calls[i] = rest[i - n]
      <4>1. n \in Nat
          BY <1>11 DEF n
      <4> QED
          BY <2>2, <3>1, <4>1
    <3> QED
        BY <2>3, <3>2, <3>3, <3>4
  <2>6. \A i \in n + 1..n + Len(rest) : i - n \in 1..Len(rest) /\ (i - n) + 1 = i - n + 1
      BY <1>4, <1>11, <2>4
  <2>7. ASSUME NEW i \in n + 1..Len(s.calls) PROVE s.calls[i] = r.calls[i - n + 1]
      BY <2>4, <2>5, <2>6
  <2> QED
      BY SMTT(30), <1>4, <1>11, <2>1, <2>4, <2>5, <2>7
<1>18. [call.row EXCEPT !.parent = call.under, !.account = r.account].flex = call.row.flex
       /\ [call.row EXCEPT !.parent = call.under, !.account = r.account].parent = call.under
  <2>1. call \in CallType
      BY <1>4
  <2>2. call.row \in AssetRow
      BY SMTT(30), <2>1 DEF CallType
  <2> HIDE DEF call
  <2> QED
      BY <2>2 DEF AssetRow
<1> HIDE DEF s, rows, mine, r
<1>19. /\ DOMAIN s.made = DOMAIN r.made \cup {id}
       /\ s.made[id].parent = call.under /\ s.made[id].flex = call.row.flex
       /\ \A a \in DOMAIN r.made \ {id} : s.made[a] = r.made[a]
    BY ZenonT(30), <1>5, <1>16, <1>18 DEF Over
<1>20. /\ DOMAIN s.origin = DOMAIN r.origin \cup {id}
       /\ s.origin[id] = call.from
       /\ \A a \in DOMAIN r.origin \ {id} : s.origin[a] = r.origin[a]
    BY ZenonT(30), <1>5, <1>16 DEF Over
<1>21. /\ DOMAIN s.hosts = DOMAIN r.hosts \cup Range(copy)
       /\ \A h \in DOMAIN s.hosts : s.hosts[h] = IF h \in Range(copy) THEN id ELSE r.hosts[h]
       /\ DOMAIN s.map = DOMAIN r.map \cup DOMAIN copy
       /\ \A x \in DOMAIN s.map : s.map[x] = IF x \in DOMAIN copy THEN copy[x] ELSE r.map[x]
    BY SMTT(30), <1>16 DEF Over
<1>22. Onward(r, s, id, copy, children)
  <2>1. r.calls[1] = call /\ r.step = "copy"
      BY <1>1, <1>4 DEF r
  <2> HIDE DEF call
  <2> QED
      BY ZenonT(30), <1>6, <1>7, <1>10, <1>11, <1>12, <1>13, <1>16, <1>17, <1>19, <1>20, <1>21, <2>1
         DEF Onward, kids, rows, mine
<1>23. drawn' = drawn \cup {id} \cup Range(copy)
    BY <1>3, <1>5
<1>24. DOMAIN rows = DOMAIN r.made \cup DOMAIN assets
    BY DEF rows, Over
<1> QED
    BY <1>1, <1>2, <1>4, <1>9, <1>14, <1>22, <1>23, <1>24 DEF r, mine

-----------------------------------------------------------------------------
(* A call keeps all that is known of a copy.                               *)

\* A call of a copy that nobody disturbed.
Undisturbed(r, s, id, copy, children) ==
    /\ Copying(r) /\ Onward(r, s, id, copy, children)
    /\ Len(r.calls) \in Nat \ {0}
    /\ r.calls[1].under # Nowhere => r.calls[1].under \in DOMAIN r.made \cup DOMAIN assets
    /\ DOMAIN assets \cup DOMAIN home \cup DOMAIN r.made \cup DOMAIN r.hosts \subseteq drawn
    /\ DOMAIN r.made \subseteq AssetId
    /\ UNCHANGED <<assets, home>> /\ drawn' = drawn \cup {id} \cup Range(copy)

\* What it copies is as it was, what it makes is new, and n more calls are for children.
Proceeds(r, s, id, copy, children, n) ==
    LET from == r.calls[1].from
        under == r.calls[1].under
        kids == ChildrenOf(assets, from) IN
    /\ from \in Subtree(assets, r.of) /\ from \in DOMAIN assets
    /\ Link(r, from, under) /\ s.made[id].flex = assets[from].flex
    /\ id \in Nat /\ id \notin DOMAIN r.made /\ id \notin DOMAIN assets
    /\ id # r.under /\ r.under \in drawn \cup {Nowhere}
    /\ kids \subseteq Subtree(assets, r.of)
    /\ DOMAIN copy = {x \in DOMAIN home : home[x] = from}
    /\ \A i \in 1..n : children[i] \in kids
    /\ \A c \in kids : \E i \in 1..n : children[i] = c
    /\ \A i, j \in 1..n : children[i] = children[j] => i = j
    /\ Len(s.calls) = n + Len(r.calls) - 1
    /\ \A i \in 1..n : /\ s.calls[i].from = children[i] /\ s.calls[i].under = id
                       /\ s.calls[i].row = assets[children[i]]
    /\ \A i \in n + 1..Len(s.calls) : s.calls[i] = r.calls[i - n + 1]

\* That holds of each call of a copy that nobody disturbed.
LEMMA CallIs ==
    ASSUME IInv, NEW r, NEW s, NEW id, NEW copy, NEW children,
           Undisturbed(r, s, id, copy, children)
    PROVE  \E n \in Nat : Proceeds(r, s, id, copy, children, n)
<1> DEFINE tree == Subtree(assets, r.of)
           from == r.calls[1].from
           under == r.calls[1].under
           rows == Over(r.made, assets)
<1>1. Placed(r) /\ Novel(r) /\ Linked(r) /\ Mapped(r) /\ Onward(r, s, id, copy, children)
    BY DEF Undisturbed, Copying
<1>2. 1 \in 1..Len(r.calls)
    BY DEF Undisturbed
<1>3. IsFiniteSet(DOMAIN assets) /\ r.of \in DOMAIN assets
    BY <1>1 DEF IInv, Types, Placed
<1>4. /\ tree \subseteq DOMAIN assets
      /\ \A b \in tree : ChildrenOf(assets, b) \subseteq tree
  <2> HIDE DEF tree
  <2>1. /\ r.of \in tree /\ tree \subseteq DOMAIN assets
        /\ \A b \in tree : ChildrenOf(assets, b) \subseteq tree
      BY <1>3, SubtreeIs DEF tree
  <2> QED
      BY <2>1
<1>5. /\ from \in tree /\ Link(r, from, under) /\ r.calls[1].row = assets[from]
      /\ from \in DOMAIN assets
    BY <1>1, <1>2, <1>4 DEF Linked
<1>6. /\ id \in AssetId \ drawn /\ id \in Nat
      /\ s.made[id].flex = r.calls[1].row.flex
    BY <1>1, AssetsAssumption DEF Onward
<1>7. id \notin DOMAIN r.made /\ id \notin DOMAIN assets
    BY <1>6 DEF Undisturbed
<1>8. r.under \in drawn \cup {Nowhere}
  <2>1. CASE DOMAIN r.made = {}
    <3>1. under = r.under
        BY <1>5, <2>1 DEF Link
    <3> QED
        BY <2>1, <3>1 DEF Undisturbed
  <2> QED
      BY <1>1, <2>1 DEF Placed
<1>9. id # r.under
    BY <1>6, <1>8, AssetsAssumption
<1>10. /\ DOMAIN rows = DOMAIN r.made \cup DOMAIN assets
       /\ \A a \in DOMAIN assets : rows[a] = assets[a]
       /\ \A a \in DOMAIN r.made : rows[a] = r.made[a]
    BY <1>1 DEF Novel, Over
<1>11. \A a \in DOMAIN r.made : r.made[a].parent # from
  <2>1. \A a \in DOMAIN r.made : r.made[a].parent \in DOMAIN r.made \cup {r.under}
      BY <1>1 DEF Linked, Link
  <2>2. from \notin DOMAIN r.made /\ from # r.under
      BY <1>1, <1>5 DEF Novel, Placed
  <2> QED
      BY <2>1, <2>2
<1>12. ChildrenOf(rows, from) = ChildrenOf(assets, from)
  <2> HIDE DEF rows, from
  <2> QED
      BY <1>10, <1>11 DEF ChildrenOf
<1>13. ChildrenOf(assets, from) \subseteq tree
    BY <1>4, <1>5
<1>14. SensorsOn(Over(r.hosts, home), from) = {x \in DOMAIN home : home[x] = from}
  <2>1. from \notin DOMAIN r.made
      BY <1>1, <1>5 DEF Novel
  <2>2. \A h \in DOMAIN r.hosts : r.hosts[h] # from
      BY <1>1, <2>1 DEF Mapped
  <2>3. DOMAIN r.hosts \cap DOMAIN home = {}
      BY <1>1 DEF Novel
  <2> HIDE DEF from
  <2> QED
      BY <2>2, <2>3 DEF SensorsOn, Over
<1> DEFINE kids == ChildrenOf(rows, from)
           n == Cardinality(kids)
<1>15. /\ DOMAIN copy = SensorsOn(Over(r.hosts, home), from)
       /\ n \in Nat
       /\ \A i \in 1..n : children[i] \in kids
       /\ \A c \in kids : \E i \in 1..n : children[i] = c
       /\ \A i, j \in 1..n : children[i] = children[j] => i = j
       /\ Len(s.calls) = n + Len(r.calls) - 1
       /\ \A i \in 1..n : s.calls[i] = Call(children[i], rows[children[i]], id)
       /\ \A i \in n + 1..Len(s.calls) : s.calls[i] = r.calls[i - n + 1]
    BY <1>1 DEF Onward
<1>16. ASSUME NEW i \in 1..n
       PROVE  /\ s.calls[i].from = children[i] /\ s.calls[i].under = id
              /\ s.calls[i].row = assets[children[i]]
  <2>1. s.calls[i] = Call(children[i], rows[children[i]], id)
      BY <1>15
  <2>2. children[i] \in DOMAIN assets
      BY <1>12, <1>15 DEF ChildrenOf
  <2>3. rows[children[i]] = assets[children[i]]
      BY <1>10, <2>2
  <2> HIDE DEF rows
  <2> QED
      BY <2>1, <2>3 DEF Call
<1> HIDE DEF rows, tree, n
<1>17. Proceeds(r, s, id, copy, children, n)
    BY <1>5, <1>6, <1>7, <1>8, <1>9, <1>12, <1>13, <1>14, <1>15, <1>16
       DEF Proceeds, tree, kids, from, under
<1> QED
    BY <1>15, <1>17

\* Links stay, and the new row links its children.
LEMMA LinksGrow ==
    ASSUME IInv, NEW r, NEW s, NEW id, NEW copy, NEW children,
           Undisturbed(r, s, id, copy, children), NEW from, NEW under
    PROVE  /\ id # r.under /\ id \notin DOMAIN r.made
           /\ s.of = r.of /\ s.under = r.under
           /\ DOMAIN s.made = DOMAIN r.made \cup {id} /\ DOMAIN s.origin = DOMAIN s.made
           /\ s.origin[id] = r.calls[1].from
           /\ s.made[id].parent = r.calls[1].under
           /\ \A a \in DOMAIN r.made : s.made[a] = r.made[a] /\ s.origin[a] = r.origin[a]
           /\ Link(r, from, under) => Link(s, from, under)
           /\ Link(s, from, under) =>
                 \/ Link(r, from, under)
                 \/ under = id /\ r.calls[1].from = assets[from].parent
<1>1. /\ id \notin DOMAIN r.made /\ id # r.under
    BY ZenonT(30), CallIs DEF Proceeds
<1>2. DOMAIN r.origin = DOMAIN r.made
    BY DEF Undisturbed, Copying, Novel
<1>3. Onward(r, s, id, copy, children)
    BY DEF Undisturbed
<1>4. /\ s.of = r.of /\ s.under = r.under
      /\ DOMAIN s.made = DOMAIN r.made \cup {id} /\ DOMAIN s.origin = DOMAIN s.made
      /\ s.origin[id] = r.calls[1].from
      /\ s.made[id].parent = r.calls[1].under
      /\ \A a \in DOMAIN r.made : s.made[a] = r.made[a] /\ s.origin[a] = r.origin[a]
    BY <1>1, <1>2, <1>3 DEF Onward
<1> QED
    BY <1>1, <1>4 DEF Link

\* The place of the copy stays outside of what is copied and made,
LEMMA StaysPlaced ==
    ASSUME IInv, NEW r, NEW s, NEW id, NEW copy, NEW children,
           Undisturbed(r, s, id, copy, children)
    PROVE  Placed(s)'
<1>1. Placed(r)
    BY DEF Undisturbed, Copying
<1>2. r.under \in drawn \cup {Nowhere} /\ id # r.under
    BY ZenonT(30), CallIs DEF Proceeds
<1>3. /\ s.of = r.of /\ s.under = r.under /\ DOMAIN s.made = DOMAIN r.made \cup {id}
    BY LinksGrow
<1>4. /\ assets' = assets /\ drawn \subseteq drawn'
    BY DEF Undisturbed
<1> QED
    BY <1>1, <1>2, <1>3, <1>4 DEF Placed

\* ids stay new and ascending,
LEMMA StaysNovel ==
    ASSUME IInv, NEW r, NEW s, NEW id, NEW copy, NEW children,
           Undisturbed(r, s, id, copy, children)
    PROVE  Novel(s)'
<1>1. Novel(r) /\ Onward(r, s, id, copy, children)
    BY DEF Undisturbed, Copying
<1>2. id \in Nat /\ id \notin DOMAIN r.made /\ id \notin DOMAIN assets
    BY CallIs DEF Proceeds
<1>3. /\ DOMAIN s.made = DOMAIN r.made \cup {id} /\ DOMAIN s.origin = DOMAIN s.made
    BY LinksGrow
<1>4. /\ assets' = assets /\ home' = home
      /\ drawn \cup {id} \subseteq drawn' /\ DOMAIN home \subseteq drawn
    BY DEF Undisturbed
<1>5. DOMAIN s.hosts \cap DOMAIN home = {}
  <2>1. Range(copy) \cap drawn = {}
      BY <1>1 DEF Onward, Range
  <2>2. DOMAIN s.hosts = DOMAIN r.hosts \cup Range(copy)
      BY <1>1 DEF Onward
  <2> QED
      BY <1>1, <1>4, <2>1, <2>2 DEF Novel
<1>6. \A i \in AssetId : i <= id => i \in drawn'
  <2>1. \A i \in AssetId \ drawn : id <= i
      BY <1>1 DEF Onward
  <2>2. \A i \in AssetId : i \in Nat
      BY AssetsAssumption
  <2>3. ASSUME NEW i \in AssetId, i <= id PROVE i \in drawn \cup {id}
      BY <1>2, <2>1, <2>2, <2>3
  <2> QED
      BY <1>4, <2>3
<1>7. \A a \in DOMAIN s.made, i \in AssetId : i <= a => i \in drawn'
    BY <1>1, <1>3, <1>4, <1>6 DEF Novel
<1> QED
    BY <1>1, <1>2, <1>3, <1>4, <1>5, <1>7 DEF Novel

\* the new row and the new calls are linked as their originals are,
LEMMA StaysLinked ==
    ASSUME IInv, NEW r, NEW s, NEW id, NEW copy, NEW children,
           Undisturbed(r, s, id, copy, children)
    PROVE  Linked(s)'
<1>1. Linked(r) /\ Novel(r)
    BY DEF Undisturbed, Copying
<1> DEFINE from == r.calls[1].from
           under == r.calls[1].under
           kids == ChildrenOf(assets, from)
<1>0. PICK n \in Nat : Proceeds(r, s, id, copy, children, n)
    BY CallIs
<1>2. /\ from \in Subtree(assets, r.of)
      /\ Link(r, from, under) /\ s.made[id].flex = assets[from].flex
      /\ id \in Nat
      /\ kids \subseteq Subtree(assets, r.of)
      /\ n \in Nat
      /\ \A i \in 1..n : children[i] \in kids
      /\ Len(s.calls) = n + Len(r.calls) - 1
      /\ \A i \in 1..n : /\ s.calls[i].from = children[i] /\ s.calls[i].under = id
                         /\ s.calls[i].row = assets[children[i]]
      /\ \A i \in n + 1..Len(s.calls) : s.calls[i] = r.calls[i - n + 1]
    BY <1>0 DEF Proceeds
<1>3. /\ id # r.under /\ id \notin DOMAIN r.made
      /\ s.of = r.of /\ s.under = r.under
      /\ DOMAIN s.made = DOMAIN r.made \cup {id}
      /\ s.origin[id] = from /\ s.made[id].parent = under
      /\ \A a \in DOMAIN r.made : s.made[a] = r.made[a] /\ s.origin[a] = r.origin[a]
    BY LinksGrow
<1>4. \A x, y : Link(r, x, y) => Link(s, x, y)
    BY LinksGrow
<1>5. assets' = assets /\ Len(r.calls) \in Nat \ {0} /\ DOMAIN r.made \subseteq drawn
      /\ DOMAIN r.made \subseteq AssetId
    BY DEF Undisturbed
<1>6. ASSUME NEW a \in DOMAIN s.made
      PROVE  /\ s.origin[a] \in Subtree(assets, s.of)
             /\ Link(s, s.origin[a], s.made[a].parent)
             /\ s.made[a].parent \in DOMAIN s.made => s.made[a].parent < a
             /\ s.made[a].flex = assets[s.origin[a]].flex
  <2>1. CASE a = id
    <3>1. under \in DOMAIN s.made => under \in DOMAIN r.made
      <4>1. under \in DOMAIN r.made \cup {r.under}
          BY <1>2 DEF Link
      <4> QED
          BY <1>3, <4>1
    <3>2. \A b \in DOMAIN r.made : b < id
      <4>1. id \in AssetId \ drawn
          BY DEF Undisturbed, Onward
      <4>2. \A b \in DOMAIN r.made : id <= b => id \in drawn
          BY <1>1, <4>1 DEF Novel
      <4>3. \A b \in DOMAIN r.made : b \in Nat
          BY <1>5, AssetsAssumption
      <4> QED
          BY <1>2, <4>1, <4>2, <4>3
    <3> QED
        BY <1>2, <1>3, <1>4, <2>1, <3>1, <3>2
  <2>2. CASE a \in DOMAIN r.made
    <3>1. s.made[a] = r.made[a] /\ s.origin[a] = r.origin[a]
        BY <1>3, <2>2
    <3>2. Link(r, r.origin[a], r.made[a].parent)
        BY <1>1, <2>2 DEF Linked
    <3>3. r.made[a].parent # id
        BY <1>3, <3>2 DEF Link
    <3> QED
        BY <1>1, <1>3, <1>4, <2>2, <3>1, <3>2, <3>3 DEF Linked
  <2> QED
      BY <1>3, <2>1, <2>2
<1>7. ASSUME NEW i \in 1..Len(s.calls)
      PROVE  /\ s.calls[i].from \in Subtree(assets, s.of)
             /\ Link(s, s.calls[i].from, s.calls[i].under)
             /\ s.calls[i].row = assets[s.calls[i].from]
  <2>1. CASE i \in 1..n
    <3>1. /\ s.calls[i].from = children[i] /\ s.calls[i].under = id
          /\ s.calls[i].row = assets[children[i]]
        BY <1>2, <2>1
    <3>2. children[i] \in kids
        BY <1>2, <2>1
    <3>3. assets[children[i]].parent = from
        BY <3>2 DEF ChildrenOf
    <3>4. Link(s, children[i], id)
        BY <1>3, <3>3 DEF Link
    <3> QED
        BY <1>2, <1>3, <3>1, <3>2, <3>4
  <2>2. CASE i \notin 1..n
    <3>1. i \in n + 1..Len(s.calls) /\ i - n + 1 \in 1..Len(r.calls)
        BY <1>2, <1>5, <2>2
    <3>2. s.calls[i] = r.calls[i - n + 1]
        BY <1>2, <3>1
    <3> QED
        BY <1>1, <1>3, <1>4, <3>1, <3>2 DEF Linked
  <2> QED
      BY <2>1, <2>2
<1>8. \A x, y : Link(s, x, y)' <=> Link(s, x, y)
    BY <1>5 DEF Link
<1>9. \A a : Subtree(assets, a)' = Subtree(assets, a)
    BY <1>5
<1> QED
    BY <1>5, <1>6, <1>7, <1>8, <1>9 DEF Linked

\* no pair comes to be there twice,
LEMMA StaysOnce ==
    ASSUME IInv, NEW r, NEW s, NEW id, NEW copy, NEW children,
           Undisturbed(r, s, id, copy, children)
    PROVE  Once(s)'
<1>1. Once(r) /\ Linked(r) /\ Placed(r)
    BY DEF Undisturbed, Copying
<1> DEFINE from == r.calls[1].from
           under == r.calls[1].under
           kids == ChildrenOf(assets, from)
<1>0. PICK n \in Nat : Proceeds(r, s, id, copy, children, n)
    BY CallIs
<1>2. /\ n \in Nat
      /\ \A i, j \in 1..n : children[i] = children[j] => i = j
      /\ Len(s.calls) = n + Len(r.calls) - 1
      /\ \A i \in 1..n : /\ s.calls[i].from = children[i] /\ s.calls[i].under = id
                         /\ s.calls[i].row = assets[children[i]]
      /\ \A i \in n + 1..Len(s.calls) : s.calls[i] = r.calls[i - n + 1]
      /\ Link(r, from, under)
    BY <1>0 DEF Proceeds
<1>3. /\ id # r.under /\ id \notin DOMAIN r.made
      /\ DOMAIN s.made = DOMAIN r.made \cup {id}
      /\ s.origin[id] = from /\ s.made[id].parent = under
      /\ \A a \in DOMAIN r.made : s.made[a] = r.made[a] /\ s.origin[a] = r.origin[a]
    BY LinksGrow
<1>4. assets' = assets /\ Len(r.calls) \in Nat \ {0}
    BY DEF Undisturbed
<1>5. \A x, y : Link(r, x, y) => y # id
    BY <1>3 DEF Link
<1>6. 1 \in 1..Len(r.calls)
    BY <1>4
<1>7. /\ \A i \in 1..n : s.calls[i].from = children[i] /\ s.calls[i].under = id
      /\ \A i \in 1..Len(s.calls) \ 1..n :
            i - n + 1 \in 2..Len(r.calls) /\ s.calls[i] = r.calls[i - n + 1]
  <2>1. \A i \in 1..n : s.calls[i].from = children[i] /\ s.calls[i].under = id
      BY <1>2
  <2>2. \A i \in 1..Len(s.calls) \ 1..n :
            i \in n + 1..Len(s.calls) /\ i - n + 1 \in 2..Len(r.calls)
      BY <1>2, <1>4
  <2> QED
      BY <1>2, <2>1, <2>2
<1>8. \A i \in 1..Len(r.calls) : r.calls[i].under # id
    BY <1>1, <1>5 DEF Linked
<1>9. \A a \in DOMAIN s.made : s.made[a].parent # id
    BY <1>1, <1>2, <1>3, <1>5 DEF Linked
<1>10. ASSUME NEW a \in DOMAIN s.made, NEW b \in DOMAIN s.made,
              s.origin[a] = s.origin[b], s.made[a].parent = s.made[b].parent
       PROVE  a = b
  <2>1. \A c \in DOMAIN r.made : ~ (r.origin[c] = from /\ r.made[c].parent = under)
      BY <1>1, <1>6 DEF Once, Called
  <2>2. \A c, d \in DOMAIN r.made :
            r.origin[c] = r.origin[d] /\ r.made[c].parent = r.made[d].parent => c = d
      BY <1>1 DEF Once, Made
  <2> QED
      BY <1>3, <1>10, <2>1, <2>2
<1>11. ASSUME NEW i \in 1..Len(s.calls), NEW j \in 1..Len(s.calls),
              s.calls[i].from = s.calls[j].from, s.calls[i].under = s.calls[j].under
       PROVE  i = j
  <2>1. CASE i \in 1..n /\ j \in 1..n
      BY <1>2, <1>7, <1>11, <2>1
  <2>2. CASE i \in 1..n /\ j \notin 1..n
    <3>1. j - n + 1 \in 1..Len(r.calls) /\ s.calls[j] = r.calls[j - n + 1]
        BY <1>7, <2>2
    <3> QED
        BY <1>7, <1>8, <1>11, <2>2, <3>1
  <2>3. CASE i \notin 1..n /\ j \in 1..n
    <3>1. i - n + 1 \in 1..Len(r.calls) /\ s.calls[i] = r.calls[i - n + 1]
        BY <1>7, <2>3
    <3> QED
        BY <1>7, <1>8, <1>11, <2>3, <3>1
  <2>4. CASE i \notin 1..n /\ j \notin 1..n
    <3>1. /\ i - n + 1 \in 1..Len(r.calls) /\ s.calls[i] = r.calls[i - n + 1]
          /\ j - n + 1 \in 1..Len(r.calls) /\ s.calls[j] = r.calls[j - n + 1]
        BY <1>7, <2>4
    <3>2. i - n + 1 = j - n + 1
        BY <1>1, <1>11, <3>1 DEF Once, Called
    <3> QED
        BY <1>2, <3>2
  <2> QED
      BY <2>1, <2>2, <2>3, <2>4
<1>12. ASSUME NEW a \in DOMAIN s.made, NEW i \in 1..Len(s.calls),
              s.calls[i].from = s.origin[a], s.calls[i].under = s.made[a].parent
       PROVE  FALSE
  <2>1. i \notin 1..n
      BY <1>7, <1>9, <1>12
  <2>2. i - n + 1 \in 2..Len(r.calls) /\ s.calls[i] = r.calls[i - n + 1]
      BY <1>7, <2>1
  <2>3. CASE a = id
    <3>1. Called(r, i - n + 1, from, under) /\ i - n + 1 \in 1..Len(r.calls)
        BY <1>3, <1>12, <2>2, <2>3 DEF Called
    <3>2. i - n + 1 = 1
        BY <1>1, <1>6, <3>1 DEF Once
    <3> QED
        BY <2>2, <3>2
  <2>4. CASE a # id
    <3>1. /\ a \in DOMAIN r.made /\ i - n + 1 \in 1..Len(r.calls)
          /\ Called(r, i - n + 1, r.origin[a], r.made[a].parent)
        BY <1>3, <1>12, <2>2, <2>4 DEF Called
    <3> QED
        BY <1>1, <3>1 DEF Once
  <2> QED
      BY <2>3, <2>4
<1> QED
    BY <1>10, <1>11, <1>12 DEF Once, Made, Called

\* every pair is still there: the call as its row, and its children as calls,
LEMMA StaysCovered ==
    ASSUME IInv, NEW r, NEW s, NEW id, NEW copy, NEW children,
           Undisturbed(r, s, id, copy, children)
    PROVE  Covered(s)'
<1>1. Covered(r)
    BY DEF Undisturbed, Copying
<1> DEFINE f == r.calls[1].from
           u == r.calls[1].under
           kids == ChildrenOf(assets, f)
<1>0. PICK n \in Nat : Proceeds(r, s, id, copy, children, n)
    BY CallIs
<1>2. /\ n \in Nat
      /\ \A c \in kids : \E i \in 1..n : children[i] = c
      /\ Len(s.calls) = n + Len(r.calls) - 1
      /\ \A i \in 1..n : /\ s.calls[i].from = children[i] /\ s.calls[i].under = id
                         /\ s.calls[i].row = assets[children[i]]
      /\ \A i \in n + 1..Len(s.calls) : s.calls[i] = r.calls[i - n + 1]
    BY <1>0 DEF Proceeds
<1>3. /\ DOMAIN s.made = DOMAIN r.made \cup {id} /\ s.under = r.under /\ s.of = r.of
      /\ id # r.under /\ id \notin DOMAIN r.made
      /\ s.origin[id] = f /\ s.made[id].parent = u
      /\ \A a \in DOMAIN r.made : s.made[a] = r.made[a] /\ s.origin[a] = r.origin[a]
    BY LinksGrow
<1>4. assets' = assets /\ Len(r.calls) \in Nat \ {0}
    BY DEF Undisturbed
<1>5. \A x, y : Link(s, x, y) => Link(r, x, y) \/ (y = id /\ f = assets[x].parent)
    BY LinksGrow
<1> SUFFICES ASSUME NEW from \in DOMAIN assets, NEW under \in DOMAIN s.made \cup {s.under},
                    Link(s, from, under)
             PROVE  \/ \E a \in DOMAIN s.made : Made(s, a, from, under)
                    \/ \E i \in 1..Len(s.calls) : Called(s, i, from, under)
  <2>1. \A x, y : Link(s, x, y)' <=> Link(s, x, y)
      BY <1>4 DEF Link
  <2> QED
      BY <1>4, <2>1 DEF Covered, Made, Called
<1>6. CASE under = id /\ f = assets[from].parent
  <2>1. from \in kids
      BY <1>6 DEF ChildrenOf
  <2>2. PICK i \in 1..n : children[i] = from
      BY <1>2, <2>1
  <2>3. i \in 1..Len(s.calls) /\ s.calls[i].from = from /\ s.calls[i].under = id
      BY <1>2, <1>4, <2>2
  <2> QED
      BY <1>6, <2>3 DEF Called
<1>7. CASE Link(r, from, under)
  <2>1. under \in DOMAIN r.made \cup {r.under}
      BY <1>7 DEF Link
  <2>2. \/ \E a \in DOMAIN r.made : Made(r, a, from, under)
        \/ \E i \in 1..Len(r.calls) : Called(r, i, from, under)
      BY <1>1, <1>7, <2>1 DEF Covered
  <2>3. CASE \E a \in DOMAIN r.made : Made(r, a, from, under)
      BY <1>3, <2>3 DEF Made
  <2>4. ASSUME NEW i \in 1..Len(r.calls), Called(r, i, from, under)
        PROVE  \/ \E a \in DOMAIN s.made : Made(s, a, from, under)
               \/ \E j \in 1..Len(s.calls) : Called(s, j, from, under)
    <3>1. CASE i = 1
        BY <1>3, <2>4, <3>1 DEF Called, Made
    <3>2. CASE i # 1
      <4>1. /\ n + i - 1 \in n + 1..Len(s.calls) /\ n + i - 1 \in 1..Len(s.calls)
            /\ (n + i - 1) - n + 1 = i
          BY <1>2, <1>4, <3>2
      <4>2. s.calls[n + i - 1] = r.calls[i]
          BY <1>2, <4>1
      <4> QED
          BY <2>4, <4>1, <4>2 DEF Called
    <3> QED
        BY <3>1, <3>2
  <2> QED
      BY <2>2, <2>3, <2>4
<1> QED
    BY <1>5, <1>6, <1>7

\* and the sensors of the asset are mapped to copies on its copy.
LEMMA StaysMapped ==
    ASSUME IInv, NEW r, NEW s, NEW id, NEW copy, NEW children,
           Undisturbed(r, s, id, copy, children)
    PROVE  Mapped(s)'
<1>1. Mapped(r) /\ Onward(r, s, id, copy, children)
    BY DEF Undisturbed, Copying
<1> DEFINE from == r.calls[1].from
<1>2. DOMAIN copy = {x \in DOMAIN home : home[x] = from}
    BY CallIs DEF Proceeds
<1>3. /\ DOMAIN s.made = DOMAIN r.made \cup {id} /\ id \notin DOMAIN r.made
      /\ s.origin[id] = from
      /\ \A a \in DOMAIN r.made : s.origin[a] = r.origin[a]
    BY LinksGrow
<1>4. /\ home' = home /\ DOMAIN r.hosts \subseteq drawn
    BY DEF Undisturbed
<1>5. /\ \A x \in DOMAIN copy : copy[x] \in Range(copy)
      /\ \A h \in Range(copy) : \E x \in DOMAIN copy : copy[x] = h
      /\ \A x, y \in DOMAIN copy : copy[x] = copy[y] => x = y
      /\ Range(copy) \cap DOMAIN r.hosts = {}
  <2>1. copy \in [DOMAIN copy -> SensorId \ drawn]
      BY <1>1 DEF Onward
  <2> QED
      BY <1>1, <1>4, <2>1 DEF Onward, Range
<1>6. /\ DOMAIN s.hosts = DOMAIN r.hosts \cup Range(copy)
      /\ \A h \in Range(copy) : s.hosts[h] = id
      /\ \A h \in DOMAIN r.hosts : s.hosts[h] = r.hosts[h]
      /\ DOMAIN s.map = DOMAIN r.map \cup DOMAIN copy
      /\ \A x \in DOMAIN copy : s.map[x] = copy[x]
      /\ \A x \in DOMAIN s.map \ DOMAIN copy : s.map[x] = r.map[x]
    BY <1>1, <1>5 DEF Onward
<1>7. /\ DOMAIN r.map = {x \in DOMAIN home : \E a \in DOMAIN r.made : r.origin[a] = home[x]}
      /\ \A h \in DOMAIN r.hosts : r.hosts[h] \in DOMAIN r.made
      /\ \A x \in DOMAIN r.map : r.map[x] \in DOMAIN r.hosts
      /\ \A x \in DOMAIN r.map : r.origin[r.hosts[r.map[x]]] = home[x]
      /\ \A x, y \in DOMAIN r.map : r.map[x] = r.map[y] => x = y
      /\ \A h \in DOMAIN r.hosts :
            \/ \E x \in DOMAIN r.map : r.map[x] = h
            \/ \E a, b \in DOMAIN r.made : a # b /\ r.origin[a] = r.origin[b]
    BY <1>1 DEF Mapped
<1> HIDE DEF from
<1>8. DOMAIN s.map = {x \in DOMAIN home : \E a \in DOMAIN s.made : s.origin[a] = home[x]}
    BY <1>2, <1>3, <1>6, <1>7
<1>9. \A h \in DOMAIN s.hosts : s.hosts[h] \in DOMAIN s.made
    BY <1>3, <1>6, <1>7
<1>10. ASSUME NEW x \in DOMAIN s.map
       PROVE  s.map[x] \in DOMAIN s.hosts /\ s.origin[s.hosts[s.map[x]]] = home[x]
  <2>1. CASE x \in DOMAIN copy
      BY <1>2, <1>3, <1>5, <1>6, <2>1
  <2>2. CASE x \notin DOMAIN copy
    <3>1. x \in DOMAIN r.map /\ s.map[x] = r.map[x] /\ r.map[x] \in DOMAIN r.hosts
        BY <1>6, <1>7, <2>2
    <3>2. s.hosts[s.map[x]] = r.hosts[r.map[x]] /\ r.hosts[r.map[x]] \in DOMAIN r.made
        BY <1>6, <1>7, <3>1
    <3> QED
        BY <1>3, <1>6, <1>7, <3>1, <3>2
  <2> QED
      BY <2>1, <2>2
<1>11. \A x, y \in DOMAIN s.map : s.map[x] = s.map[y] => x = y
    BY <1>5, <1>6, <1>7
<1>12. ASSUME NEW h \in DOMAIN s.hosts
       PROVE  \/ \E x \in DOMAIN s.map : s.map[x] = h
              \/ \E a, b \in DOMAIN s.made : a # b /\ s.origin[a] = s.origin[b]
  <2>1. CASE h \in Range(copy)
      BY <1>5, <1>6, <2>1
  <2>2. CASE h \in DOMAIN r.hosts /\ \E a, b \in DOMAIN r.made : a # b /\ r.origin[a] = r.origin[b]
      BY <1>3, <2>2
  <2>3. ASSUME h \in DOMAIN r.hosts, NEW x \in DOMAIN r.map, r.map[x] = h
        PROVE  \/ \E y \in DOMAIN s.map : s.map[y] = h
               \/ \E a, b \in DOMAIN s.made : a # b /\ s.origin[a] = s.origin[b]
    <3>1. CASE x \in DOMAIN copy
      <4>1. home[x] = from
          BY <1>2, <3>1
      <4>2. r.hosts[h] \in DOMAIN r.made /\ r.origin[r.hosts[h]] = from
          BY <1>7, <2>3, <4>1
      <4> QED
          BY <1>3, <4>2
    <3>2. CASE x \notin DOMAIN copy
        BY <1>6, <2>3, <3>2
    <3> QED
        BY <3>1, <3>2
  <2> QED
      BY <1>6, <1>7, <2>1, <2>2, <2>3
<1> QED
    BY <1>4, <1>8, <1>9, <1>10, <1>11, <1>12 DEF Mapped

-----------------------------------------------------------------------------
(* What is known when no call is left.                                     *)

\* What is finite and numbered.
Sized(r) ==
    /\ IsFiniteSet(DOMAIN assets) /\ IsFiniteSet(DOMAIN home)
    /\ IsFiniteSet(DOMAIN r.made) /\ IsFiniteSet(DOMAIN r.hosts)
    /\ DOMAIN r.made \subseteq Nat

\* If each of some assets has a child among them, there would be no end of copies.
LEMMA NoEndlessLine ==
    ASSUME NEW r, Copying(r), Sized(r), Len(r.calls) = 0,
           NEW K \in SUBSET DOMAIN assets,
           \A x \in K : \E c \in K : assets[c].parent = x,
           NEW a \in DOMAIN r.made, r.origin[a] \in K
    PROVE  FALSE
<1> DEFINE later(b) == {c \in DOMAIN r.made : b < c}
           Sizes == {n \in Nat : \E b \in DOMAIN r.made :
                        r.origin[b] \in K /\ Cardinality(later(b)) = n}
<1>1. \A b \in DOMAIN r.made : IsFiniteSet(later(b)) /\ Cardinality(later(b)) \in Nat
    BY FS_Subset, FS_CardinalityType DEF Sized
<1>2. PICK n \in Sizes : \A m \in Sizes : n <= m
  <2>1. Sizes \in SUBSET Nat /\ Sizes # {}
      BY <1>1
  <2> HIDE DEF Sizes
  <2> QED
      BY <2>1, LeastExists
<1>3. PICK b \in DOMAIN r.made : r.origin[b] \in K /\ Cardinality(later(b)) = n
    BY <1>2
<1>4. PICK c \in K : assets[c].parent = r.origin[b]
    BY <1>3
<1>5. Link(r, c, b) /\ c \in DOMAIN assets
    BY <1>4 DEF Link
<1>6. PICK d \in DOMAIN r.made : Made(r, d, c, b)
    BY <1>5 DEF Copying, Covered
<1>7. b < d /\ r.origin[d] \in K
    BY <1>4, <1>6 DEF Made, Copying, Linked
<1>8. b \in Nat /\ d \in Nat /\ \A e \in DOMAIN r.made : e \in Nat
    BY DEF Sized
<1>9. later(d) \subseteq later(b) /\ d \in later(b) /\ d \notin later(d)
    BY <1>7, <1>8
<1>10. /\ Cardinality(later(d)) \in Nat /\ Cardinality(later(b)) \in Nat
       /\ Cardinality(later(d)) < Cardinality(later(b))
  <2>1. IsFiniteSet(later(b)) /\ later(d) \in SUBSET later(b) /\ later(d) # later(b)
      BY <1>1, <1>9
  <2>2. Cardinality(later(d)) \in Nat /\ Cardinality(later(b)) \in Nat
      BY <1>1
  <2> HIDE DEF later
  <2> QED
      BY <2>1, <2>2, FS_Subset
<1>11. Cardinality(later(d)) \in Sizes
    BY <1>7, <1>10
<1> HIDE DEF later, Sizes
<1> QED
    BY <1>2, <1>3, <1>10, <1>11

\* Each asset of the tree has been copied, once, and nothing else.
LEMMA CopyIsWhole ==
    ASSUME NEW r, Copying(r), Sized(r), Len(r.calls) = 0
    PROVE  /\ {r.origin[a] : a \in DOMAIN r.made} = Subtree(assets, r.of)
           /\ \A a, b \in DOMAIN r.made : r.origin[a] = r.origin[b] => a = b
<1> DEFINE tree == Subtree(assets, r.of)
           origins == {r.origin[a] : a \in DOMAIN r.made}
<1>1. Placed(r) /\ Novel(r) /\ Linked(r) /\ Once(r) /\ Covered(r)
    BY DEF Copying
<1>2. r.of \in DOMAIN assets /\ IsFiniteSet(DOMAIN assets)
    BY <1>1 DEF Placed, Sized
<1>3. /\ r.of \in tree /\ tree \subseteq DOMAIN assets
      /\ \A b \in tree : ChildrenOf(assets, b) \subseteq tree
      /\ \A S : r.of \in S /\ (\A b \in S : ChildrenOf(assets, b) \subseteq S) => tree \subseteq S
  <2> HIDE DEF tree
  <2> QED
      BY <1>2, SubtreeIs DEF tree
<1> HIDE DEF tree
<1>4. \A from \in DOMAIN assets, under \in DOMAIN r.made \cup {r.under} :
          Link(r, from, under) => \E a \in DOMAIN r.made : Made(r, a, from, under)
    BY <1>1 DEF Covered
<1>5. PICK root \in DOMAIN r.made : r.origin[root] = r.of
    BY <1>2, <1>4 DEF Link, Made
<1>6. origins \subseteq tree
    BY <1>1 DEF Linked, tree
<1>7. tree \subseteq origins
  <2>1. ASSUME NEW b \in origins, NEW c \in ChildrenOf(assets, b)
        PROVE  c \in origins
    <3>1. PICK a \in DOMAIN r.made : r.origin[a] = b
        OBVIOUS
    <3>2. c \in DOMAIN assets /\ Link(r, c, a)
        BY <2>1, <3>1 DEF ChildrenOf, Link
    <3>3. PICK d \in DOMAIN r.made : Made(r, d, c, a)
        BY <1>4, <3>2
    <3> QED
        BY <3>3 DEF Made
  <2>2. r.of \in origins
      BY <1>5
  <2> HIDE DEF origins
  <2> QED
      BY <1>3, <2>1, <2>2
<1>8. assets[r.of].parent \notin tree
  <2> DEFINE q == assets[r.of].parent
             K == {x \in DOMAIN assets : q \in Subtree(assets, x)}
  <2> SUFFICES ASSUME q \in tree PROVE FALSE
      OBVIOUS
  <2>1. r.of \in K
      BY <1>2 DEF tree
  <2>2. ASSUME NEW x \in K PROVE \E c \in K : assets[c].parent = x
    <3>1. CASE x = q
        BY <2>1, <3>1
    <3>2. CASE x # q
      <4>1. PICK c \in ChildrenOf(assets, x) : q \in Subtree(assets, c)
          BY <1>2, <3>2, SubtreeSplits
      <4> QED
          BY <4>1 DEF ChildrenOf
    <3> QED
        BY <3>1, <3>2
  <2>3. K \in SUBSET DOMAIN assets
      OBVIOUS
  <2> HIDE DEF K
  <2> QED
      BY <1>5, <2>1, <2>2, <2>3, NoEndlessLine
<1>9. \A a, b \in DOMAIN r.made : r.origin[a] = r.origin[b] => a = b
  <2> DEFINE Bad == {a \in DOMAIN r.made : \E b \in DOMAIN r.made :
                        b # a /\ r.origin[a] = r.origin[b]}
  <2>1. SUFFICES ASSUME Bad # {} PROVE FALSE
      OBVIOUS
  <2>2. PICK a \in Bad : \A c \in Bad : a <= c
    <3>1. Bad \in SUBSET Nat
        BY DEF Sized
    <3> HIDE DEF Bad
    <3> QED
        BY <2>1, <3>1, LeastExists
  <2>3. PICK b \in DOMAIN r.made : b # a /\ r.origin[a] = r.origin[b]
      BY <2>2
  <2> DEFINE x == r.made[a].parent
             y == r.made[b].parent
  <2>4. x # y
      BY <1>1, <2>2, <2>3 DEF Once, Made
  <2>5. Link(r, r.origin[a], x) /\ Link(r, r.origin[a], y)
      BY <1>1, <2>2, <2>3 DEF Linked
  <2>6. x \in DOMAIN r.made /\ y \in DOMAIN r.made /\ r.origin[x] = r.origin[y]
    <3>1. CASE r.origin[a] = r.of
      <4>1. \A z \in DOMAIN r.made : r.origin[z] # assets[r.of].parent
          BY <1>6, <1>8
      <4> QED
          BY <2>4, <2>5, <3>1, <4>1 DEF Link
    <3>2. CASE r.origin[a] # r.of
        BY <2>5, <3>2 DEF Link
    <3> QED
        BY <3>1, <3>2
  <2>7. x < a
      BY <1>1, <2>2, <2>6 DEF Linked
  <2>8. x \in Bad
      BY <2>4, <2>6
  <2>9. x \in Nat /\ a \in Nat
      BY <2>2, <2>6 DEF Sized
  <2> HIDE DEF Bad, x
  <2> QED
      BY <2>2, <2>7, <2>8, <2>9
<1> QED
    BY <1>6, <1>7, <1>9 DEF tree

\* Sets between which a function goes one to one are of the same size.
LEMMA SameSize ==
    ASSUME NEW S, NEW T, IsFiniteSet(S), NEW f, \A x \in S : f[x] \in T,
           \A x, y \in S : f[x] = f[y] => x = y, \A y \in T : \E x \in S : f[x] = y
    PROVE  Cardinality(S) = Cardinality(T)
<1> DEFINE g == [x \in S |-> f[x]]
<1>1. g \in [S -> T] /\ (\A x, y \in S : g[x] = g[y] => x = y)
      /\ (\A y \in T : \E x \in S : g[x] = y)
    OBVIOUS
<1> HIDE DEF g
<1>2. g \in Bijection(S, T)
    BY <1>1 DEF Bijection, Injection, Surjection, IsInjective
<1>3. ExistsBijection(S, T)
    BY <1>2 DEF ExistsBijection
<1> QED
    BY <1>3, FS_Bijection

\* Then the copy with its references resolved mirrors the tree.
LEMMA ResolvedMirrors ==
    ASSUME NEW r, Copying(r), Sized(r), Len(r.calls) = 0, NEW s,
           s.of = r.of, s.origin = r.origin, s.hosts = r.hosts, s.map = r.map,
           DOMAIN s.made = DOMAIN r.made,
           \A a \in DOMAIN r.made :
              /\ s.made[a].parent = r.made[a].parent
              /\ s.made[a].flex = IF r.map = << >> THEN r.made[a].flex
                                  ELSE ReferencesInCopy(r.made[a].flex, r.map)
    PROVE  Mirrored(s)
<1> DEFINE tree == Subtree(assets, r.of)
<1>1. /\ {r.origin[a] : a \in DOMAIN r.made} = tree
      /\ \A a, b \in DOMAIN r.made : r.origin[a] = r.origin[b] => a = b
    BY CopyIsWhole
<1> HIDE DEF tree
<1>2. Placed(r) /\ Novel(r) /\ Linked(r) /\ Mapped(r)
    BY DEF Copying
<1>3. Cardinality(DOMAIN r.made) = Cardinality(tree)
  <2> DEFINE origin == [a \in DOMAIN r.made |-> r.origin[a]]
  <2>1. /\ \A a \in DOMAIN r.made : origin[a] \in tree
        /\ \A a, b \in DOMAIN r.made : origin[a] = origin[b] => a = b
        /\ \A x \in tree : \E a \in DOMAIN r.made : origin[a] = x
      BY <1>1
  <2>2. IsFiniteSet(DOMAIN r.made)
      BY DEF Sized
  <2> HIDE DEF origin
  <2> QED
      BY <2>1, <2>2, SameSize
<1>4. ASSUME NEW a \in DOMAIN r.made, r.origin[a] # r.of
      PROVE  r.origin[r.made[a].parent] = assets[r.origin[a]].parent
    BY <1>2, <1>4 DEF Linked, Link
<1>5. DOMAIN r.map = {x \in DOMAIN home : home[x] \in tree}
    BY <1>1, <1>2 DEF Mapped
<1>6. Cardinality(DOMAIN r.hosts) = Cardinality(DOMAIN r.map)
  <2>1. IsFiniteSet(DOMAIN r.map)
      BY <1>5, FS_Subset DEF Sized
  <2>2. /\ \A x \in DOMAIN r.map : r.map[x] \in DOMAIN r.hosts
        /\ \A x, y \in DOMAIN r.map : r.map[x] = r.map[y] => x = y
        /\ \A h \in DOMAIN r.hosts : \E x \in DOMAIN r.map : r.map[x] = h
      BY <1>1, <1>2 DEF Mapped
  <2> QED
      BY <2>1, <2>2, SameSize
<1>7. \A x \in DOMAIN r.map : r.origin[r.hosts[r.map[x]]] = home[x]
    BY <1>2 DEF Mapped
<1>8. ASSUME NEW a \in DOMAIN r.made
      PROVE  LET before == assets[r.origin[a]].flex IN
             r.map # << >> =>
                /\ \A x \in before \cap DOMAIN r.map : r.map[x] \in s.made[a].flex
                /\ s.made[a].flex \cap DOMAIN home =
                      {x \in before \ DOMAIN r.map : OnPublicAsset(x)}
  <2> DEFINE before == assets[r.origin[a]].flex
  <2>1. r.made[a].flex = before
      BY <1>2 DEF Linked
  <2>2. s.made[a].flex = IF r.map = << >> THEN before ELSE ReferencesInCopy(before, r.map)
      BY <2>1
  <2>3. \A x \in DOMAIN r.map : r.map[x] \notin DOMAIN home
      BY <1>2 DEF Mapped, Novel
  <2>4. \A x : OnPublicAsset(x) => x \in DOMAIN home
      BY DEF OnPublicAsset
  <2> HIDE DEF before
  <2>5. /\ \A x \in before \cap DOMAIN r.map : r.map[x] \in ReferencesInCopy(before, r.map)
        /\ ReferencesInCopy(before, r.map) \cap DOMAIN home =
              {x \in before \ DOMAIN r.map : OnPublicAsset(x)}
      BY <2>3, <2>4 DEF ReferencesInCopy
  <2> QED
      BY <2>2, <2>5 DEF before
<1> QED
    BY <1>1, <1>3, <1>4, <1>5, <1>6, <1>7, <1>8 DEF Mirrored, tree

-----------------------------------------------------------------------------
(* The invariant, action by action.                                        *)

\* What is known of a copy stays so while only ids are drawn.
LEMMA CopyWaits ==
    ASSUME UNCHANGED <<assets, home>>, drawn \subseteq drawn', NEW q,
           request'[q] = request[q], race'[q] = race[q], CopyInv(q)
    PROVE  CopyInv(q)'
<1>1. ASSUME NEW r, Copying(r) PROVE Copying(r)'
  <2>1. Placed(r)' /\ Novel(r)'
      BY <1>1 DEF Copying, Placed, Novel
  <2>2. Linked(r)' /\ Once(r)' /\ Covered(r)' /\ Mapped(r)'
      BY <1>1 DEF Copying, Linked, Once, Covered, Mapped, Link
  <2> QED
      BY <2>1, <2>2 DEF Copying
<1>2. ASSUME NEW r, Mirrored(r) PROVE Mirrored(r)'
    BY <1>2 DEF Mirrored, OnPublicAsset
<1> QED
    BY <1>1, <1>2 DEF CopyInv

\* A commit interferes with every copy that is open.
LEMMA CommitDisturbs ==
    ASSUME IInv, Mirrors, NEW p \in Web, NEW deleted, NEW written, End(p, deleted, written),
           drawn' = drawn, DOMAIN assets' \cup DOMAIN home' \subseteq drawn,
           IsFiniteSet(DOMAIN home')
    PROVE  Mirrors'
<1>1. \A q \in Web : request'[q] \in {request[q], Resting}
    BY DEF End, IInv, Types
<1>2. IdsDrawn'
    BY <1>1 DEF Mirrors, IdsDrawn, Resting
<1>3. ASSUME NEW q \in Web PROVE CopyInv(q)'
  <2>1. CASE q = p \/ request[q] = Resting
    <3>1. request'[q] = Resting
        BY <2>1 DEF End, IInv, Types
    <3> QED
        BY <3>1 DEF CopyInv, Resting
  <2>2. CASE q # p /\ request[q] # Resting
    <3>1. race'[q].alone = FALSE
        BY <2>2 DEF End
    <3> QED
        BY <3>1 DEF CopyInv
  <2> QED
      BY <2>1, <2>2
<1> QED
    BY <1>2, <1>3 DEF Mirrors

\* A request that begins makes nothing yet.
LEMMA BeginMirrors ==
    ASSUME IInv, Mirrors, NEW p \in Web, NEW what, Begin(p, what), what.step # "resolved",
           what.step = "copy" => /\ what.made = << >> /\ what.hosts = << >>
                                 /\ Copying(what)
    PROVE  Mirrors'
<1>1. request'[p] = what /\ \A q \in Web \ {p} : request'[q] = request[q]
    BY DEF Begin, IInv, Types
<1>2. UNCHANGED <<assets, home, drawn, race>>
    BY DEF Begin
<1>3. IdsDrawn'
  <2>1. DOMAIN << >> = {} /\ IsFiniteSet({})
      BY FS_EmptySet
  <2> QED
      BY <1>1, <1>2, <2>1 DEF Mirrors, IdsDrawn
<1>4. \A q \in Web \ {p} : CopyInv(q)'
    BY <1>1, <1>2, CopyWaits DEF Mirrors
<1>5. what.step = "copy" => Copying(what)'
    BY <1>2 DEF Copying, Placed, Novel, Linked, Once, Covered, Mapped, Link
<1>6. CopyInv(p)'
    BY <1>1, <1>5 DEF CopyInv
<1> QED
    BY <1>3, <1>4, <1>6 DEF Mirrors

\* A copy begins with one call, for the asset itself.
LEMMA CopyBegins ==
    ASSUME NEW r, r.of \in DOMAIN assets, IsFiniteSet(DOMAIN assets),
           r.under \notin Subtree(assets, r.of),
           NEW call, r.calls = <<call>>, call.from = r.of, call.under = r.under,
           call.row = assets[r.of],
           r.made = << >>, r.origin = << >>, r.hosts = << >>, r.map = << >>
    PROVE  Copying(r)
<1>1. DOMAIN << >> = {}
    OBVIOUS
<1>2. Len(r.calls) = 1 /\ r.calls[1] = call
    OBVIOUS
<1>3. \A i \in 1..Len(r.calls) : i = 1
    BY <1>2
<1>4. Placed(r) /\ Novel(r)
    BY <1>1 DEF Placed, Novel
<1>5. r.of \in Subtree(assets, r.of)
    BY SubtreeIs
<1>6. Linked(r)
    BY <1>1, <1>2, <1>3, <1>5 DEF Linked, Link
<1>7. Once(r)
    BY <1>1, <1>3 DEF Once
<1>8. Covered(r)
    BY <1>1, <1>2, <1>3 DEF Covered, Link, Called
<1>9. Mapped(r)
    BY <1>1 DEF Mapped
<1> QED
    BY <1>4, <1>6, <1>7, <1>8, <1>9 DEF Copying

\* The place for a copy is refused below what is copied.
LEMMA StartCopyMirrors ==
    ASSUME IInv, Mirrors, NEW p \in Web, NEW a \in AssetId, NEW t \in Targets,
           StartCopy(p, a, t.account, t.parent)
    PROVE  Mirrors'
<1> DEFINE d == Destination(a, t.account, t.parent)
           call == Call(a, assets[a], d.parent)
           what == [step |-> "copy", of |-> a, account |-> d.account, under |-> d.parent,
                    calls |-> <<call>>,
                    made |-> << >>, origin |-> << >>, hosts |-> << >>, map |-> << >>]
<1>1. /\ a \in DOMAIN assets
      /\ d.parent # Nowhere => d.parent \notin Subtree(assets, a)
      /\ Begin(p, what)
    BY DEF StartCopy
<1>2. IsFiniteSet(DOMAIN assets) /\ DOMAIN assets \subseteq AssetId
    BY DEF IInv, Types
<1>3. Nowhere \notin Subtree(assets, a)
  <2>1. Subtree(assets, a) \subseteq DOMAIN assets
      BY <1>1, <1>2, SubtreeIs
  <2> QED
      BY <1>2, <2>1, AssetsAssumption
<1> HIDE DEF d
<1>4. call.from = a /\ call.under = d.parent /\ call.row = assets[a]
    BY DEF Call
<1> HIDE DEF call
<1>5. /\ what.step = "copy" /\ what.of = a /\ what.under = d.parent /\ what.calls = <<call>>
      /\ what.made = << >> /\ what.origin = << >> /\ what.hosts = << >> /\ what.map = << >>
    OBVIOUS
<1> HIDE DEF what
<1>6. what.under \notin Subtree(assets, what.of)
    BY <1>1, <1>3, <1>5
<1>7. Copying(what)
    BY <1>1, <1>2, <1>4, <1>5, <1>6, CopyBegins
<1> QED
    BY <1>1, <1>5, <1>7, BeginMirrors

\* Other requests make nothing when they begin.
LEMMA StartMirrors ==
    ASSUME IInv, Mirrors, NEW p \in Web, StartRequest(p)
    PROVE  Mirrors'
<1>1. ASSUME NEW s \in SensorId, StartDeleteSensor(p, s) PROVE Mirrors'
  <2> DEFINE what == [step |-> "deleteSensor", of |-> s, on |-> home[s],
                      pruned |-> [a \in Referring(s) |-> Pruned(assets[a].flex, s)]]
  <2>1. Begin(p, what) /\ what.step = "deleteSensor"
      BY <1>1 DEF StartDeleteSensor
  <2> HIDE DEF what
  <2> QED
      BY <2>1, BeginMirrors
<1>2. ASSUME NEW a \in AssetId, StartDeleteAsset(p, a) PROVE Mirrors'
  <2> DEFINE what == [step |-> "deleteAsset", of |-> a,
                      pruned |-> [b \in {c \in DOMAIN assets \ {a} : a \in assets[c].shows} |->
                                     Pruned(assets[b].shows, a)]]
  <2>1. Begin(p, what) /\ what.step = "deleteAsset"
      BY <1>2 DEF StartDeleteAsset
  <2> HIDE DEF what
  <2> QED
      BY <2>1, BeginMirrors
<1>3. ASSUME NEW a \in AssetId, NEW column, NEW value, StartPatch(p, a, column, value)
      PROVE  Mirrors'
  <2> DEFINE what == [step |-> "patch", of |-> a, column |-> column, value |-> value]
  <2>1. Begin(p, what) /\ what.step = "patch"
      BY <1>3 DEF StartPatch
  <2> HIDE DEF what
  <2> QED
      BY <2>1, BeginMirrors
<1> QED
    BY <1>1, <1>2, <1>3, StartCopyMirrors DEF StartRequest

\* Ids that were drawn stay drawn when the request is rolled back.
LEMMA RollbackMirrors ==
    ASSUME IInv, Mirrors, NEW p \in Web, Rollback(p)
    PROVE  Mirrors'
<1>1. /\ request'[p] = Resting
      /\ \A q \in Web \ {p} : request'[q] = request[q] /\ race'[q] = race[q]
      /\ UNCHANGED <<assets, home, drawn>>
    BY DEF Rollback, IInv, Types
<1>2. IdsDrawn'
    BY <1>1 DEF Mirrors, IdsDrawn, Resting
<1>3. \A q \in Web \ {p} : CopyInv(q)'
    BY <1>1, CopyWaits DEF Mirrors
<1>4. CopyInv(p)'
    BY <1>1 DEF CopyInv, Resting
<1> QED
    BY <1>2, <1>3, <1>4 DEF Mirrors

\* A call goes on with one copy, and the others wait.
LEMMA CopyNextMirrors ==
    ASSUME IInv, Mirrors, NEW p \in Web, CopyNext(p)
    PROVE  Mirrors'
<1>1. PICK id, copy, children :
        /\ Onward(request[p], request'[p], id, copy, children)
        /\ drawn' = drawn \cup {id} \cup Range(copy)
    BY CopyStep DEF Mirrors
<1> DEFINE mine == SensorsOn(Over(request[p].hosts, home), request[p].calls[1].from)
<1>2. /\ request[p].step = "copy" /\ CopyOK(p)
      /\ Len(request[p].calls) \in Nat \ {0}
      /\ request[p].calls[1].under # Nowhere =>
            request[p].calls[1].under \in DOMAIN request[p].made \cup DOMAIN assets
      /\ UNCHANGED <<assets, home, race>>
      /\ \A q \in Web \ {p} : request'[q] = request[q]
      /\ IsFiniteSet(mine)
    BY SMTT(30), CopyStep DEF Mirrors
<1> HIDE DEF mine
<1>3. /\ request'[p].step = "copy"
      /\ DOMAIN request'[p].made = DOMAIN request[p].made \cup {id}
      /\ DOMAIN request'[p].hosts = DOMAIN request[p].hosts \cup Range(copy)
      /\ copy \in [mine -> SensorId \ drawn]
    BY <1>1 DEF Onward, mine
<1>4. /\ DOMAIN assets \cup DOMAIN home \subseteq drawn
      /\ DOMAIN request[p].made \cup DOMAIN request[p].hosts \subseteq drawn
      /\ IsFiniteSet(DOMAIN request[p].hosts)
    BY <1>2 DEF Mirrors, IdsDrawn
<1>5. IsFiniteSet(DOMAIN request'[p].hosts)
  <2>1. IsFiniteSet(Range(copy))
      BY <1>2, <1>3, RangeIsFinite
  <2>2. IsFiniteSet(DOMAIN request[p].hosts \cup Range(copy))
      BY <1>4, <2>1, FS_Union
  <2> QED
      BY <1>3, <2>2
<1>6. IdsDrawn'
  <2>1. /\ drawn \subseteq drawn'
        /\ DOMAIN request'[p].made \cup DOMAIN request'[p].hosts \subseteq drawn'
      BY <1>1, <1>3, <1>4
  <2> QED
      BY <1>2, <1>3, <1>4, <1>5, <2>1 DEF Mirrors, IdsDrawn
<1>7. \A q \in Web \ {p} : CopyInv(q)'
  <2>1. drawn \subseteq drawn'
      BY <1>1
  <2> QED
      BY <1>2, <2>1, CopyWaits DEF Mirrors
<1>8. ASSUME race[p].alone PROVE Copying(request[p])'
  <2>1. Copying(request[p])
      BY <1>2, <1>8 DEF Mirrors, CopyInv
  <2>2. DOMAIN request[p].made \subseteq AssetId
      BY <1>2 DEF CopyOK
  <2>3. Undisturbed(request[p], request'[p], id, copy, children)
      BY <1>1, <1>2, <1>4, <2>1, <2>2 DEF Undisturbed
  <2>4. ASSUME NEW r, NEW s, Undisturbed(r, s, id, copy, children)
        PROVE  Copying(s)'
    <3>1. Placed(s)' /\ Novel(s)' /\ Linked(s)'
        BY <2>4, StaysPlaced, StaysNovel, StaysLinked
    <3>2. Once(s)' /\ Covered(s)' /\ Mapped(s)'
        BY <2>4, StaysOnce, StaysCovered, StaysMapped
    <3> QED
        BY <3>1, <3>2 DEF Copying
  <2> QED
      BY <2>3, <2>4
<1>9. CopyInv(p)'
    BY <1>2, <1>3, <1>8 DEF CopyInv
<1> QED
    BY <1>6, <1>7, <1>9 DEF Mirrors

\* With the last reference resolved the copy mirrors its tree.
LEMMA ResolveCopyMirrors ==
    ASSUME IInv, Mirrors, NEW p \in Web, ResolveCopy(p)
    PROVE  Mirrors'
<1> DEFINE r == request[p]
           made == IF r.map = << >> THEN r.made
                   ELSE [a \in DOMAIN r.made |->
                            [r.made[a] EXCEPT !.flex = ReferencesInCopy(@, r.map)]]
           s == [r EXCEPT !.step = "resolved", !.made = made]
<1>1. CopyOK(p) /\ r.step = "copy" /\ r.calls = << >>
    BY DEF IInv, RequestOK, ResolveCopy
<1>2. /\ UNCHANGED <<assets, home, drawn, race>>
      /\ request' = [request EXCEPT ![p] = s]
    BY DEF ResolveCopy
<1>3. request'[p] = s /\ \A q \in Web \ {p} : request'[q] = request[q]
    BY <1>2 DEF IInv, Types
<1>4. Copies(r) /\ \A a \in DOMAIN r.made : r.made[a] \in AssetRow
    BY <1>1 DEF CopyOK
<1>5. /\ DOMAIN made = DOMAIN r.made
      /\ \A a \in DOMAIN r.made :
            /\ made[a].parent = r.made[a].parent
            /\ made[a].flex = IF r.map = << >> THEN r.made[a].flex
                              ELSE ReferencesInCopy(r.made[a].flex, r.map)
  <2>1. ASSUME NEW row \in AssetRow, NEW flex
        PROVE  /\ [row EXCEPT !.flex = flex].parent = row.parent
               /\ [row EXCEPT !.flex = flex].flex = flex
      BY DEF AssetRow
  <2>2. CASE r.map = << >>
      BY <2>2
  <2>3. CASE r.map # << >>
    <3>1. made = [a \in DOMAIN r.made |->
                     [r.made[a] EXCEPT !.flex = ReferencesInCopy(r.made[a].flex, r.map)]]
        BY <2>3
    <3> HIDE DEF made
    <3> QED
        BY <1>4, <2>1, <2>3, <3>1
  <2> QED
      BY <2>2, <2>3
<1> HIDE DEF made
<1>6. /\ s.step = "resolved" /\ s.of = r.of /\ s.made = made
      /\ s.origin = r.origin /\ s.hosts = r.hosts /\ s.map = r.map
  <2>1. s = [step |-> "resolved", of |-> r.of, account |-> r.account, under |-> r.under,
             calls |-> r.calls, made |-> made, origin |-> r.origin, hosts |-> r.hosts,
             map |-> r.map]
    <3> HIDE DEF r
    <3>1. ASSUME NEW t, Copies(t)
          PROVE  [t EXCEPT !.step = "resolved", !.made = made]
                   = [step |-> "resolved", of |-> t.of, account |-> t.account,
                      under |-> t.under, calls |-> t.calls, made |-> made,
                      origin |-> t.origin, hosts |-> t.hosts, map |-> t.map]
        BY <3>1, ResolvedFields
    <3> QED
        BY <1>4, <3>1
  <2> HIDE DEF s
  <2> QED
      BY <2>1
<1> HIDE DEF s
<1>7. IdsDrawn'
    BY <1>1, <1>2, <1>3, <1>5, <1>6 DEF Mirrors, IdsDrawn
<1>8. \A q \in Web \ {p} : CopyInv(q)'
    BY <1>2, <1>3, CopyWaits DEF Mirrors
<1>9. ASSUME race[p].alone PROVE Mirrored(s)
  <2>1. Copying(r)
      BY <1>1, <1>9 DEF Mirrors, CopyInv
  <2>2. Sized(r)
    <3>1. IsFiniteSet(DOMAIN assets) /\ IsFiniteSet(DOMAIN home) /\ IsFiniteSet(DOMAIN r.hosts)
        BY <1>1 DEF IInv, Types, Mirrors, IdsDrawn
    <3> QED
        BY <1>1, <3>1, AssetsAssumption DEF Sized, CopyOK
  <2>3. Len(r.calls) = 0
      BY <1>1
  <2> HIDE DEF r
  <2> QED
      BY <1>5, <1>6, <2>1, <2>2, <2>3, ResolvedMirrors
<1>10. ASSUME NEW t, Mirrored(t) PROVE Mirrored(t)'
    BY <1>2, <1>10 DEF Mirrored, OnPublicAsset
<1>11. CopyInv(p)'
    BY <1>2, <1>3, <1>6, <1>9, <1>10 DEF CopyInv
<1> QED
    BY <1>7, <1>8, <1>11 DEF Mirrors

\* A commit adds no other ids than were drawn, and ends or disturbs every open copy.
LEMMA CommitMirrors ==
    ASSUME IInv, Mirrors, NEW p \in Web,
           \/ CommitDeleteSensor(p) \/ CommitPatch(p) \/ CommitDeleteAsset(p)
           \/ CommitCopy(p)
    PROVE  Mirrors'
<1>1. DOMAIN assets \cup DOMAIN home \subseteq drawn /\ IsFiniteSet(DOMAIN home)
    BY DEF Mirrors, IdsDrawn
<1>2. CASE CommitDeleteSensor(p)
  <2>1. /\ DOMAIN assets' = DOMAIN assets /\ DOMAIN home' \subseteq DOMAIN home
        /\ drawn' = drawn /\ \E deleted, written : End(p, deleted, written)
      BY <1>2 DEF CommitDeleteSensor, Restrict
  <2>2. IsFiniteSet(DOMAIN home')
      BY <1>1, <2>1, FS_Subset
  <2> QED
      BY <1>1, <2>1, <2>2, CommitDisturbs
<1>3. CASE CommitPatch(p)
  <2>1. /\ DOMAIN assets' = DOMAIN assets /\ home' = home
        /\ drawn' = drawn /\ \E deleted, written : End(p, deleted, written)
      BY <1>3 DEF CommitPatch
  <2> QED
      BY <1>1, <2>1, CommitDisturbs
<1>4. CASE CommitDeleteAsset(p)
  <2>1. /\ DOMAIN assets' \subseteq DOMAIN assets /\ DOMAIN home' \subseteq DOMAIN home
        /\ drawn' = drawn /\ \E deleted, written : End(p, deleted, written)
      BY <1>4 DEF CommitDeleteAsset, Restrict
  <2>2. IsFiniteSet(DOMAIN home')
      BY <1>1, <2>1, FS_Subset
  <2> QED
      BY <1>1, <2>1, <2>2, CommitDisturbs
<1>5. CASE CommitCopy(p)
  <2> DEFINE r == request[p]
  <2>1. /\ assets' = Over(r.made, assets) /\ home' = Over(r.hosts, home)
        /\ drawn' = drawn /\ r.step = "resolved"
        /\ \E deleted, written : End(p, deleted, written)
      BY <1>5 DEF CommitCopy
  <2>2. /\ DOMAIN assets' = DOMAIN r.made \cup DOMAIN assets
        /\ DOMAIN home' = DOMAIN r.hosts \cup DOMAIN home
      BY <2>1 DEF Over
  <2>3. DOMAIN r.made \cup DOMAIN r.hosts \subseteq drawn /\ IsFiniteSet(DOMAIN r.hosts)
      BY <2>1 DEF Mirrors, IdsDrawn
  <2>4. IsFiniteSet(DOMAIN r.hosts \cup DOMAIN home)
      BY <1>1, <2>3, FS_Union
  <2> HIDE DEF r
  <2> QED
      BY <1>1, <2>1, <2>2, <2>3, <2>4, CommitDisturbs
<1> QED
    BY <1>2, <1>3, <1>4, <1>5

\* At the start no copy is open.
LEMMA MirrorsInit == AInit => Mirrors
<1> SUFFICES ASSUME AInit PROVE Mirrors
    OBVIOUS
<1>1. IdsDrawn
    BY AssetsAssumption DEF AInit, IdsDrawn, Resting
<1>2. \A p \in Web : CopyInv(p)
    BY DEF AInit, CopyInv, Resting
<1> QED
    BY <1>1, <1>2 DEF Mirrors

\* One case for each action.
LEMMA MirrorsNext == IInv /\ Mirrors /\ [ANext]_avars => Mirrors'
<1> SUFFICES ASSUME IInv, Mirrors, [ANext]_avars PROVE Mirrors'
    OBVIOUS
<1>1. CASE ANext
    BY <1>1, StartMirrors, RollbackMirrors, CommitMirrors, CopyNextMirrors,
       ResolveCopyMirrors DEF ANext
<1>2. CASE UNCHANGED avars
  <2>1. UNCHANGED <<assets, home, drawn, request, race>>
      BY <1>2 DEF avars
  <2>2. IdsDrawn'
      BY <2>1 DEF Mirrors, IdsDrawn
  <2>3. \A p \in Web : CopyInv(p)'
      BY <2>1, CopyWaits DEF Mirrors
  <2> QED
      BY <2>2, <2>3 DEF Mirrors
<1> QED
    BY <1>1, <1>2

\* CopyMirrors: what copy_asset commits is the tree below the asset, each asset of it
\* and each of their sensors once, in the same shape, and, where there are sensors,
\* references to them have become references to their copies, unless others committed
\* meanwhile.
THEOREM CopiesMirror == ASpec => []CopyMirrors
<1>1. Mirrors => CopyMirrors
    BY DEF Mirrors, CopyInv, Mirrored, CopyMirrors
<1> QED
    BY <1>1, InitOK, NextOK, MirrorsInit, MirrorsNext, PTL DEF ASpec

===============================================================================
