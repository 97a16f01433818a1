---------------------------- MODULE AssetReferences ----------------------------
(***************************************************************************)
(* Assets in a tree, their sensors, and the references to sensors and      *)
(* assets in their JSON columns: deleting a sensor or an asset with the    *)
(* references to it, patching an asset, and copying an asset with all that *)
(* is below it. A request reads, computes whole new column values, and     *)
(* writes them when it commits; others commit in between.                  *)
(*                                                                         *)
(* A flex-config is the set of sensors it refers to, sensors_to_show the   *)
(* set of assets it takes a flex field from. References to sensors in      *)
(* sensors_to_show are left out, since nothing checks that they exist; so  *)
(* is that deleting a sensor shown there rewrites that whole column, as it *)
(* was read (services/sensors.py:401). Names and the edit of an asset's    *)
(* account are left out too.                                               *)
(***************************************************************************)
EXTENDS Integers, FiniteSets, SequencesExt

CONSTANTS
    Web,            \* web processes, each handling one request at a time
    AssetId, SensorId,
    Account, Public,  \* accounts, and the account_id of public assets (NULL)
    Nowhere,        \* no parent, no parameter
    FirstAssets, FirstHome,  \* the assets and sensors to begin with
    Patches,        \* the values that clients patch each of the columns with
    Targets,        \* the accounts and parents that clients give for copies
    MaxAssetRequests  \* bound: requests in a behaviour

AssetRow == [parent : AssetId \cup {Nowhere}, account : Account \cup {Public},
             flex : SUBSET SensorId, shows : SUBSET AssetId]

ASSUME AssetsAssumption ==
    /\ AssetId \subseteq Nat /\ SensorId \subseteq Nat /\ AssetId \cap SensorId = {}
    /\ Public \notin Account /\ Nowhere \notin Nat \cup Account \cup {Public}
    /\ IsFiniteSet(DOMAIN FirstAssets) /\ IsFiniteSet(DOMAIN FirstHome)
    /\ \A a \in DOMAIN FirstAssets :
          /\ a \in AssetId /\ FirstAssets[a] \in AssetRow
          /\ FirstAssets[a].flex \subseteq DOMAIN FirstHome
          /\ FirstAssets[a].shows \subseteq DOMAIN FirstAssets
    /\ \A s \in DOMAIN FirstHome : s \in SensorId /\ FirstHome[s] \in DOMAIN FirstAssets
    /\ DOMAIN Patches \subseteq {"flex", "shows", "parent"}
    /\ Targets \subseteq [account : Account \cup {Nowhere}, parent : AssetId \cup {Nowhere}]
    /\ MaxAssetRequests \in Nat

VARIABLES
    assets,    \* generic_asset: a row for each asset there is
    home,      \* sensor: the asset of each sensor there is
    drawn,     \* the ids drawn so far, also by transactions that were rolled back
    request,   \* what each web process is doing, and what it has read
    race,      \* history: what others deleted and which references they wrote meanwhile
    loose,     \* deleted sensors and assets that references may be left to
    handled    \* the number of requests so far

avars == <<assets, home, drawn, request, race, loose, handled>>

Resting == [step |-> "none"]

NoRace == [lost |-> {}, news |-> {}, alone |-> TRUE]

AInit ==
    /\ assets = FirstAssets
    /\ home = FirstHome
    /\ drawn = DOMAIN FirstAssets \cup DOMAIN FirstHome
    /\ request = [p \in Web |-> Resting]
    /\ race = [p \in Web |-> NoRace]
    /\ loose = {}
    /\ handled = 0

-----------------------------------------------------------------------------

ChildrenOf(rows, a) == {b \in DOMAIN rows : rows[b].parent = a}

\* The asset and all below it. (By PATCH, an asset can come to be below itself.)
Subtree(rows, a) ==
    LET within[depth \in Nat] ==
            IF depth = 0 THEN {a}
            ELSE within[depth - 1]
                    \cup UNION {ChildrenOf(rows, b) : b \in within[depth - 1]}
    IN  within[Cardinality(DOMAIN rows)]

SensorsOn(places, a) == {s \in DOMAIN places : places[s] = a}

Begin(p, what) ==
    /\ handled' = handled + 1
    /\ request' = [request EXCEPT ![p] = what]
    /\ UNCHANGED <<assets, home, drawn, race, loose>>

\* A commit. Nothing in the code remembers others' commits: race serves to say what
\* happened while a transaction was open.
End(p, deleted, written) ==
    /\ request' = [request EXCEPT ![p] = Resting]
    /\ race' = [q \in Web |->
           IF q = p \/ request[q] = Resting THEN NoRace
           ELSE [lost |-> race[q].lost \cup deleted, news |-> race[q].news \cup written,
                 alone |-> FALSE]]

\* An error of the database (a row or a parent that is gone), or a killed process.
Rollback(p) ==
    /\ request[p] # Resting
    /\ request' = [request EXCEPT ![p] = Resting]
    /\ race' = [race EXCEPT ![p] = NoRace]
    /\ UNCHANGED <<assets, home, drawn, loose, handled>>

-----------------------------------------------------------------------------
(* DELETE /sensors/<id>                                                    *)

\* Mutant: only assets of the same account are searched.
ReferringNear(s) ==
    {a \in DOMAIN assets : /\ s \in assets[a].flex
                           /\ assets[a].account = assets[home[s]].account}

\* The candidates of cleanup_sensor_references_in_assets.
Referring(s) == {a \in DOMAIN assets : s \in assets[a].flex}

\* Every entry that holds the reference goes, however deep it is nested. (An entry that
\* also has a "default" stays in the code, and so does the id under the deprecated
\* consumption-price-sensor: flex stands for references in the other forms.)
Pruned(references, gone) == references \ {gone}

StartDeleteSensor(p, s) ==
    /\ s \in DOMAIN home
    /\ Begin(p, [step |-> "deleteSensor", of |-> s, on |-> home[s],
                 pruned |-> [a \in Referring(s) |-> Pruned(assets[a].flex, s)]])

\* The audit log's row refers to the asset, and an UPDATE that finds no row raises.
CommitDeleteSensor(p) ==
    LET r == request[p] IN
    /\ r.step = "deleteSensor"
    /\ {r.on} \cup DOMAIN r.pruned \subseteq DOMAIN assets
    /\ assets' = [a \in DOMAIN assets |->
                      IF a \in DOMAIN r.pruned
                      THEN [assets[a] EXCEPT !.flex = r.pruned[a]] ELSE assets[a]]
    /\ home' = Restrict(home, DOMAIN home \ {r.of})
    /\ LET written == UNION {r.pruned[a] : a \in DOMAIN r.pruned} IN
         /\ loose' = loose \cup (written \cap race[p].lost) \cup ({r.of} \cap race[p].news)
         /\ End(p, {r.of}, written)
    /\ UNCHANGED <<drawn, handled>>

-----------------------------------------------------------------------------
(* PATCH /assets/<id>                                                      *)

\* AssetSchema.load and the schemas of the columns.
Accepted(a, column, value) ==
    CASE column = "flex" -> value \subseteq DOMAIN home
      [] column = "shows" -> value \subseteq DOMAIN assets
      [] column = "parent" ->
            value # Nowhere =>
               /\ value \in DOMAIN assets
               /\ \/ assets[a].account = Public
                  \/ assets[value].account = assets[a].account

StartPatch(p, a, column, value) ==
    /\ a \in DOMAIN assets
    /\ assets[a][column] # value
    /\ Accepted(a, column, value)
    /\ Begin(p, [step |-> "patch", of |-> a, column |-> column, value |-> value])

\* A parent has to exist still, and no asset is its own parent.
CommitPatch(p) ==
    LET r == request[p]
        references == IF r.column = "parent" THEN {} ELSE r.value IN
    /\ r.step = "patch"
    /\ r.of \in DOMAIN assets
    /\ r.column = "parent" => r.value \in (DOMAIN assets \ {r.of}) \cup {Nowhere}
    /\ assets' = [assets EXCEPT ![r.of][r.column] = r.value]
    /\ loose' = loose \cup (references \cap race[p].lost)
    /\ End(p, {}, references)
    /\ UNCHANGED <<home, drawn, handled>>

-----------------------------------------------------------------------------
(* DELETE /assets/<id>                                                     *)

\* cleanup_asset_references_in_assets: other assets that show something of this one.
StartDeleteAsset(p, a) ==
    /\ a \in DOMAIN assets
    /\ Begin(p, [step |-> "deleteAsset", of |-> a,
                 pruned |-> [b \in {c \in DOMAIN assets \ {a} : a \in assets[c].shows} |->
                                Pruned(assets[b].shows, a)]])

\* The database deletes what is below the asset, and the sensors, with it; neither is
\* searched for references. A copy in progress holds a lock on the parent it is put
\* under.
CommitDeleteAsset(p) ==
    LET r == request[p]
        doomed == Subtree(assets, r.of)
        sensors == {s \in DOMAIN home : home[s] \in doomed}
        written == UNION {r.pruned[a] : a \in DOMAIN r.pruned} IN
    /\ r.step = "deleteAsset"
    /\ {r.of} \cup DOMAIN r.pruned \subseteq DOMAIN assets
    /\ \A q \in Web : request[q].step \in {"copy", "resolved"} =>
                          request[q].made = << >> \/ request[q].under \notin doomed
    /\ assets' = [a \in DOMAIN assets \ doomed |->
                      IF a \in DOMAIN r.pruned
                      THEN [assets[a] EXCEPT !.shows = r.pruned[a]] ELSE assets[a]]
    /\ home' = Restrict(home, DOMAIN home \ sensors)
    /\ loose' = loose \cup (doomed \ {r.of}) \cup sensors
                      \cup (written \cap race[p].lost) \cup ({r.of} \cap race[p].news)
    /\ End(p, doomed \cup sensors, written)
    /\ UNCHANGED <<drawn, handled>>

-----------------------------------------------------------------------------
(* POST /assets/<id>/copy                                                  *)

\* Where the copy goes, given an account, a parent, both or neither.
Destination(a, account, parent) ==
    CASE account = Nowhere /\ parent = Nowhere -> [account |-> assets[a].account,
                                                   parent |-> assets[a].parent]
      [] account # Nowhere -> [account |-> account, parent |-> parent]
      [] account = Nowhere /\ parent # Nowhere -> [account |-> assets[parent].account,
                                                   parent |-> parent]

\* What _copy_asset_subtree is called with: an asset as it was read, and where to put it.
Call(a, row, under) == [from |-> a, row |-> row, under |-> under]

StartCopy(p, a, account, parent) ==
    /\ a \in DOMAIN assets
    /\ parent # Nowhere => parent \in DOMAIN assets
    /\ LET d == Destination(a, account, parent) IN
         /\ d.parent # Nowhere => d.parent \notin Subtree(assets, a)
         /\ Begin(p, [step |-> "copy", of |-> a, account |-> d.account,
                      under |-> d.parent, calls |-> <<Call(a, assets[a], d.parent)>>,
                      made |-> << >>, origin |-> << >>, hosts |-> << >>, map |-> << >>])

Over(new, old) ==
    [x \in DOMAIN new \cup DOMAIN old |-> IF x \in DOMAIN new THEN new[x] ELSE old[x]]

\* The ids that new rows for some things get: sequences draw them in order.
Numbering(things, ids) ==
    {f \in [things -> ids \ drawn] :
        /\ \A x, y \in things : x < y => f[x] < f[y]
        /\ \A x \in things, i \in ids \ drawn : i < f[x] => \E y \in things : f[y] = i}

\* One call of _copy_asset_subtree: the copy of the asset as it was read, copies of the
\* sensors it has now, and calls for the children it has now.
Copied(r, new, copy, children, rows) ==
    LET call == Head(r.calls)
        id == new[call.from] IN
    [r EXCEPT !.made = Over([a \in Range(new) |-> [call.row EXCEPT !.parent = call.under,
                                                   !.account = r.account]], @),
              !.origin = Over([a \in Range(new) |-> call.from], @),
              !.hosts = Over([s \in Range(copy) |-> id], @),
              !.map = Over(copy, @),
              !.calls = [i \in DOMAIN children |->
                            Call(children[i], rows[children[i]], id)] \o Tail(@)]

\* Queries also find what the transaction made itself; where there are no ids left,
\* recursion ends.
CopyNext(p) ==
    LET r == request[p]
        call == Head(r.calls)
        rows == Over(r.made, assets)
        mine == SensorsOn(Over(r.hosts, home), call.from) IN
    /\ r.step = "copy" /\ r.calls # << >>
    /\ call.under # Nowhere => call.under \in DOMAIN rows
    /\ \E new \in Numbering({call.from}, AssetId), copy \in Numbering(mine, SensorId),
          children \in SetToSeqs(ChildrenOf(rows, call.from)) :
          /\ \A i, j \in DOMAIN children : i < j => children[i] < children[j]
          /\ drawn' = drawn \cup Range(new) \cup Range(copy)
          /\ request' = [request EXCEPT ![p] = Copied(r, new, copy, children, rows)]
    /\ UNCHANGED <<assets, home, race, loose, handled>>

OnPublicAsset(s) == s \in DOMAIN home /\ assets[home[s]].account = Public

\* Mutant: only references to sensors that are gone are removed.
ReferencesInCopyPrivate(flex, map) ==
    {map[s] : s \in flex \cap DOMAIN map} \cup ((flex \cap DOMAIN home) \ DOMAIN map)

\* _resolve_sensor_id for every reference: what is not copied nor public is removed with
\* the entry of the dict it is in. (In a plain list _REMOVED itself is left, and writing
\* the column fails: the model lets such a copy commit without the reference.)
ReferencesInCopy(flex, map) ==
    {map[s] : s \in flex \cap DOMAIN map} \cup {s \in flex \ DOMAIN map : OnPublicAsset(s)}

\* _update_sensor_refs_in_subtree, unless no sensor was copied at all: then references
\* stay as they are, those to private and deleted sensors too.
ResolveCopy(p) ==
    LET r == request[p] IN
    /\ r.step = "copy" /\ r.calls = << >>
    /\ request' = [request EXCEPT ![p] = [r EXCEPT !.step = "resolved",
           !.made = IF r.map = << >> THEN @
                    ELSE [a \in DOMAIN r.made |->
                             [r.made[a] EXCEPT !.flex = ReferencesInCopy(@, r.map)]]]]
    /\ UNCHANGED <<assets, home, drawn, race, loose, handled>>

CommitCopy(p) ==
    LET r == request[p]
        written == UNION {r.made[a].flex \cup r.made[a].shows : a \in DOMAIN r.made} IN
    /\ r.step = "resolved"
    /\ assets' = Over(r.made, assets)
    /\ home' = Over(r.hosts, home)
    /\ loose' = loose \cup (written \cap race[p].lost)
    /\ End(p, {}, written)
    /\ UNCHANGED <<drawn, handled>>

-----------------------------------------------------------------------------

StartRequest(p) ==
    \/ \E s \in SensorId : StartDeleteSensor(p, s)
    \/ \E a \in AssetId : \/ StartDeleteAsset(p, a)
                          \/ \E column \in DOMAIN Patches : \E value \in Patches[column] :
                                StartPatch(p, a, column, value)
                          \/ \E t \in Targets : StartCopy(p, a, t.account, t.parent)

ANext ==
    \E p \in Web :
        \/ request[p] = Resting /\ handled < MaxAssetRequests /\ StartRequest(p)
        \/ Rollback(p)
        \/ CommitDeleteSensor(p) \/ CommitPatch(p) \/ CommitDeleteAsset(p)
        \/ CopyNext(p) \/ ResolveCopy(p) \/ CommitCopy(p)

ASpec == AInit /\ [][ANext]_avars

-----------------------------------------------------------------------------

\* services/sensors.py:958 "Cleans up sensor references in asset JSONB fields": a
\* reference to something that is gone is left only if it went with an asset above it,
\* or if whoever wrote the reference and whoever deleted it did not see each other.
ReferencesLive ==
    \A a \in DOMAIN assets :
        assets[a].flex \cup assets[a].shows
            \subseteq DOMAIN home \cup DOMAIN assets \cup loose

\* What copy_asset is about to commit mirrors the asset and all below it, unless another
\* request was committed meanwhile: the same tree and the same sensors on it, and, once a
\* sensor was copied, each flex-config refers to the copies of what it referred to, to
\* sensors of public assets, and to no others. Nothing is said of the references of a
\* tree without sensors: they should be cleaned up too, and are not.
CopyMirrors ==
    \A p \in Web :
        LET r == request[p]
            tree == Subtree(assets, r.of) IN
        (r.step = "resolved" /\ race[p].alone) =>
            /\ {r.origin[a] : a \in DOMAIN r.made} = tree
            /\ Cardinality(DOMAIN r.made) = Cardinality(tree)
            /\ \A a \in DOMAIN r.made : r.origin[a] # r.of =>
                   r.origin[r.made[a].parent] = assets[r.origin[a]].parent
            /\ DOMAIN r.map = {s \in DOMAIN home : home[s] \in tree}
            /\ Cardinality(DOMAIN r.hosts) = Cardinality(DOMAIN r.map)
            /\ \A s \in DOMAIN r.map : r.origin[r.hosts[r.map[s]]] = home[s]
            /\ \A a \in DOMAIN r.made :
                  LET before == assets[r.origin[a]].flex IN
                  r.map # << >> =>
                     /\ \A s \in before \cap DOMAIN r.map : r.map[s] \in r.made[a].flex
                     /\ r.made[a].flex \cap DOMAIN home =
                           {s \in before \ DOMAIN r.map : OnPublicAsset(s)}

=============================================================================
