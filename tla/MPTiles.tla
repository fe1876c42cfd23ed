------------------------------ MODULE MPTiles ------------------------------
(***************************************************************************)
(* The tiles of engine_mp under incremental update: the registries of live *)
(* and dead tiles, the scene graph, the pager that builds tiles, and their *)
(* replacement when the map has a new revision or a region is invalidated. *)
(*                                                                         *)
(* A key stands for a quad: four tiles with one parent tile, which are     *)
(* built, merged, replaced and expired together.  A tile of the scene that *)
(* is not a leaf (at maxLOD) pages in the quads below it.                  *)
(*                                                                         *)
(* Three threads take steps.  The main thread changes the map, culls,      *)
(* merges what was loaded and expires; its calls on the registries, each   *)
(* under their lock, are steps of their own, kept in todo.  The pager      *)
(* builds one quad at a time.  The draw thread empties the registry of     *)
(* dead tiles to release their GL objects.                                 *)
(***************************************************************************)
EXTENDS Naturals, Sequences

CONSTANTS
    Keys,
    Root,           \* the quad of the first level, built with the terrain
    Parent,         \* the parent of every other key
    Leaves,         \* keys at maxLOD
    Ids,            \* bound: the tiles there may be at a time
    None,           \* no tile
    MaxRevision,    \* bound: changes of the map
    MaxInvalid      \* bound: regions invalidated

TileType ==
    [key : Keys, built : Nat, maprev : Nat, dirty : BOOLEAN, outOfDate : BOOLEAN,
     blind : BOOLEAN]

ASSUME TileAssumptions ==
    /\ Root \in Keys
    /\ Parent \in [Keys \ {Root} -> Keys \ Leaves]
    /\ Root \notin Leaves
    /\ None \notin Ids \union TileType
    /\ MaxRevision \in Nat
    /\ MaxInvalid \in Nat

VARIABLES
    revision,   \* the map's revision, as a frame synced now would have it
    invalidated,\* how many regions were invalidated
    known,      \* _maprev of the live registry
    tiles,      \* the tiles there are: a record for each id in use, or None
    live, dead, \* the registries: the tile under each key, or None
    scene,      \* the tile in the scene graph at each key, or None
    agent,      \* _updateAgent of each TileGroup: "none", "asks" or "stuck"
    refused,    \* keys whose parent has stopped asking for them
    pager,      \* the load the pager is at
    loaded,     \* what was loaded, in the order it will be merged
    todo        \* calls the main thread has still to make

asked == <<revision, invalidated>>
registries == <<known, live, dead>>
sceneVars == <<scene, agent, refused>>
pagerVars == <<pager, loaded>>
vars == <<asked, registries, tiles, sceneVars, pagerVars, todo>>

Idle == [at |-> "idle"]

\* A tile of a model built at revision rev.
Tile(k, rev, maprev, blind) ==
    [key |-> k, built |-> rev, maprev |-> maprev, dirty |-> FALSE,
     outOfDate |-> FALSE, blind |-> blind]

\* A tile goes when nothing refers to it, and of one that only the registry of
\* the dead holds nobody looks at more than its key.
Spent(k) == Tile(k, 0, 0, FALSE)

ToMove(call) == IF call[1] = "expire" THEN {scene[k] : k \in call[2]} ELSE {call[2]}

\* Mutant: what waits to be merged holds no reference.
InUseButLoaded ==
    {live[k] : k \in Keys} \union {scene[k] : k \in Keys}
      \union UNION {ToMove(todo[i]) : i \in DOMAIN todo}

InUse ==
    {live[k] : k \in Keys} \union {scene[k] : k \in Keys}
      \union {loaded[i].tile : i \in DOMAIN loaded}
      \union UNION {ToMove(todo[i]) : i \in DOMAIN todo}

Keep(T) ==
    tiles' = [t \in Ids |-> IF t \in InUse' THEN T[t]
                             ELSE IF \E k \in Keys : dead'[k] = t THEN Spent(T[t].key)
                             ELSE None]

Unused == {t \in Ids : tiles[t] = None}

Init ==
    /\ revision = 0
    /\ invalidated = 0
    /\ known = 0
    /\ \E t \in Ids :
          /\ t = CHOOSE i \in Ids : TRUE
          /\ tiles = [i \in Ids |-> IF i = t THEN Tile(Root, 0, 0, FALSE) ELSE None]
          /\ live = [k \in Keys |-> IF k = Root THEN t ELSE None]
          /\ scene = [k \in Keys |-> IF k = Root THEN t ELSE None]
    /\ dead = [k \in Keys |-> None]
    /\ agent = [k \in Keys |-> "none"]
    /\ refused = {}
    /\ pager = Idle
    /\ loaded = <<>>
    /\ todo = <<>>

MainIsFree == todo = <<>>

-----------------------------------------------------------------------------
(* The registries                                                          *)

\* Mutant: the tile stays among the live.
MoveNothing(t) == <<<<"bury", t>>>>

\* TileNodeRegistry::move, for one tile: out of live by its key, then into
\* dead.
Move(t) == <<<<"remove", t>>, <<"bury", t>>>>

\* setMapRevision: every live tile is told.
SetMapRevision ==
    /\ Head(todo)[1] = "setMapRevision"
    /\ known' = Head(todo)[3]
    /\ todo' = Tail(todo)
    /\ UNCHANGED <<asked, live, dead, sceneVars, pagerVars>>
    /\ Keep([t \in Ids |-> IF \E k \in Keys : live[k] = t
                           THEN [tiles[t] EXCEPT !.maprev = known'] ELSE tiles[t]])

\* remove: whatever tile is there under the key of this one.
Remove ==
    /\ Head(todo)[1] = "remove"
    /\ live' = [live EXCEPT ![tiles[Head(todo)[2]].key] = None]
    /\ todo' = Tail(todo)
    /\ UNCHANGED <<asked, known, dead, sceneVars, pagerVars>>
    /\ Keep(tiles)

Bury ==
    /\ Head(todo)[1] = "bury"
    /\ dead' = [dead EXCEPT ![tiles[Head(todo)[2]].key] = Head(todo)[2]]
    /\ todo' = Tail(todo)
    /\ UNCHANGED <<asked, known, live, sceneVars, pagerVars>>
    /\ Keep(tiles)

\* Mutant: a tile is added without the revision of the map.
AddUntold ==
    /\ Head(todo)[1] = "add"
    /\ live' = [live EXCEPT ![tiles[Head(todo)[2]].key] = Head(todo)[2]]
    /\ todo' = Tail(todo)
    /\ UNCHANGED <<asked, known, dead, sceneVars, pagerVars>>
    /\ Keep(tiles)

\* add: the tile is told the revision.
Add ==
    /\ Head(todo)[1] = "add"
    /\ live' = [live EXCEPT ![tiles[Head(todo)[2]].key] = Head(todo)[2]]
    /\ todo' = Tail(todo)
    /\ UNCHANGED <<asked, known, dead, sceneVars, pagerVars>>
    /\ Keep([tiles EXCEPT ![Head(todo)[2]].maprev = known])

\* The draw thread takes the dead tiles and releases their GL objects.
Release ==
    /\ \E k \in Keys : dead[k] # None
    /\ dead' = [k \in Keys |-> None]
    /\ UNCHANGED <<asked, known, live, sceneVars, pagerVars, todo>>
    /\ Keep(tiles)

-----------------------------------------------------------------------------
(* The main thread                                                         *)

\* A change of the map; onMapModelChanged syncs the engine's frame and tells
\* the live registry.
ChangeMap ==
    /\ MainIsFree
    /\ revision < MaxRevision
    /\ revision' = revision + 1
    /\ todo' = <<<<"setMapRevision", None, revision + 1>>>>
    /\ UNCHANGED <<invalidated, registries, tiles, sceneVars, pagerVars>>

\* invalidateRegion: the live tiles of a region are dirty.
Invalidate(region) ==
    /\ MainIsFree
    /\ invalidated < MaxInvalid
    /\ invalidated' = invalidated + 1
    /\ UNCHANGED <<revision, registries, sceneVars, pagerVars, todo>>
    /\ Keep([t \in Ids |-> IF \E k \in region : live[k] = t
                           THEN [tiles[t] EXCEPT !.dirty = TRUE] ELSE tiles[t]])

\* Mutant: the revisions are not looked at.
DiffersWhenDirty(t) == tiles[t].dirty

Differs(t) == tiles[t].dirty \/ tiles[t].built # tiles[t].maprev

\* The group is culled, and makes an agent when a tile is out of date; then
\* the tile is, and finds out that it is.
Cull(k) ==
    /\ MainIsFree
    /\ scene[k] # None
    /\ agent' = IF agent[k] = "none" /\ tiles[scene[k]].outOfDate
                THEN [agent EXCEPT ![k] = "asks"] ELSE agent
    /\ UNCHANGED <<asked, registries, scene, refused, pagerVars, todo>>
    /\ Keep(IF Differs(scene[k]) THEN [tiles EXCEPT ![scene[k]].outOfDate = TRUE] ELSE tiles)

\* What was loaded for a group or a parent that has expired is dropped.  A
\* tile with a TilePagedLOD leaves the live registry with it.
DropLoaded(j) ==
    /\ j.orphan
    /\ todo' = IF j.kind = "child" /\ j.tile # None /\ j.key \notin Leaves
               THEN Move(j.tile) ELSE <<>>
    /\ UNCHANGED sceneVars

\* TilePagedLOD::addChild.  An InvalidTileNode stops the asking.
AddChild(j) ==
    /\ ~j.orphan
    /\ j.kind = "child"
    /\ IF j.tile = None
       THEN refused' = refused \union {j.key} /\ UNCHANGED scene
       ELSE scene' = [scene EXCEPT ![j.key] = j.tile] /\ UNCHANGED refused
    /\ UNCHANGED <<agent, todo>>

\* Mutant: the old tile is not moved before the new one is added.
UpdateAddingFirst(j) ==
    /\ ~j.orphan
    /\ j.kind = "update"
    /\ j.tile # None
    /\ scene' = [scene EXCEPT ![j.key] = j.tile]
    /\ todo' = <<<<"add", j.tile>>>> \o Move(scene[j.key])
    /\ agent' = [agent EXCEPT ![j.key] = "none"]
    /\ UNCHANGED refused

\* TileGroup::applyUpdate: the new tile takes the old one's place, the old one
\* moves to the dead, and then the new one is added to the live.
ApplyUpdate(j) ==
    /\ ~j.orphan
    /\ j.kind = "update"
    /\ j.tile # None
    /\ scene' = [scene EXCEPT ![j.key] = j.tile]
    /\ todo' = Move(scene[j.key]) \o <<<<"add", j.tile>>>>
    /\ agent' = [agent EXCEPT ![j.key] = "none"]
    /\ UNCHANGED refused

\* An update that is no TileGroup leaves the agent there, and it never asks
\* again.
RejectUpdate(j) ==
    /\ ~j.orphan
    /\ j.kind = "update"
    /\ j.tile = None
    /\ agent' = [agent EXCEPT ![j.key] = "stuck"]
    /\ UNCHANGED <<scene, refused, todo>>

Merge ==
    /\ MainIsFree
    /\ loaded # <<>>
    /\ LET j == Head(loaded)
       IN  DropLoaded(j) \/ AddChild(j) \/ ApplyUpdate(j) \/ RejectUpdate(j)
    /\ loaded' = Tail(loaded)
    /\ UNCHANGED <<asked, registries, pager>>
    /\ Keep(tiles)

\* k and the keys below it: the least set with k and with the children of its keys.
Below(k) ==
    {c \in Keys :
        \A S \in SUBSET Keys :
            k \in S /\ (\A d \in Keys \ {Root} : Parent[d] \in S => d \in S) => c \in S}

\* removeExpiredChildren: the collector moves every tile of the subgraph, then
\* it is taken out.
Expire(k) ==
    /\ MainIsFree
    /\ k # Root
    /\ scene[k] # None
    /\ todo' = <<<<"expire", {c \in Below(k) : scene[c] # None}, k>>>>
    /\ UNCHANGED <<asked, registries, tiles, sceneVars, pagerVars>>

Collect ==
    /\ Head(todo)[1] = "expire"
    /\ \E k \in Head(todo)[2] :
          todo' = Move(scene[k])
                    \o <<<<"expire", Head(todo)[2] \ {k}, Head(todo)[3]>>>>
    /\ UNCHANGED <<asked, registries, tiles, sceneVars, pagerVars>>

Orphaned(j, gone) ==
    IF j.key \in gone THEN [j EXCEPT !.orphan = TRUE] ELSE j

Cut ==
    /\ Head(todo)[1] = "expire"
    /\ Head(todo)[2] = {}
    /\ LET k == Head(todo)[3]
           gone == Below(k)
       IN  /\ scene' = [c \in Keys |-> IF c \in gone THEN None ELSE scene[c]]
           /\ agent' = [c \in Keys |-> IF c \in gone THEN "none" ELSE agent[c]]
           /\ refused' = refused \ gone
           /\ pager' = IF pager = Idle THEN Idle ELSE Orphaned(pager, gone)
           /\ loaded' = [i \in DOMAIN loaded |-> Orphaned(loaded[i], gone)]
    /\ todo' = <<>>
    /\ UNCHANGED <<asked, registries>>
    /\ Keep(tiles)

-----------------------------------------------------------------------------
(* The pager                                                               *)

Outstanding(k, kind) ==
    \/ pager # Idle /\ pager.key = k /\ pager.kind = kind /\ ~pager.orphan
    \/ \E i \in DOMAIN loaded :
          loaded[i].key = k /\ loaded[i].kind = kind /\ ~loaded[i].orphan

\* The quad below a tile of the scene, or the update of a group, is asked for.
Asked(k, kind) ==
    /\ ~Outstanding(k, kind)
    /\ IF kind = "update"
       THEN agent[k] = "asks"
       ELSE k # Root /\ scene[k] = None /\ scene[Parent[k]] # None /\ k \notin refused

\* createNode: the frame is synced.
Begin(k, kind) ==
    /\ pager = Idle
    /\ Asked(k, kind)
    /\ pager' = [at |-> "lookup", key |-> k, kind |-> kind, rev |-> revision,
                 blind |-> FALSE, orphan |-> FALSE]
    /\ UNCHANGED <<asked, registries, tiles, sceneVars, loaded, todo>>

\* A quad below the first level has its heights from its parent tile in the
\* live registry, unless the cache has them: without either it has none.
LookUpParent ==
    /\ pager # Idle
    /\ pager.at = "lookup"
    /\ \E cached \in BOOLEAN :
          LET k == pager.key
              orphan == k # Root /\ ~cached
                          /\ (live[Parent[k]] = None \/ tiles[live[Parent[k]]].blind)
          IN  pager' = [pager EXCEPT !.at = "make", !.blind = orphan]
    /\ UNCHANGED <<asked, registries, tiles, sceneVars, loaded, todo>>

Loaded(t) ==
    /\ pager' = Idle
    /\ loaded' = Append(loaded, [key |-> pager.key, kind |-> pager.kind,
                                 orphan |-> pager.orphan, tile |-> t])

\* createTile: the tile of a TilePagedLOD is added to the live registry at
\* once, and told the revision; that of an update, or of a leaf, is not.
Make ==
    /\ pager # Idle
    /\ pager.at = "make"
    /\ \E t \in Unused :
          LET k == pager.key
              paged == pager.kind = "child" /\ k \notin Leaves
          IN  /\ t = CHOOSE i \in Unused : TRUE
              /\ Loaded(t)
              /\ live' = IF paged THEN [live EXCEPT ![k] = t] ELSE live
              /\ UNCHANGED <<asked, known, dead, sceneVars, todo>>
              /\ Keep([tiles EXCEPT ![t] =
                         Tile(k, pager.rev, IF paged THEN known ELSE pager.rev, pager.blind)])

\* No quadrant has data of its own: an InvalidTileNode takes the quad's place.
\* The first level is made in any case.
MakeNothing ==
    /\ pager # Idle
    /\ pager.at = "make"
    /\ pager.key # Root
    /\ Loaded(None)
    /\ UNCHANGED <<asked, registries, tiles, sceneVars, todo>>

\* The load of a child that has not been culled lately is given up, and may be
\* asked for again.
Cancel ==
    /\ pager # Idle
    /\ pager.kind = "child"
    /\ pager' = Idle
    /\ UNCHANGED <<asked, registries, tiles, sceneVars, loaded, todo>>

-----------------------------------------------------------------------------
MainCall == todo # <<>> /\ (SetMapRevision \/ Remove \/ Bury \/ Add \/ Collect \/ Cut)

Build == LookUpParent \/ Make \/ MakeNothing

Kinds == {"child", "update"}

Next ==
    \/ ChangeMap
    \/ \E region \in SUBSET Keys : Invalidate(region)
    \/ \E k \in Keys : Cull(k) \/ Expire(k) \/ \E kind \in Kinds : Begin(k, kind)
    \/ Merge
    \/ MainCall
    \/ Build
    \/ Cancel
    \/ Release

\* The main thread culls and merges in every frame.  The pager goes on with
\* what it has begun, and, as requests are renewed in every frame, it passes
\* none over for good.
Fairness ==
    /\ WF_vars(MainCall)
    /\ WF_vars(Merge)
    /\ WF_vars(Build)
    /\ \A k \in Keys : SF_vars(Cull(k)) /\ SF_vars(\E kind \in Kinds : Begin(k, kind))

Spec == Init /\ [][Next]_vars /\ Fairness

-----------------------------------------------------------------------------
(* Properties                                                              *)

\* Type invariant: whatever the registries and the scene refer to is there.
TypeOK ==
    /\ revision \in Nat
    /\ known \in Nat
    /\ tiles \in [Ids -> TileType \union {None}]
    /\ \A m \in {live, dead, scene} :
          /\ m \in [Keys -> Ids \union {None}]
          /\ \A k \in Keys : m[k] # None => tiles[m[k]] # None /\ tiles[m[k]].key = k
    /\ agent \in [Keys -> {"none", "asks", "stuck"}]
    /\ refused \subseteq Keys \ {Root}

\* Every live tile has been told the revision that the registry knows, whether
\* it was added before, while or after the map changed.
LiveTilesKnowRevision == \A k \in Keys : live[k] # None => tiles[live[k]].maprev = known

\* The live registry holds the "tiles in the scene graph"
\* (MPTerrainEngineNode:146): between two calls of the main thread each tile
\* of the scene that is no leaf is the one under its key, though keys are
\* loaded, replaced, expired and loaded again.
SceneIsLive ==
    MainIsFree => \A k \in Keys \ Leaves : scene[k] # None => live[k] = scene[k]

\* The GL objects of a tile are released only when it is out of the scene and
\* of the live registry for good.
DeadIsOut ==
    MainIsFree => \A k \in Keys : dead[k] # None => dead[k] \notin {scene[k], live[k]}

\* A child that was built while its parent was not to be found is "discarded
\* as well" (TileModelFactory:130): it never comes into the scene.
BlindIsDiscarded == \A k \in Keys : scene[k] # None => ~tiles[scene[k]].blind

\* Once the map changes no more, every tile of the scene comes to be one that
\* was built at its last revision, except where an update had no data and in
\* leaves, which the live registry does not know.
UpdatesReachTheScene ==
    \A k \in Keys \ Leaves :
        <>[](\/ scene[k] = None
             \/ agent[k] = "stuck"
             \/ tiles[scene[k]].built = revision)
=============================================================================
