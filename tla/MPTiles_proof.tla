--------------------------- MODULE MPTiles_proof ---------------------------
(***************************************************************************)
(* What the registries and the scene refer to is there, every live tile    *)
(* knows the map's revision, the live registry has the tiles of the scene, *)
(* and what may be released is in neither: for any tree of keys, any       *)
(* number of tiles and of changes of the map.                              *)
(***************************************************************************)
EXTENDS MPTiles, SequenceTheorems, TLAPS

USE TileAssumptions

-----------------------------------------------------------------------------
(* Sequences                                                               *)

LEMMA RangeOfTail ==
    ASSUME NEW S, NEW s \in Seq(S), s # <<>>
    PROVE  /\ Head(s) \in S
           /\ Head(s) \in Range(s)
           /\ Tail(s) \in Seq(S)
           /\ Range(Tail(s)) \subseteq Range(s)
<1>1. /\ Len(s) \in Nat \ {0}
      /\ DOMAIN s = 1 .. Len(s)
      /\ Head(s) = s[1]
      /\ Tail(s) \in Seq(S)
      /\ Len(Tail(s)) = Len(s) - 1
      /\ \A i \in 1 .. Len(s) - 1 : Tail(s)[i] = s[i + 1]
  BY HeadTailProperties
<1>2. ASSUME NEW x \in Range(Tail(s)) PROVE x \in Range(s)
  <2>1. PICK i \in 1 .. Len(s) - 1 : x = Tail(s)[i]
    BY <1>1 DEF Range
  <2>2. i + 1 \in DOMAIN s /\ x = s[i + 1]
    BY <1>1, <2>1
  <2> QED
    BY <2>2 DEF Range
<1> QED
  BY <1>1, <1>2 DEF Range

LEMMA RangeOfAppend ==
    ASSUME NEW S, NEW s \in Seq(S), NEW x \in S
    PROVE  Append(s, x) \in Seq(S) /\ Range(Append(s, x)) \subseteq Range(s) \union {x}
<1>1. /\ Append(s, x) \in Seq(S)
      /\ DOMAIN Append(s, x) = 1 .. Len(s) + 1
      /\ DOMAIN s = 1 .. Len(s)
      /\ \A i \in 1 .. Len(s) : Append(s, x)[i] = s[i]
      /\ Append(s, x)[Len(s) + 1] = x
      /\ Len(s) \in Nat
  BY AppendProperties
<1> QED
  BY <1>1 DEF Range

-----------------------------------------------------------------------------
(* The inductive invariant                                                 *)

LoadType == [key : Keys, kind : Kinds, orphan : BOOLEAN, tile : Ids \union {None}]

BuildType ==
    [at : {"lookup", "make"}, key : Keys, kind : Kinds, rev : Nat, blind : BOOLEAN,
     orphan : BOOLEAN]

CallType ==
    {<<"setMapRevision", None, n>> : n \in Nat}
      \union ({"remove", "bury", "add"} \X Ids)
      \union {<<"expire", S, k>> : S \in SUBSET Keys, k \in Keys}

\* Types, no child load of the root, and updates only of what is in the scene.
WellFormed ==
    /\ revision \in Nat
    /\ known \in Nat
    /\ live \in [Keys -> Ids \union {None}]
    /\ dead \in [Keys -> Ids \union {None}]
    /\ scene \in [Keys -> Ids \union {None}]
    /\ agent \in [Keys -> {"none", "asks", "stuck"}]
    /\ refused \subseteq Keys \ {Root}
    /\ pager \in BuildType \union {Idle}
    /\ pager # Idle /\ pager.kind = "child" => pager.key # Root
    /\ loaded \in Seq(LoadType)
    /\ \A j \in Range(loaded) : j.kind = "child" => j.key # Root
    /\ todo \in Seq(CallType)
    /\ \A k \in Keys : agent[k] = "asks" => scene[k] # None
    /\ pager # Idle /\ pager.kind = "update" /\ ~pager.orphan => scene[pager.key] # None
    /\ \A j \in Range(loaded) :
          j.kind = "update" /\ ~j.orphan => scene[j.key] # None

TileMaps == [Ids -> TileType \union {None}]

LEMMA ExpireIsCall ==
    ASSUME NEW S \in SUBSET Keys, NEW k \in Keys
    PROVE  <<"expire", S, k>> \in CallType
<1>1. <<"expire", S, k>> \in {<<"expire", R, l>> : R \in SUBSET Keys, l \in Keys}
  OBVIOUS
<1> QED
  BY <1>1 DEF CallType

\* T has a tile of key k under t.
Has(T, t, k) == T[t] # None /\ T[t].key = k

\* What a call of the main thread refers to is there.
CallRefers(T, sc, call) ==
    /\ call[1] \in {"remove", "bury", "add"} => T[call[2]] # None
    /\ call[1] = "expire" => \A k \in call[2] : sc[k] # None

Refers(T, lv, dd, sc, ld, td) ==
    /\ \A k \in Keys : lv[k] # None => Has(T, lv[k], k)
    /\ \A k \in Keys : dd[k] # None => Has(T, dd[k], k)
    /\ \A k \in Keys : sc[k] # None => Has(T, sc[k], k)
    /\ \A j \in Range(ld) : j.tile # None => Has(T, j.tile, j.key)
    /\ \A call \in Range(td) : CallRefers(T, sc, call)

Knows(T, lv, rev) == \A k \in Keys : lv[k] # None => T[lv[k]].maprev = rev

Inv ==
    /\ WellFormed
    /\ tiles \in TileMaps
    /\ Refers(tiles, live, dead, scene, loaded, todo)
    /\ Knows(tiles, live, known)

LEMMA InvImplies == Inv => TypeOK /\ LiveTilesKnowRevision
BY DEF Inv, WellFormed, TileMaps, Refers, Has, Knows, TypeOK, LiveTilesKnowRevision

LEMMA TileIsTile ==
    ASSUME NEW k \in Keys, NEW a \in Nat, NEW b \in Nat, NEW c \in BOOLEAN
    PROVE  /\ Tile(k, a, b, c) \in TileType /\ Tile(k, a, b, c) # None
           /\ Tile(k, a, b, c).key = k /\ Tile(k, a, b, c).maprev = b
<1>1. Tile(k, a, b, c) \in TileType
  BY DEF Tile, TileType
<1>2. Tile(k, a, b, c).key = k /\ Tile(k, a, b, c).maprev = b
  BY DEF Tile
<1> QED
  BY <1>1, <1>2

\* Keep leaves what is referred to as it is, or as no more than its key.
LEMMA KeepKeeps ==
    ASSUME NEW T \in TileMaps, Keep(T), WellFormed',
           Refers(T, live', dead', scene', loaded', todo'),
           Knows(T, live', known')
    PROVE  Inv'
<1>1. \A t \in Ids : \/ tiles'[t] = T[t] /\ T[t] # None
                     \/ tiles'[t] = Spent(T[t].key) /\ t \notin InUse'
                          /\ \E k \in Keys : dead'[k] = t
                     \/ tiles'[t] = None /\ t \notin InUse' /\ \A k \in Keys : dead'[k] # t
                     \/ tiles'[t] = T[t] /\ t \in InUse'
  BY DEF Keep
<1>2. \A t \in InUse' : t \in Ids => tiles'[t] = T[t]
  BY <1>1 DEF Keep
<1>3. /\ \A k \in Keys : live'[k] \in InUse' /\ scene'[k] \in InUse'
      /\ \A j \in Range(loaded') : j.tile \in InUse'
      /\ \A call \in Range(todo') :
            call[1] \in {"remove", "bury", "add"} => call[2] \in InUse'
  <2>1. \A k \in Keys : live'[k] \in InUse' /\ scene'[k] \in InUse'
    BY DEF InUse
  <2>2. \A j \in Range(loaded') : j.tile \in InUse'
    BY DEF InUse, Range
  <2>3. ASSUME NEW call \in Range(todo'), call[1] \in {"remove", "bury", "add"}
        PROVE  call[2] \in InUse'
    <3>1. PICK i \in DOMAIN todo' : call = todo'[i]
      BY DEF Range
    <3>2. todo'[i][1] # "expire" /\ call[2] \in {todo'[i][2]}
      BY <2>3, <3>1
    <3> QED
      BY <3>1, <3>2 DEF InUse, ToMove
  <2> QED
    BY <2>1, <2>2, <2>3
<1>4. tiles' \in TileMaps
  <2>1. \A t \in Ids : tiles'[t] \in TileType \union {None}
    <3> SUFFICES ASSUME NEW t \in Ids PROVE tiles'[t] \in TileType \union {None}
      OBVIOUS
    <3>1. T[t] \in TileType \union {None}
      BY DEF TileMaps
    <3>2. ASSUME NEW k \in Keys, dead'[k] = t PROVE Spent(T[t].key) \in TileType
      <4>1. T[t].key = k
        BY <3>2 DEF Refers, Has
      <4> QED
        BY <4>1, TileIsTile DEF Spent
    <3> QED
      BY <1>1, <3>1, <3>2
  <2> QED
    BY <2>1 DEF Keep, TileMaps
<1>5. Refers(tiles', live', dead', scene', loaded', todo')
  <2>1. ASSUME NEW k \in Keys, live'[k] # None PROVE Has(tiles', live'[k], k)
    BY <1>2, <1>3, <2>1 DEF WellFormed, Refers, Has
  <2>2. ASSUME NEW k \in Keys, scene'[k] # None PROVE Has(tiles', scene'[k], k)
    BY <1>2, <1>3, <2>2 DEF WellFormed, Refers, Has
  <2>3. ASSUME NEW k \in Keys, dead'[k] # None PROVE Has(tiles', dead'[k], k)
    <3>1. dead'[k] \in Ids /\ T[dead'[k]] # None /\ T[dead'[k]].key = k
      BY <2>3 DEF WellFormed, Refers, Has
    <3>2. Spent(k) # None /\ Spent(k).key = k
      BY TileIsTile DEF Spent
    <3> QED
      BY <1>1, <3>1, <3>2 DEF Has
  <2>4. ASSUME NEW j \in Range(loaded'), j.tile # None PROVE Has(tiles', j.tile, j.key)
    <3>1. j \in LoadType
      BY DEF WellFormed, Range
    <3> QED
      BY <1>2, <1>3, <2>4, <3>1 DEF Refers, Has, LoadType
  <2>5. ASSUME NEW call \in Range(todo') PROVE CallRefers(tiles', scene', call)
    <3>1. call \in CallType
      BY DEF WellFormed, Range
    <3>2. CallRefers(T, scene', call)
      BY DEF Refers
    <3>3. CASE call[1] \in {"remove", "bury", "add"}
      <4>1. call[2] \in Ids
        BY <3>1, <3>3 DEF CallType
      <4> QED
        BY <1>2, <1>3, <3>2, <3>3, <4>1 DEF CallRefers
    <3> QED
      BY <3>2, <3>3 DEF CallRefers
  <2> QED
    BY <2>1, <2>2, <2>3, <2>4, <2>5 DEF Refers
<1>6. Knows(tiles', live', known')
  BY <1>2, <1>3 DEF Knows, WellFormed
<1> QED
  BY <1>4, <1>5, <1>6 DEF Inv

\* What changes a tile but for its key changes nothing that is referred to.
LEMMA SameKeys ==
    ASSUME NEW T,
           \A t \in Ids : tiles[t] # None => T[t] # None /\ T[t].key = tiles[t].key,
           WellFormed', Refers(tiles, live', dead', scene', loaded', todo')
    PROVE  Refers(T, live', dead', scene', loaded', todo')
<1>1. \A t \in Ids, k \in Keys : Has(tiles, t, k) => Has(T, t, k)
  BY DEF Has
<1>2. ASSUME NEW j \in Range(loaded'), j.tile # None PROVE Has(T, j.tile, j.key)
  <2>1. j \in LoadType
    BY DEF WellFormed, Range
  <2> QED
    BY <1>1, <1>2, <2>1 DEF LoadType, Refers
<1>3. ASSUME NEW call \in Range(todo') PROVE CallRefers(T, scene', call)
  <2>1. call \in CallType
    BY DEF WellFormed, Range
  <2>2. CallRefers(tiles, scene', call)
    BY DEF Refers
  <2> QED
    BY <2>1, <2>2 DEF CallRefers, CallType
<1> QED
  BY <1>1, <1>2, <1>3 DEF WellFormed, Refers

-----------------------------------------------------------------------------
(* Calls on the registries                                                 *)

\* A call is taken off the list, and what is left goes on to refer to tiles.
LEMMA NextCall ==
    ASSUME Inv, todo # <<>>, todo' = Tail(todo)
    PROVE  /\ Head(todo) \in CallType
           /\ CallRefers(tiles, scene, Head(todo))
           /\ todo' \in Seq(CallType)
           /\ Range(todo') \subseteq Range(todo)
<1>1. todo \in Seq(CallType)
  BY DEF Inv, WellFormed
<1> QED
  BY <1>1, RangeOfTail DEF Inv, Refers

LEMMA TileOfCall ==
    ASSUME Inv, NEW call \in CallType, CallRefers(tiles, scene, call),
           call[1] \in {"remove", "bury", "add"}
    PROVE  call[2] \in Ids /\ tiles[call[2]] \in TileType /\ tiles[call[2]].key \in Keys
<1>1. call[2] \in Ids
  BY DEF CallType
<1>2. tiles[call[2]] \in TileType
  BY <1>1 DEF Inv, TileMaps, CallRefers
<1> QED
  BY <1>1, <1>2 DEF TileType

LEMMA SetMapRevisionKeeps ==
    ASSUME Inv, todo # <<>>, SetMapRevision PROVE Inv'
<1> DEFINE T == [t \in Ids |-> IF \E k \in Keys : live[k] = t
                               THEN [tiles[t] EXCEPT !.maprev = known'] ELSE tiles[t]]
<1>1. /\ todo' = Tail(todo)
      /\ UNCHANGED <<revision, live, dead, scene, agent, refused, pager, loaded>>
      /\ Keep(T)
  BY DEF SetMapRevision, asked, sceneVars, pagerVars
<1>2. known' \in Nat
  <2>1. Head(todo) \in CallType /\ Head(todo)[1] = "setMapRevision"
    BY <1>1, NextCall DEF SetMapRevision
  <2> QED
    BY <2>1 DEF SetMapRevision, CallType
<1>3. ASSUME NEW t \in Ids, tiles[t] # None
      PROVE  /\ T[t] \in TileType /\ T[t] # None /\ T[t].key = tiles[t].key
             /\ (\E k \in Keys : live[k] = t) => T[t].maprev = known'
  <2>1. tiles[t] \in TileType
    BY <1>3 DEF Inv, TileMaps
  <2>2. [tiles[t] EXCEPT !.maprev = known'] \in TileType
    BY <1>2, <2>1 DEF TileType
  <2> QED
    BY <2>1, <2>2 DEF TileType
<1>4. T \in TileMaps
  <2>1. ASSUME NEW t \in Ids PROVE T[t] \in TileType \union {None}
    <3>1. CASE tiles[t] = None
      <4>1. \A k \in Keys : live[k] # t
        BY <3>1 DEF Inv, Refers, Has
      <4> QED
        BY <3>1, <4>1
    <3> QED
      BY <1>3, <3>1
  <2> QED
    BY <2>1 DEF TileMaps
<1> HIDE DEF T
<1>5. WellFormed'
  BY <1>1, <1>2, NextCall DEF Inv, WellFormed
<1>6. Refers(T, live', dead', scene', loaded', todo')
  <2>1. Refers(tiles, live', dead', scene', loaded', todo')
    BY <1>1, NextCall DEF Inv, Refers
  <2> QED
    BY <1>3, <1>5, <2>1, SameKeys
<1>7. Knows(T, live', known')
  BY <1>1, <1>3 DEF Knows, Inv, WellFormed, Refers, Has
<1> QED
  BY <1>1, <1>4, <1>5, <1>6, <1>7, KeepKeeps

LEMMA RemoveKeeps == ASSUME Inv, todo # <<>>, Remove PROVE Inv'
<1> DEFINE k == tiles[Head(todo)[2]].key
<1>1. /\ todo' = Tail(todo)
      /\ live' = [live EXCEPT ![k] = None]
      /\ UNCHANGED <<revision, known, dead, scene, agent, refused, pager, loaded>>
      /\ Keep(tiles)
  BY DEF Remove, asked, sceneVars, pagerVars
<1> HIDE DEF k
<1>2. live' \in [Keys -> Ids \union {None}]
  BY <1>1 DEF Inv, WellFormed
<1>3. \A l \in Keys : live'[l] # None => live'[l] = live[l]
  BY <1>1 DEF Inv, WellFormed
<1>4. WellFormed'
  BY <1>1, <1>2, NextCall DEF Inv, WellFormed
<1>5. Refers(tiles, live', dead', scene', loaded', todo')
  BY <1>1, <1>3, NextCall DEF Inv, Refers
<1>6. Knows(tiles, live', known')
  BY <1>1, <1>3 DEF Inv, Knows
<1> QED
  BY <1>1, <1>4, <1>5, <1>6, KeepKeeps DEF Inv

LEMMA BuryKeeps == ASSUME Inv, todo # <<>>, Bury PROVE Inv'
<1> DEFINE u == Head(todo)[2]
           k == tiles[u].key
<1>1. /\ todo' = Tail(todo)
      /\ dead' = [dead EXCEPT ![k] = u]
      /\ UNCHANGED <<revision, known, live, scene, agent, refused, pager, loaded>>
      /\ Keep(tiles)
      /\ Head(todo)[1] = "bury"
  BY DEF Bury, asked, sceneVars, pagerVars
<1>2. u \in Ids /\ tiles[u] # None /\ k \in Keys
  BY <1>1, NextCall, TileOfCall DEF CallRefers
<1>3. Has(tiles, u, k)
  BY <1>2 DEF Has
<1> HIDE DEF u, k
<1>4. dead' \in [Keys -> Ids \union {None}]
  BY <1>1, <1>2 DEF Inv, WellFormed
<1>5. \A l \in Keys : dead'[l] = IF l = k THEN u ELSE dead[l]
  BY <1>1 DEF Inv, WellFormed
<1>6. WellFormed'
  BY <1>1, <1>4, NextCall DEF Inv, WellFormed
<1>7. Refers(tiles, live', dead', scene', loaded', todo')
  BY <1>1, <1>3, <1>5, NextCall DEF Inv, Refers
<1> QED
  BY <1>1, <1>6, <1>7, KeepKeeps DEF Inv

LEMMA AddKeeps == ASSUME Inv, todo # <<>>, Add PROVE Inv'
<1> DEFINE u == Head(todo)[2]
           k == tiles[u].key
           T == [tiles EXCEPT ![u] = [tiles[u] EXCEPT !.maprev = known]]
<1>1. /\ todo' = Tail(todo)
      /\ live' = [live EXCEPT ![k] = u]
      /\ UNCHANGED <<revision, known, dead, scene, agent, refused, pager, loaded>>
      /\ Keep(T)
      /\ Head(todo)[1] = "add"
  BY DEF Add, asked, sceneVars, pagerVars
<1>2. u \in Ids /\ tiles[u] \in TileType /\ tiles[u] # None /\ k \in Keys
  BY <1>1, NextCall, TileOfCall DEF CallRefers
<1>3. Has(tiles, u, k)
  BY <1>2 DEF Has
<1>4. /\ [tiles[u] EXCEPT !.maprev = known] \in TileType
      /\ [tiles[u] EXCEPT !.maprev = known].key = k
      /\ [tiles[u] EXCEPT !.maprev = known].maprev = known
  BY <1>2 DEF Inv, WellFormed, TileType
<1>5. T \in TileMaps /\ \A t \in Ids : t # u => T[t] = tiles[t]
  BY <1>2, <1>4 DEF Inv, TileMaps
<1>6. T[u] \in TileType /\ T[u] # None /\ T[u].key = k /\ T[u].maprev = known
  BY <1>2, <1>4 DEF Inv, TileMaps
<1>7. \A t \in Ids : tiles[t] # None => T[t] # None /\ T[t].key = tiles[t].key
  BY <1>5, <1>6
<1> HIDE DEF u, k, T
<1>8. live' \in [Keys -> Ids \union {None}]
  BY <1>1, <1>2 DEF Inv, WellFormed
<1>9. \A l \in Keys : live'[l] = IF l = k THEN u ELSE live[l]
  BY <1>1 DEF Inv, WellFormed
<1>10. WellFormed'
  BY <1>1, <1>8, NextCall DEF Inv, WellFormed
<1>11. Refers(tiles, live', dead', scene', loaded', todo')
  BY <1>1, <1>3, <1>9, NextCall DEF Inv, Refers
<1>12. Refers(T, live', dead', scene', loaded', todo')
  BY <1>7, <1>10, <1>11, SameKeys
<1>13. Knows(T, live', known')
  BY <1>1, <1>5, <1>6, <1>9 DEF Inv, Knows, WellFormed
<1> QED
  BY <1>1, <1>5, <1>10, <1>12, <1>13, KeepKeeps

LEMMA ReleaseKeeps == ASSUME Inv, Release PROVE Inv'
<1>1. /\ dead' = [k \in Keys |-> None]
      /\ UNCHANGED <<revision, known, live, scene, agent, refused, pager, loaded, todo>>
      /\ Keep(tiles)
  BY DEF Release, asked, sceneVars, pagerVars
<1>2. WellFormed' /\ Refers(tiles, live', dead', scene', loaded', todo')
  BY <1>1 DEF Inv, WellFormed, Refers
<1> QED
  BY <1>1, <1>2, KeepKeeps DEF Inv

\* Collect: the tile is that of the scene.
LEMMA CollectKeeps == ASSUME Inv, todo # <<>>, Collect PROVE Inv'
<1>1. PICK k \in Head(todo)[2] :
         todo' = Move(scene[k]) \o <<<<"expire", Head(todo)[2] \ {k}, Head(todo)[3]>>>>
  BY DEF Collect
<1>2. UNCHANGED <<revision, known, live, dead, tiles, scene, agent, refused, pager, loaded>>
  BY DEF Collect, asked, registries, sceneVars, pagerVars
<1>3. /\ Head(todo) \in CallType /\ CallRefers(tiles, scene, Head(todo))
      /\ Head(todo)[1] = "expire"
  <2>1. todo \in Seq(CallType)
    BY DEF Inv, WellFormed
  <2> QED
    BY <2>1, RangeOfTail DEF Inv, Refers, Collect
<1>4. /\ Head(todo)[2] \subseteq Keys /\ Head(todo)[3] \in Keys
      /\ \A l \in Head(todo)[2] : scene[l] # None
  <2>1. Head(todo) \in {<<"expire", S, c>> : S \in SUBSET Keys, c \in Keys}
    BY <1>3 DEF CallType
  <2> QED
    BY <1>3, <2>1 DEF CallRefers
<1>5. scene[k] \in Ids /\ tiles[scene[k]] # None
  BY <1>4 DEF Inv, WellFormed, Refers, Has
<1> DEFINE rest == <<"expire", Head(todo)[2] \ {k}, Head(todo)[3]>>
<1>6. rest \in CallType /\ CallRefers(tiles, scene, rest)
  <2>0. Head(todo)[2] \ {k} \in SUBSET Keys
    BY <1>4
  <2>1. rest \in CallType
    BY <1>4, <2>0, ExpireIsCall
  <2> QED
    BY <1>4, <2>1 DEF CallRefers
<1>7. /\ <<"remove", scene[k]>> \in CallType /\ <<"bury", scene[k]>> \in CallType
      /\ CallRefers(tiles, scene, <<"remove", scene[k]>>)
      /\ CallRefers(tiles, scene, <<"bury", scene[k]>>)
  BY <1>5 DEF CallType, CallRefers
<1>8. todo' = Move(scene[k]) \o <<rest>>
  BY <1>1
<1> HIDE DEF rest
<1>9. todo' \in Seq(CallType) /\ \A call \in Range(todo') : CallRefers(tiles, scene, call)
  <2>1. /\ Move(scene[k]) \in Seq(CallType)
        /\ Range(Move(scene[k])) = {<<"remove", scene[k]>>, <<"bury", scene[k]>>}
    BY <1>7 DEF Move, Range
  <2>2. <<rest>> \in Seq(CallType) /\ Range(<<rest>>) = {rest}
    BY <1>6 DEF Range
  <2>3. /\ todo' \in Seq(CallType)
        /\ Range(todo') = Range(Move(scene[k])) \union Range(<<rest>>)
    BY <1>8, <2>1, <2>2, ConcatProperties, RangeConcatenation
  <2> QED
    BY <1>6, <1>7, <2>1, <2>2, <2>3
<1>10. WellFormed' /\ Refers(tiles', live', dead', scene', loaded', todo') /\ Knows(tiles', live', known')
  BY <1>2, <1>9 DEF Inv, WellFormed, Refers
<1> QED
  BY <1>2, <1>10 DEF Inv

LEMMA CutKeeps == ASSUME Inv, todo # <<>>, Cut PROVE Inv'
<1> DEFINE gone == Below(Head(todo)[3])
<1>1. /\ scene' = [c \in Keys |-> IF c \in gone THEN None ELSE scene[c]]
      /\ agent' = [c \in Keys |-> IF c \in gone THEN "none" ELSE agent[c]]
      /\ refused' = refused \ gone
      /\ pager' = IF pager = Idle THEN Idle ELSE Orphaned(pager, gone)
      /\ loaded' = [i \in DOMAIN loaded |-> Orphaned(loaded[i], gone)]
      /\ todo' = <<>>
      /\ UNCHANGED <<revision, known, live, dead>>
      /\ Keep(tiles)
  BY DEF Cut, asked, registries
<1> HIDE DEF gone
<1>2. pager' \in BuildType \union {Idle}
      /\ (pager' # Idle /\ pager'.kind = "child" => pager'.key # Root)
      /\ (pager' # Idle /\ pager'.kind = "update" /\ ~pager'.orphan
            => scene'[pager'.key] # None)
  <2>1. CASE pager = Idle
    BY <1>1, <2>1
  <2>2. CASE pager # Idle
    <3>1. pager \in BuildType /\ (pager.kind = "child" => pager.key # Root)
      BY <2>2 DEF Inv, WellFormed
    <3>2. /\ Orphaned(pager, gone) \in BuildType
          /\ Orphaned(pager, gone).kind = pager.kind /\ Orphaned(pager, gone).key = pager.key
          /\ ~Orphaned(pager, gone).orphan => ~pager.orphan /\ pager.key \notin gone
      BY <3>1 DEF Orphaned, BuildType
    <3>3. pager.key \in Keys
      BY <3>1 DEF BuildType
    <3>4. pager.kind = "update" /\ ~pager.orphan => scene[pager.key] # None
      BY <2>2 DEF Inv, WellFormed
    <3> QED
      BY <1>1, <2>2, <3>1, <3>2, <3>3, <3>4
  <2> QED
    BY <2>1, <2>2
<1>3. loaded \in Seq(LoadType) /\ DOMAIN loaded = 1 .. Len(loaded) /\ Len(loaded) \in Nat
  BY DEF Inv, WellFormed
<1>4. ASSUME NEW i \in DOMAIN loaded
      PROVE  /\ loaded'[i] \in LoadType
             /\ loaded'[i].kind = loaded[i].kind /\ loaded'[i].key = loaded[i].key
             /\ loaded'[i].tile = loaded[i].tile
             /\ ~loaded'[i].orphan => ~loaded[i].orphan /\ loaded[i].key \notin gone
             /\ loaded[i] \in Range(loaded)
  <2>1. loaded[i] \in LoadType /\ loaded'[i] = Orphaned(loaded[i], gone)
    BY <1>1, <1>3
  <2> QED
    BY <2>1 DEF Orphaned, LoadType, Range
<1>5. loaded' \in Seq(LoadType)
  <2>1. loaded' \in [1 .. Len(loaded) -> LoadType]
    BY <1>1, <1>3, <1>4
  <2> QED
    BY <1>3, <2>1, SeqDef
<1>6. \A j \in Range(loaded') : \E l \in Range(loaded) :
          /\ j.kind = l.kind /\ j.key = l.key /\ j.tile = l.tile
          /\ ~j.orphan => ~l.orphan /\ l.key \notin gone
  BY <1>1, <1>4 DEF Range
<1>7. scene' \in [Keys -> Ids \union {None}] /\ agent' \in [Keys -> {"none", "asks", "stuck"}]
  BY <1>1 DEF Inv, WellFormed
<1>8. todo' \in Seq(CallType) /\ Range(todo') = {}
  BY <1>1 DEF Range
<1>9. WellFormed'
  <2>1. \A j \in Range(loaded') : j.kind = "child" => j.key # Root
    BY <1>6 DEF Inv, WellFormed
  <2>2. refused' \subseteq Keys \ {Root}
    BY <1>1 DEF Inv, WellFormed
  <2> QED
    <3>1. ASSUME NEW j \in Range(loaded'), j.kind = "update", ~j.orphan
          PROVE  scene'[j.key] # None
      <4>1. PICK l \in Range(loaded) :
               /\ l.kind = "update" /\ l.key = j.key /\ ~l.orphan /\ l.key \notin gone
        BY <1>6, <3>1
      <4>2. scene[l.key] # None /\ l.key \in Keys
        <5>1. l \in LoadType
          BY <1>3, <4>1 DEF Range
        <5> QED
          BY <4>1, <5>1 DEF Inv, WellFormed, LoadType
      <4> QED
        BY <1>1, <4>1, <4>2
    <3>2. \A k \in Keys : agent'[k] = "asks" => scene'[k] # None
      BY <1>1 DEF Inv, WellFormed
    <3> QED
      BY <1>1, <1>2, <1>5, <1>7, <1>8, <2>1, <2>2, <3>1, <3>2 DEF Inv, WellFormed
<1>10. Refers(tiles, live', dead', scene', loaded', todo')
  BY <1>1, <1>6, <1>8 DEF Inv, Refers
<1> QED
  BY <1>1, <1>9, <1>10, KeepKeeps DEF Inv

-----------------------------------------------------------------------------
(* The main thread                                                         *)

LEMMA ChangeMapKeeps == ASSUME Inv, ChangeMap PROVE Inv'
<1>1. /\ revision' = revision + 1
      /\ todo' = <<<<"setMapRevision", None, revision + 1>>>>
      /\ UNCHANGED <<known, live, dead, tiles, scene, agent, refused, pager, loaded>>
  BY DEF ChangeMap, registries, sceneVars, pagerVars
<1>2. revision' \in Nat
  BY <1>1 DEF Inv, WellFormed
<1> DEFINE call == <<"setMapRevision", None, revision + 1>>
<1>3. call \in CallType /\ CallRefers(tiles, scene, call)
  BY <1>1, <1>2 DEF CallType, CallRefers
<1>4. todo' = <<call>>
  BY <1>1
<1> HIDE DEF call
<1>5. todo' \in Seq(CallType) /\ \A c \in Range(todo') : CallRefers(tiles, scene, c)
  BY <1>3, <1>4 DEF Range
<1> QED
  BY <1>1, <1>2, <1>5 DEF Inv, WellFormed, Refers

LEMMA InvalidateKeeps ==
    ASSUME Inv, NEW region \in SUBSET Keys, Invalidate(region) PROVE Inv'
<1> DEFINE T == [t \in Ids |-> IF \E k \in region : live[k] = t
                               THEN [tiles[t] EXCEPT !.dirty = TRUE] ELSE tiles[t]]
<1>1. /\ UNCHANGED <<revision, known, live, dead, scene, agent, refused, pager, loaded, todo>>
      /\ Keep(T)
  BY DEF Invalidate, registries, sceneVars, pagerVars
<1>2. ASSUME NEW t \in Ids, tiles[t] # None
      PROVE  /\ T[t] \in TileType /\ T[t] # None
             /\ T[t].key = tiles[t].key /\ T[t].maprev = tiles[t].maprev
  <2>1. tiles[t] \in TileType
    BY <1>2 DEF Inv, TileMaps
  <2>2. [tiles[t] EXCEPT !.dirty = TRUE] \in TileType
    BY <2>1 DEF TileType
  <2> QED
    BY <2>1, <2>2 DEF TileType
<1>3. T \in TileMaps
  <2>1. ASSUME NEW t \in Ids PROVE T[t] \in TileType \union {None}
    <3>1. CASE tiles[t] = None
      <4>1. \A k \in Keys : live[k] # t
        BY <3>1 DEF Inv, Refers, Has
      <4> QED
        BY <3>1, <4>1
    <3> QED
      BY <1>2, <3>1
  <2> QED
    BY <2>1 DEF TileMaps
<1> HIDE DEF T
<1>4. WellFormed'
  BY <1>1 DEF Inv, WellFormed
<1>5. Refers(T, live', dead', scene', loaded', todo')
  <2>1. Refers(tiles, live', dead', scene', loaded', todo')
    BY <1>1 DEF Inv
  <2> QED
    BY <1>2, <1>4, <2>1, SameKeys
<1>6. Knows(T, live', known')
  BY <1>1, <1>2 DEF Knows, Inv, WellFormed, Refers, Has
<1> QED
  BY <1>1, <1>3, <1>4, <1>5, <1>6, KeepKeeps

LEMMA CullKeeps == ASSUME Inv, NEW k \in Keys, Cull(k) PROVE Inv'
<1> DEFINE u == scene[k]
           T == IF Differs(u) THEN [tiles EXCEPT ![u].outOfDate = TRUE] ELSE tiles
<1>1. /\ UNCHANGED <<revision, known, live, dead, scene, refused, pager, loaded, todo>>
      /\ Keep(T)
  BY DEF Cull, asked, registries, pagerVars
<1>2. agent' \in [Keys -> {"none", "asks", "stuck"}]
  BY DEF Cull, Inv, WellFormed
<1>3. u \in Ids /\ tiles[u] \in TileType
  BY DEF Cull, Inv, WellFormed, Refers, Has, TileMaps
<1>4. [tiles[u] EXCEPT !.outOfDate = TRUE] \in TileType
  BY <1>3 DEF TileType
<1>5. T \in TileMaps
  BY <1>3, <1>4 DEF Inv, TileMaps
<1>6. ASSUME NEW t \in Ids, tiles[t] # None
      PROVE  T[t] # None /\ T[t].key = tiles[t].key /\ T[t].maprev = tiles[t].maprev
  BY <1>3, <1>4, <1>6 DEF Inv, TileMaps, TileType
<1> HIDE DEF T, u
<1>7. WellFormed'
  <2>1. \A l \in Keys : agent'[l] = "asks" => scene'[l] # None
    BY DEF Cull, Inv, WellFormed
  <2> QED
    BY <1>1, <1>2, <2>1 DEF Inv, WellFormed
<1>8. Refers(T, live', dead', scene', loaded', todo')
  <2>1. Refers(tiles, live', dead', scene', loaded', todo')
    BY <1>1 DEF Inv
  <2> QED
    BY <1>6, <1>7, <2>1, SameKeys
<1>9. Knows(T, live', known')
  BY <1>1, <1>6 DEF Knows, Inv, WellFormed, Refers, Has
<1> QED
  BY <1>1, <1>5, <1>7, <1>8, <1>9, KeepKeeps

LEMMA ExpireKeeps == ASSUME Inv, NEW k \in Keys, Expire(k) PROVE Inv'
<1> DEFINE call == <<"expire", {c \in Below(k) : scene[c] # None}, k>>
<1>1. /\ todo' = <<call>>
      /\ UNCHANGED <<revision, known, live, dead, tiles, scene, agent, refused, pager, loaded>>
  BY DEF Expire, asked, registries, sceneVars, pagerVars
<1>2. {c \in Below(k) : scene[c] # None} \in SUBSET Keys
  BY DEF Below
<1>3. call \in CallType /\ CallRefers(tiles, scene, call)
  <2>1. call \in CallType
    BY <1>2, ExpireIsCall
  <2>2. CallRefers(tiles, scene, call)
    BY DEF CallRefers
  <2> QED
    BY <2>1, <2>2
<1> HIDE DEF call
<1>4. todo' \in Seq(CallType) /\ \A c \in Range(todo') : CallRefers(tiles, scene, c)
  BY <1>1, <1>3 DEF Range
<1> QED
  BY <1>1, <1>4 DEF Inv, WellFormed, Refers

\* The calls that move a tile to the dead.
LEMMA MoveIsCalls ==
    ASSUME Inv, NEW t \in Ids, tiles[t] # None
    PROVE  /\ Move(t) \in Seq(CallType)
           /\ \A sc : \A call \in Range(Move(t)) : CallRefers(tiles, sc, call)
<1>1. /\ <<"remove", t>> \in CallType /\ <<"bury", t>> \in CallType
      /\ \A sc : CallRefers(tiles, sc, <<"remove", t>>) /\ CallRefers(tiles, sc, <<"bury", t>>)
  BY DEF CallType, CallRefers
<1>2. Move(t) = <<<<"remove", t>>, <<"bury", t>>>>
  BY DEF Move
<1> QED
  BY <1>1, <1>2 DEF Range

LEMMA MergeKeeps == ASSUME Inv, Merge PROVE Inv'
<1> DEFINE j == Head(loaded)
<1>1. /\ todo = <<>>
      /\ loaded # <<>>
      /\ loaded' = Tail(loaded)
      /\ UNCHANGED <<revision, known, live, dead, pager>>
      /\ Keep(tiles)
      /\ DropLoaded(j) \/ AddChild(j) \/ ApplyUpdate(j) \/ RejectUpdate(j)
  BY DEF Merge, MainIsFree, asked, registries
<1>2. /\ j \in LoadType /\ j \in Range(loaded)
      /\ loaded' \in Seq(LoadType) /\ Range(loaded') \subseteq Range(loaded)
  <2>1. loaded \in Seq(LoadType)
    BY DEF Inv, WellFormed
  <2> QED
    BY <1>1, <2>1, RangeOfTail
<1>3. /\ j.key \in Keys /\ (j.tile # None => j.tile \in Ids /\ Has(tiles, j.tile, j.key))
      /\ j.kind = "child" => j.key # Root
      /\ j.kind = "update" /\ ~j.orphan => scene[j.key] # None
  BY <1>2 DEF LoadType, Inv, Refers, WellFormed
<1> HIDE DEF j
<1>4. /\ <<>> \in Seq(CallType)
      /\ \A sc : \A call \in Range(<<>>) : CallRefers(tiles, sc, call)
  BY DEF Range
<1>5. /\ scene' = scene \/ (j.tile # None /\ scene' = [scene EXCEPT ![j.key] = j.tile])
      /\ \A k \in Keys : scene[k] # None => scene'[k] # None
      /\ todo' \in Seq(CallType)
      /\ \A call \in Range(todo') : CallRefers(tiles, scene', call)
      /\ agent' \in [Keys -> {"none", "asks", "stuck"}]
      /\ \A k \in Keys : agent'[k] = "asks" => agent[k] = "asks"
      /\ refused' \subseteq Keys \ {Root}
  <2>0. /\ scene \in [Keys -> Ids \union {None}]
        /\ agent \in [Keys -> {"none", "asks", "stuck"}]
        /\ refused \subseteq Keys \ {Root}
    BY DEF Inv, WellFormed
  <2>1. CASE DropLoaded(j)
    <3>1. UNCHANGED <<scene, agent, refused>>
      BY <2>1 DEF DropLoaded, sceneVars
    <3>2. todo' = <<>> \/ (j.tile # None /\ todo' = Move(j.tile))
      BY <2>1 DEF DropLoaded
    <3> QED
      BY <1>3, <1>4, <2>0, <3>1, <3>2, MoveIsCalls DEF Has
  <2>2. CASE AddChild(j)
    BY <1>1, <1>3, <1>4, <2>0, <2>2 DEF AddChild
  <2>3. CASE ApplyUpdate(j)
    <3>1. /\ j.tile # None
          /\ scene' = [scene EXCEPT ![j.key] = j.tile]
          /\ todo' = Move(scene[j.key]) \o <<<<"add", j.tile>>>>
          /\ agent' = [agent EXCEPT ![j.key] = "none"]
          /\ refused' = refused
      BY <2>3 DEF ApplyUpdate
    <3>2. scene[j.key] \in Ids /\ tiles[scene[j.key]] # None
      BY <1>3, <2>0, <2>3 DEF ApplyUpdate, Inv, Refers, Has
    <3>3. <<"add", j.tile>> \in CallType /\ \A sc : CallRefers(tiles, sc, <<"add", j.tile>>)
      BY <1>3, <3>1 DEF CallType, CallRefers, Has
    <3>4. <<<<"add", j.tile>>>> \in Seq(CallType) /\ Range(<<<<"add", j.tile>>>>) = {<<"add", j.tile>>}
      BY <3>3 DEF Range
    <3>5. /\ todo' \in Seq(CallType)
          /\ Range(todo') = Range(Move(scene[j.key])) \union {<<"add", j.tile>>}
      <4> DEFINE one == <<<<"add", j.tile>>>>
      <4>1. Move(scene[j.key]) \in Seq(CallType) /\ one \in Seq(CallType)
        BY <3>2, <3>4, MoveIsCalls
      <4> HIDE DEF one
      <4>2. Move(scene[j.key]) \o one \in Seq(CallType)
        BY <4>1, ConcatProperties
      <4>3. Range(Move(scene[j.key]) \o one) = Range(Move(scene[j.key])) \union Range(one)
        BY <4>1, RangeConcatenation
      <4> QED
        BY <3>1, <3>4, <4>2, <4>3 DEF one
    <3>6. \A call \in Range(todo') : CallRefers(tiles, scene', call)
      BY <3>2, <3>3, <3>5, MoveIsCalls
    <3> QED
      BY <1>3, <2>0, <3>1, <3>5, <3>6
  <2>4. CASE RejectUpdate(j)
    BY <1>1, <1>3, <1>4, <2>0, <2>4 DEF RejectUpdate
  <2> QED
    BY <1>1, <2>1, <2>2, <2>3, <2>4
<1>6. \A k \in Keys : scene'[k] = scene[k] \/ (k = j.key /\ scene'[k] = j.tile /\ j.tile # None)
  BY <1>5 DEF Inv, WellFormed
<1>7. scene' \in [Keys -> Ids \union {None}]
  BY <1>3, <1>5 DEF Inv, WellFormed
<1>8. WellFormed'
  <2>1. \A l \in Range(loaded') : /\ l.kind = "child" => l.key # Root
                                  /\ l.kind = "update" /\ ~l.orphan => scene'[l.key] # None
    <3> SUFFICES ASSUME NEW l \in Range(loaded')
                 PROVE  /\ l.kind = "child" => l.key # Root
                        /\ l.kind = "update" /\ ~l.orphan => scene'[l.key] # None
      OBVIOUS
    <3>1. l \in Range(loaded) /\ l.key \in Keys
      <4>1. l \in Range(loaded) /\ l \in LoadType
        BY <1>2, RangeOfSeq
      <4> QED
        BY <4>1 DEF LoadType
    <3> QED
      BY <1>5, <3>1 DEF Inv, WellFormed
  <2>2. \A k \in Keys : agent'[k] = "asks" => scene'[k] # None
    BY <1>5 DEF Inv, WellFormed
  <2>3. pager # Idle /\ pager.kind = "update" /\ ~pager.orphan => scene'[pager.key] # None
    <3>1. pager # Idle => pager.key \in Keys
      BY DEF Inv, WellFormed, BuildType
    <3> QED
      BY <1>5, <3>1 DEF Inv, WellFormed
  <2> QED
    BY <1>1, <1>2, <1>5, <1>7, <2>1, <2>2, <2>3 DEF Inv, WellFormed
<1>9. Refers(tiles, live', dead', scene', loaded', todo')
  BY <1>1, <1>2, <1>3, <1>5, <1>6 DEF Inv, Refers
<1> QED
  BY <1>1, <1>8, <1>9, KeepKeeps DEF Inv

-----------------------------------------------------------------------------
(* The pager                                                               *)

LEMMA BeginKeeps ==
    ASSUME Inv, NEW k \in Keys, NEW kind \in Kinds, Begin(k, kind) PROVE Inv'
<1>1. /\ UNCHANGED <<revision, known, live, dead, tiles, scene, agent, refused, loaded, todo>>
      /\ pager' = [at |-> "lookup", key |-> k, kind |-> kind, rev |-> revision,
                   blind |-> FALSE, orphan |-> FALSE]
      /\ Asked(k, kind)
  BY DEF Begin, asked, registries, sceneVars
<1>2. pager' \in BuildType
  BY <1>1 DEF BuildType, Inv, WellFormed
<1>3. pager'.kind = "child" => pager'.key # Root
  BY <1>1 DEF Asked
<1>4. pager'.kind = "update" => scene[pager'.key] # None
  BY <1>1 DEF Asked, Inv, WellFormed
<1> QED
  BY <1>1, <1>2, <1>3, <1>4 DEF Inv, WellFormed

LEMMA LookUpParentKeeps == ASSUME Inv, LookUpParent PROVE Inv'
<1>1. pager \in BuildType
  BY DEF LookUpParent, Inv, WellFormed
<1>2. PICK b \in BOOLEAN : pager' = [pager EXCEPT !.at = "make", !.blind = b]
  <2>1. PICK cached \in BOOLEAN :
           pager' = [pager EXCEPT !.at = "make",
                                  !.blind = pager.key # Root /\ ~cached
                                    /\ (\/ live[Parent[pager.key]] = None
                                        \/ tiles[live[Parent[pager.key]]].blind)]
    BY DEF LookUpParent
  <2>2. tiles[live[Parent[pager.key]]].blind \in BOOLEAN
          \/ ~(pager.key # Root /\ live[Parent[pager.key]] # None)
    BY <1>1 DEF BuildType, Inv, WellFormed, Refers, Has, TileMaps, TileType
  <2> QED
    BY <2>1, <2>2
<1>3. /\ pager' \in BuildType /\ pager'.kind = pager.kind
      /\ pager'.key = pager.key /\ pager'.orphan = pager.orphan
  BY <1>1, <1>2 DEF BuildType
<1>4. UNCHANGED <<revision, known, live, dead, tiles, scene, agent, refused, loaded, todo>>
  BY DEF LookUpParent, asked, registries, sceneVars
<1>5. pager # Idle
  BY DEF LookUpParent
<1> QED
  BY <1>3, <1>4, <1>5 DEF Inv, WellFormed

\* What was built is put at the end of what was loaded.
LEMMA LoadedKeeps ==
    ASSUME Inv, pager # Idle, NEW t \in Ids \union {None}, Loaded(t)
    PROVE  LET j == [key |-> pager.key, kind |-> pager.kind, orphan |-> pager.orphan,
                     tile |-> t]
           IN  /\ pager' = Idle
               /\ j \in LoadType
               /\ loaded' \in Seq(LoadType)
               /\ Range(loaded') \subseteq Range(loaded) \union {j}
               /\ pager \in BuildType
               /\ \A l \in Range(loaded') :
                     /\ l.kind = "child" => l.key # Root
                     /\ l.kind = "update" /\ ~l.orphan => scene[l.key] # None
<1> DEFINE j == [key |-> pager.key, kind |-> pager.kind, orphan |-> pager.orphan, tile |-> t]
<1>1. pager \in BuildType /\ loaded \in Seq(LoadType)
  BY DEF Inv, WellFormed
<1>2. j \in LoadType
  BY <1>1 DEF BuildType, LoadType
<1>3. /\ j.kind = "child" => j.key # Root
      /\ j.kind = "update" /\ ~j.orphan => scene[j.key] # None
  BY DEF Inv, WellFormed
<1>4. pager' = Idle /\ loaded' = Append(loaded, j)
  BY DEF Loaded
<1> HIDE DEF j
<1>5. loaded' \in Seq(LoadType) /\ Range(loaded') \subseteq Range(loaded) \union {j}
  BY <1>1, <1>2, <1>4, RangeOfAppend
<1>6. \A l \in Range(loaded') : /\ l.kind = "child" => l.key # Root
                                /\ l.kind = "update" /\ ~l.orphan => scene[l.key] # None
  BY <1>3, <1>5 DEF Inv, WellFormed
<1> QED
  BY <1>1, <1>2, <1>4, <1>5, <1>6 DEF j

LEMMA MakeKeeps == ASSUME Inv, Make PROVE Inv'
<1> DEFINE k == pager.key
           paged == pager.kind = "child" /\ k \notin Leaves
<1>1. PICK t \in Unused :
        /\ Loaded(t)
        /\ live' = IF paged THEN [live EXCEPT ![k] = t] ELSE live
        /\ UNCHANGED <<asked, known, dead, sceneVars, todo>>
        /\ Keep([tiles EXCEPT ![t] =
                   Tile(k, pager.rev, IF paged THEN known ELSE pager.rev, pager.blind)])
  BY DEF Make
<1> DEFINE new == Tile(k, pager.rev, IF paged THEN known ELSE pager.rev, pager.blind)
           T == [tiles EXCEPT ![t] = new]
           j == [key |-> k, kind |-> pager.kind, orphan |-> pager.orphan, tile |-> t]
<1>2. t \in Ids /\ tiles[t] = None /\ pager # Idle
  BY DEF Unused, Make
<1>3. /\ pager' = Idle
      /\ loaded' \in Seq(LoadType)
      /\ Range(loaded') \subseteq Range(loaded) \union {j}
      /\ pager \in BuildType
      /\ \A l \in Range(loaded') :
            /\ l.kind = "child" => l.key # Root
            /\ l.kind = "update" /\ ~l.orphan => scene[l.key] # None
  BY <1>1, <1>2, LoadedKeeps
<1>4. /\ k \in Keys
      /\ new \in TileType /\ new # None /\ new.key = k
      /\ paged => new.maprev = known
  BY <1>3, TileIsTile DEF BuildType, Inv, WellFormed
<1> HIDE DEF new
<1>5. T \in TileMaps /\ T[t] = new /\ \A u \in Ids : u # t => T[u] = tiles[u]
  BY <1>2, <1>4 DEF Inv, TileMaps
<1>6. j.tile = t /\ j.key = k
  OBVIOUS
<1>7. Keep(T) /\ UNCHANGED <<revision, known, dead, scene, agent, refused, todo>>
  BY <1>1 DEF new, asked, sceneVars
<1> HIDE DEF T, j
<1>8. live' \in [Keys -> Ids \union {None}]
      /\ \A l \in Keys : live'[l] = live[l] \/ (l = k /\ paged /\ live'[l] = t)
  BY <1>1, <1>2, <1>4 DEF Inv, WellFormed
<1>9. WellFormed'
  BY <1>3, <1>7, <1>8 DEF Inv, WellFormed
<1>10. \A u \in Ids : tiles[u] # None => T[u] = tiles[u]
  BY <1>2, <1>5
<1>11. Has(T, t, k)
  BY <1>4, <1>5 DEF Has
<1>12. Refers(T, live', dead', scene', loaded', todo')
  <2>1. ASSUME NEW l \in Keys, live'[l] # None PROVE Has(T, live'[l], l)
    BY <1>8, <1>10, <1>11, <2>1 DEF Inv, WellFormed, Refers, Has
  <2>2. ASSUME NEW l \in Keys PROVE /\ dead'[l] # None => Has(T, dead'[l], l)
                                    /\ scene'[l] # None => Has(T, scene'[l], l)
    BY <1>7, <1>10 DEF Inv, WellFormed, Refers, Has
  <2>3. ASSUME NEW i \in Range(loaded'), i.tile # None PROVE Has(T, i.tile, i.key)
    <3>1. CASE i = j
      BY <1>6, <1>11, <3>1
    <3>2. CASE i \in Range(loaded)
      <4>1. loaded \in Seq(LoadType)
        BY DEF Inv, WellFormed
      <4>2. i \in LoadType
        BY <3>2, <4>1, RangeOfSeq
      <4> QED
        BY <1>10, <2>3, <3>2, <4>2 DEF Inv, Refers, Has, LoadType
    <3> QED
      BY <1>3, <3>1, <3>2
  <2>4. ASSUME NEW call \in Range(todo') PROVE CallRefers(T, scene', call)
    <3>1. todo \in Seq(CallType) /\ call \in Range(todo)
      BY <1>7 DEF Inv, WellFormed
    <3>2. call \in CallType
      BY <3>1, RangeOfSeq
    <3>3. CallRefers(tiles, scene, call)
      BY <3>1 DEF Inv, Refers
    <3> QED
      BY <1>7, <1>10, <3>2, <3>3 DEF CallRefers, CallType
  <2> QED
    BY <2>1, <2>2, <2>3, <2>4 DEF Refers
<1>13. Knows(T, live', known')
  BY <1>4, <1>5, <1>7, <1>8, <1>10 DEF Inv, WellFormed, Refers, Has, Knows
<1> QED
  BY <1>5, <1>7, <1>9, <1>12, <1>13, KeepKeeps

LEMMA MakeNothingKeeps == ASSUME Inv, MakeNothing PROVE Inv'
<1> DEFINE j == [key |-> pager.key, kind |-> pager.kind, orphan |-> pager.orphan,
                 tile |-> None]
<1>1. /\ pager # Idle /\ Loaded(None)
      /\ UNCHANGED <<revision, known, live, dead, tiles, scene, agent, refused, todo>>
  BY DEF MakeNothing, asked, registries, sceneVars
<1>2. /\ pager' = Idle
      /\ loaded' \in Seq(LoadType)
      /\ Range(loaded') \subseteq Range(loaded) \union {j}
      /\ \A l \in Range(loaded') :
            /\ l.kind = "child" => l.key # Root
            /\ l.kind = "update" /\ ~l.orphan => scene[l.key] # None
  BY <1>1, LoadedKeeps
<1>3. j.tile = None
  OBVIOUS
<1> HIDE DEF j
<1>4. \A l \in Range(loaded') : l.tile # None => Has(tiles, l.tile, l.key)
  BY <1>2, <1>3 DEF Inv, Refers
<1> QED
  BY <1>1, <1>2, <1>4 DEF Inv, WellFormed, Refers

LEMMA CancelKeeps == ASSUME Inv, Cancel PROVE Inv'
<1>1. /\ UNCHANGED <<revision, known, live, dead, tiles, scene, agent, refused, loaded, todo>>
      /\ pager' = Idle
  BY DEF Cancel, asked, registries, sceneVars
<1> QED
  BY <1>1 DEF Inv, WellFormed

-----------------------------------------------------------------------------
(* The theorems                                                            *)

LEMMA InitIsInv == Init => Inv
<1> SUFFICES ASSUME Init PROVE Inv
  OBVIOUS
<1>1. PICK t \in Ids :
        /\ tiles = [i \in Ids |-> IF i = t THEN Tile(Root, 0, 0, FALSE) ELSE None]
        /\ live = [k \in Keys |-> IF k = Root THEN t ELSE None]
        /\ scene = [k \in Keys |-> IF k = Root THEN t ELSE None]
  BY DEF Init
<1>2. /\ Tile(Root, 0, 0, FALSE) \in TileType /\ Tile(Root, 0, 0, FALSE) # None
      /\ Tile(Root, 0, 0, FALSE).key = Root /\ Tile(Root, 0, 0, FALSE).maprev = 0
  <2>1. Root \in Keys /\ 0 \in Nat /\ FALSE \in BOOLEAN
    OBVIOUS
  <2> QED
    BY <2>1, TileIsTile, Zenon
<1>3. tiles \in TileMaps /\ tiles[t] = Tile(Root, 0, 0, FALSE)
  BY <1>1, <1>2 DEF TileMaps
<1>4. /\ revision = 0 /\ known = 0 /\ pager = Idle /\ loaded = <<>> /\ todo = <<>>
      /\ dead = [k \in Keys |-> None]
      /\ agent = [k \in Keys |-> "none"]
      /\ refused = {}
  BY DEF Init
<1>5. /\ loaded \in Seq(LoadType) /\ Range(loaded) = {}
      /\ todo \in Seq(CallType) /\ Range(todo) = {}
  BY <1>4 DEF Range
<1>6. WellFormed
  BY <1>1, <1>4, <1>5 DEF WellFormed
<1>7. Refers(tiles, live, dead, scene, loaded, todo)
  BY <1>1, <1>2, <1>3, <1>4, <1>5 DEF Refers, Has
<1>8. Knows(tiles, live, known)
  BY <1>1, <1>2, <1>3, <1>4 DEF Knows
<1> QED
  BY <1>3, <1>6, <1>7, <1>8 DEF Inv

LEMMA NextKeepsInv == Inv /\ [Next]_vars => Inv'
<1> SUFFICES ASSUME Inv, [Next]_vars PROVE Inv'
  OBVIOUS
<1>1. CASE ChangeMap
  BY <1>1, ChangeMapKeeps
<1>2. ASSUME NEW region \in SUBSET Keys, Invalidate(region) PROVE Inv'
  BY <1>2, InvalidateKeeps
<1>3. ASSUME NEW k \in Keys, Cull(k) \/ Expire(k) \/ \E kind \in Kinds : Begin(k, kind)
      PROVE  Inv'
  BY <1>3, CullKeeps, ExpireKeeps, BeginKeeps
<1>4. CASE Merge
  BY <1>4, MergeKeeps
<1>5. CASE MainCall
  BY <1>5, SetMapRevisionKeeps, RemoveKeeps, BuryKeeps, AddKeeps, CollectKeeps, CutKeeps
  DEF MainCall
<1>6. CASE Build
  BY <1>6, LookUpParentKeeps, MakeKeeps, MakeNothingKeeps DEF Build
<1>7. CASE Cancel
  BY <1>7, CancelKeeps
<1>8. CASE Release
  BY <1>8, ReleaseKeeps
<1>9. CASE UNCHANGED vars
  BY <1>9 DEF vars, asked, registries, sceneVars, pagerVars, Inv, WellFormed
<1> QED
  BY <1>1, <1>2, <1>3, <1>4, <1>5, <1>6, <1>7, <1>8, <1>9 DEF Next

LEMMA AlwaysInv == Spec => []Inv
<1> QED
  BY InitIsInv, NextKeepsInv, PTL DEF Spec

\* Whatever the registries and the scene refer to is a tile of that key: no
\* tile is let go that a registry or the scene still holds.
THEOREM TypeOKHolds == Spec => []TypeOK
<1>1. Inv => TypeOK
  BY InvImplies
<1> QED
  BY <1>1, AlwaysInv, PTL

\* Every live tile knows the revision that the registry knows.
THEOREM LiveTilesKnowRevisionHolds == Spec => []LiveTilesKnowRevision
<1>1. Inv => LiveTilesKnowRevision
  BY InvImplies
<1> QED
  BY <1>1, AlwaysInv, PTL

-----------------------------------------------------------------------------
(* The scene, the registries and the loads                                 *)

\* What is being loaded, in the order it will be merged: what waits for that
\* and, last, what the pager is at.
Claim(j) == [key |-> j.key, kind |-> j.kind, orphan |-> j.orphan]

Line ==
    [i \in 1 .. Len(loaded) + (IF pager = Idle THEN 0 ELSE 1)
        |-> Claim(IF i <= Len(loaded) THEN loaded[i] ELSE pager)]

ChildAt(i, k) == Line[i].kind = "child" /\ Line[i].key = k

Awaited(k) == \E i \in DOMAIN Line : ChildAt(i, k)

\* A child is loaded once at a time, and only while it is not in the scene;
\* one that expired meanwhile is merged, that is dropped, before its parent is
\* merged again.
ChildrenInLine ==
    \A i \in DOMAIN Line : Line[i].kind = "child" =>
        /\ scene[Line[i].key] = None
        /\ \A j \in DOMAIN Line : ChildAt(j, Line[i].key) => i = j
        /\ Line[i].orphan =>
              /\ scene[Parent[Line[i].key]] = None
              /\ \A j \in DOMAIN Line :
                    ChildAt(j, Parent[Line[i].key]) /\ ~Line[j].orphan => i < j

Paged(j) == j.kind = "child" /\ j.key \notin Leaves

\* A tile that waits to be merged is nowhere else, but for the live registry,
\* which it is in from the start when it has a TilePagedLOD.
LoadedTiles ==
    \A i \in DOMAIN loaded : loaded[i].tile # None =>
        /\ loaded[i].tile # scene[loaded[i].key]
        /\ loaded[i].tile # dead[loaded[i].key]
        /\ \A j \in DOMAIN loaded : loaded[j].tile = loaded[i].tile => i = j
        /\ Paged(loaded[i]) => live[loaded[i].key] = loaded[i].tile

DeadIsNotLive == \A k \in Keys : dead[k] # None => dead[k] # live[k]

Steady(k) == k \notin Leaves /\ scene[k] # None => live[k] = scene[k]
Buried(k) == dead[k] # None => dead[k] # scene[k]

\* Tile t of key k is on its way to the dead, and no other of that key comes.
Leaving(t, k) ==
    /\ Has(tiles, t, k)
    /\ \A i \in DOMAIN loaded : loaded[i].tile # t
    /\ ~Awaited(k)

\* Where the main thread is with the calls it makes on the registries, and
\* which keys are in order meanwhile.
Resting ==
    /\ \/ todo = <<>>
       \/ \E n \in Nat : todo = <<<<"setMapRevision", None, n>>>>
    /\ \A l \in Keys : Steady(l) /\ Buried(l)

Dropping(t, k) ==
    /\ \A l \in Keys : Steady(l) /\ Buried(l)
    /\ k # Root
    /\ scene[k] = None
    /\ scene[Parent[k]] = None
    /\ Leaving(t, k)
    /\ \/ todo = <<<<"remove", t>>, <<"bury", t>>>>
       \/ todo = <<<<"bury", t>>>> /\ live[k] = None

Replacing(t, u, k) ==
    /\ \A l \in Keys : Buried(l) /\ (l # k => Steady(l))
    /\ scene[k] = u
    /\ u # t
    /\ \/ todo = <<<<"remove", t>>, <<"bury", t>>, <<"add", u>>>> /\ Leaving(t, k)
       \/ todo = <<<<"bury", t>>, <<"add", u>>>> /\ Leaving(t, k) /\ live[k] = None
       \/ todo = <<<<"add", u>>>>

Moving(t, k, rest) ==
    /\ scene[k] = t
    /\ Leaving(t, k)
    /\ \/ todo = <<<<"remove", t>>, <<"bury", t>>, rest>>
       \/ todo = <<<<"bury", t>>, rest>> /\ live[k] = None

Expiring(top, S) ==
    /\ \A l \in Keys \ Below(top) : Steady(l) /\ Buried(l)
    /\ top # Root
    /\ scene[top] # None
    /\ S \subseteq Below(top)
    /\ \A k \in S : scene[k] # None
    /\ \/ todo = <<<<"expire", S, top>>>>
       \/ \E t \in Ids, k \in Below(top) : Moving(t, k, <<"expire", S, top>>)

Plan ==
    \/ Resting
    \/ \E t \in Ids, k \in Keys : Dropping(t, k)
    \/ \E t, u \in Ids, k \in Keys : Replacing(t, u, k)
    \/ \E top \in Keys, S \in SUBSET Keys : Expiring(top, S)

SceneInv == ChildrenInLine /\ LoadedTiles /\ DeadIsNotLive /\ Plan

LEMMA AtRest ==
    ASSUME Plan, todo = <<>> PROVE \A l \in Keys : Steady(l) /\ Buried(l)
<1>1. ASSUME NEW t, NEW k, Dropping(t, k) PROVE FALSE
  BY <1>1 DEF Dropping
<1>2. ASSUME NEW t, NEW u, NEW k, Replacing(t, u, k) PROVE FALSE
  BY <1>2 DEF Replacing
<1>3. ASSUME NEW top, NEW S, Expiring(top, S) PROVE FALSE
  BY <1>3 DEF Expiring, Moving
<1> QED
  BY <1>1, <1>2, <1>3 DEF Plan, Resting

LEMMA SceneInvImplies == SceneInv => SceneIsLive /\ DeadIsOut
BY AtRest DEF SceneIsLive, DeadIsOut, MainIsFree, Steady, Buried, DeadIsNotLive, SceneInv

LEMMA Lists ==
  ASSUME NEW a, NEW b, NEW c
  PROVE /\ Head(<<a>>) = a /\ Tail(<<a>>) = <<>>
        /\ Head(<<a, b>>) = a /\ Tail(<<a, b>>) = <<b>>
        /\ Head(<<a, b, c>>) = a /\ Tail(<<a, b, c>>) = <<b, c>>
OBVIOUS

LEMMA MoveThen ==
    ASSUME NEW t \in Ids, NEW call \in CallType
    PROVE  Move(t) \o <<call>> = <<<<"remove", t>>, <<"bury", t>>, call>>
<1> DEFINE a == <<"remove", t>>
           b == <<"bury", t>>
<1>1. a \in CallType /\ b \in CallType
  BY DEF CallType
<1>2. Move(t) = <<a, b>>
  BY DEF Move
<1> HIDE DEF a, b
<1>3. <<a, b>> \in Seq(CallType) /\ <<call>> \in Seq(CallType) /\ <<a, b, call>> \in Seq(CallType)
  BY <1>1
<1>4. /\ Len(<<a, b>> \o <<call>>) = 3
      /\ <<a, b>> \o <<call>> \in Seq(CallType)
      /\ \A i \in 1 .. 3 : (<<a, b>> \o <<call>>)[i] = <<a, b, call>>[i]
  BY <1>3, ConcatProperties
<1>5. <<a, b>> \o <<call>> = <<a, b, call>>
  BY <1>3, <1>4, SeqEqual
<1> QED
  BY <1>2, <1>5 DEF a, b

LEMMA LineIs ==
    ASSUME Inv
    PROVE  /\ Len(loaded) \in Nat
           /\ DOMAIN loaded = 1 .. Len(loaded)
           /\ pager # Idle => pager \in BuildType
           /\ DOMAIN Line = 1 .. Len(loaded) + (IF pager = Idle THEN 0 ELSE 1)
           /\ \A i \in DOMAIN loaded :
                 i \in DOMAIN Line /\ loaded[i] \in LoadType /\ Line[i] = Claim(loaded[i])
           /\ pager # Idle =>
                 Len(loaded) + 1 \in DOMAIN Line /\ Line[Len(loaded) + 1] = Claim(pager)
           /\ \A i \in DOMAIN Line :
                 /\ i \in Nat
                 /\ i \in DOMAIN loaded \/ (pager # Idle /\ i = Len(loaded) + 1)
                 /\ Line[i].key \in Keys
                 /\ Line[i].orphan \in BOOLEAN
                 /\ Line[i].kind = "child" => Line[i].key # Root
<1>1. /\ loaded \in Seq(LoadType)
      /\ Len(loaded) \in Nat
      /\ DOMAIN loaded = 1 .. Len(loaded)
      /\ pager # Idle => pager \in BuildType
  BY DEF Inv, WellFormed
<1>2. /\ DOMAIN Line = 1 .. Len(loaded) + (IF pager = Idle THEN 0 ELSE 1)
      /\ \A i \in DOMAIN Line : Line[i] = Claim(IF i <= Len(loaded) THEN loaded[i] ELSE pager)
  BY DEF Line
<1>3. \A i \in DOMAIN loaded : loaded[i] \in LoadType /\ loaded[i] \in Range(loaded)
  BY <1>1 DEF Range
<1>4. \A i \in DOMAIN loaded : i \in DOMAIN Line /\ Line[i] = Claim(loaded[i])
  BY <1>1, <1>2
<1>5. pager # Idle =>
         Len(loaded) + 1 \in DOMAIN Line /\ Line[Len(loaded) + 1] = Claim(pager)
  BY <1>1, <1>2
<1>6. \A i \in DOMAIN Line :
         i \in Nat /\ (i \in DOMAIN loaded \/ (pager # Idle /\ i = Len(loaded) + 1))
  BY <1>1, <1>2
<1>7. ASSUME NEW i \in DOMAIN Line
      PROVE  /\ Line[i].key \in Keys
             /\ Line[i].orphan \in BOOLEAN
             /\ Line[i].kind = "child" => Line[i].key # Root
  <2>1. CASE i \in DOMAIN loaded
    <3>1. Line[i] = Claim(loaded[i]) /\ loaded[i] \in LoadType
      BY <1>3, <1>4, <2>1
    <3>2. loaded[i].kind = "child" => loaded[i].key # Root
      BY <1>3, <2>1 DEF Inv, WellFormed
    <3> QED
      BY <3>1, <3>2 DEF Claim, LoadType
  <2>2. CASE pager # Idle /\ i = Len(loaded) + 1
    <3>1. Line[i] = Claim(pager) /\ pager \in BuildType
      BY <1>1, <1>5, <2>2
    <3>2. pager.kind = "child" => pager.key # Root
      BY <2>2 DEF Inv, WellFormed
    <3> QED
      BY <3>1, <3>2 DEF Claim, BuildType
  <2> QED
    BY <1>6, <2>1, <2>2
<1> QED
  BY <1>1, <1>2, <1>3, <1>4, <1>5, <1>6, <1>7

\* The line moves up, and what is in it now was in it before.
LEMMA LineMovesUp ==
    ASSUME Inv, ChildrenInLine, NEW d \in Nat,
           \A i \in DOMAIN Line' : /\ i \in Nat
                                   /\ i + d \in DOMAIN Line
                                   /\ Line'[i] = Line[i + d],
           \A i \in DOMAIN Line' : Line'[i].kind = "child" =>
               /\ scene'[Line'[i].key] = None
               /\ Line'[i].orphan => scene'[Parent[Line'[i].key]] = None
    PROVE  ChildrenInLine'
<1> SUFFICES ASSUME NEW i \in DOMAIN Line', Line'[i].kind = "child"
             PROVE  /\ scene'[Line'[i].key] = None
                    /\ \A j \in DOMAIN Line' :
                          Line'[j].kind = "child" /\ Line'[j].key = Line'[i].key => i = j
                    /\ Line'[i].orphan =>
                          /\ scene'[Parent[Line'[i].key]] = None
                          /\ \A j \in DOMAIN Line' :
                                Line'[j].kind = "child" /\ Line'[j].key = Parent[Line'[i].key]
                                    /\ ~Line'[j].orphan => i < j
  BY DEF ChildrenInLine, ChildAt
<1>1. ASSUME NEW j \in DOMAIN Line', Line'[j].kind = "child", Line'[j].key = Line'[i].key
      PROVE  i = j
  <2>1. i + d = j + d
    BY <1>1 DEF ChildrenInLine, ChildAt
  <2> QED
    BY <2>1
<1>2. ASSUME Line'[i].orphan,
             NEW j \in DOMAIN Line', Line'[j].kind = "child",
             Line'[j].key = Parent[Line'[i].key], ~Line'[j].orphan
      PROVE  i < j
  <2>1. i + d < j + d
    BY <1>2 DEF ChildrenInLine, ChildAt
  <2> QED
    BY <2>1
<1> QED
  BY <1>1, <1>2

LEMMA LineStays ==
    ASSUME Inv, ChildrenInLine, Line' = Line, scene' = scene
    PROVE  ChildrenInLine'
BY DEF ChildrenInLine, ChildAt

\* A tile keeps its key as long as it is there.
LEMMA KeepKeys ==
    ASSUME NEW T, Keep(T), \A t \in Ids : tiles[t] # None => T[t].key = tiles[t].key,
           NEW t \in Ids, tiles[t] # None, tiles'[t] # None
    PROVE  tiles'[t].key = tiles[t].key
<1>1. tiles'[t] \in {T[t], Spent(T[t].key), None}
  BY DEF Keep
<1> QED
  BY <1>1 DEF Spent, Tile

KeysStay == \A t \in Ids : tiles[t] # None /\ tiles'[t] # None => tiles'[t].key = tiles[t].key

LEMMA SameTilesKeysStay ==
    ASSUME UNCHANGED tiles \/ Keep(tiles) PROVE KeysStay
BY KeepKeys DEF KeysStay

LEMMA SetMapRevisionKeysStay == ASSUME Inv, SetMapRevision PROVE KeysStay
<1> DEFINE T == [t \in Ids |-> IF \E k \in Keys : live[k] = t
                               THEN [tiles[t] EXCEPT !.maprev = known'] ELSE tiles[t]]
<1>1. Keep(T)
  BY DEF SetMapRevision
<1>2. \A t \in Ids : tiles[t] # None => T[t].key = tiles[t].key
  BY DEF Inv, TileMaps, TileType
<1> QED
  BY <1>1, <1>2, KeepKeys DEF KeysStay

LEMMA InvalidateKeysStay ==
    ASSUME Inv, NEW region \in SUBSET Keys, Invalidate(region) PROVE KeysStay
<1> DEFINE T == [t \in Ids |-> IF \E k \in region : live[k] = t
                               THEN [tiles[t] EXCEPT !.dirty = TRUE] ELSE tiles[t]]
<1>1. Keep(T)
  BY DEF Invalidate
<1>2. \A t \in Ids : tiles[t] # None => T[t].key = tiles[t].key
  BY DEF Inv, TileMaps, TileType
<1> QED
  BY <1>1, <1>2, KeepKeys DEF KeysStay

LEMMA CullKeysStay == ASSUME Inv, NEW k \in Keys, Cull(k) PROVE KeysStay
<1> DEFINE T == IF Differs(scene[k]) THEN [tiles EXCEPT ![scene[k]].outOfDate = TRUE] ELSE tiles
<1>1. Keep(T)
  BY DEF Cull
<1>2. \A t \in Ids : tiles[t] # None => T[t].key = tiles[t].key
  BY DEF Inv, TileMaps, TileType
<1> QED
  BY <1>1, <1>2, KeepKeys DEF KeysStay

LEMMA AddKeysStay == ASSUME Inv, Add PROVE KeysStay
<1> DEFINE T == [tiles EXCEPT ![Head(todo)[2]].maprev = known]
<1>1. Keep(T)
  BY DEF Add
<1>2. \A t \in Ids : tiles[t] # None => T[t].key = tiles[t].key
  BY DEF Inv, TileMaps, TileType
<1> QED
  BY <1>1, <1>2, KeepKeys DEF KeysStay

LEMMA MakeKeysStay == ASSUME Inv, Make PROVE KeysStay
<1>1. PICK t \in Unused : \E new : Keep([tiles EXCEPT ![t] = new])
  BY DEF Make
<1>2. PICK new : Keep([tiles EXCEPT ![t] = new])
  BY <1>1
<1> DEFINE T == [tiles EXCEPT ![t] = new]
<1>3. \A u \in Ids : tiles[u] # None => T[u].key = tiles[u].key
  BY DEF Inv, TileMaps, Unused
<1> QED
  BY <1>2, <1>3, KeepKeys DEF KeysStay

LEMMA BelowIsClosed ==
    ASSUME NEW top \in Keys
    PROVE  /\ Below(top) \subseteq Keys
           /\ top \in Below(top)
           /\ \A c \in Below(top) : c # top /\ c # Root => Parent[c] \in Below(top)
<1>1. Below(top) \subseteq Keys /\ top \in Below(top)
  BY DEF Below
<1>2. ASSUME NEW c \in Below(top), c # top, c # Root, Parent[c] \notin Below(top)
      PROVE  FALSE
  <2>1. c \in Keys /\ Parent[c] \in Keys
    BY <1>1, <1>2
  <2>2. PICK S \in SUBSET Keys :
           /\ top \in S
           /\ \A d \in Keys \ {Root} : Parent[d] \in S => d \in S
           /\ Parent[c] \notin S
    BY <1>2, <2>1 DEF Below
  <2>3. top \in S \ {c} /\ \A d \in Keys \ {Root} : Parent[d] \in S \ {c} => d \in S \ {c}
    BY <1>2, <2>2
  <2>4. S \ {c} \in SUBSET Keys
    OBVIOUS
  <2>5. \A d \in Keys \ {Root} : Parent[d] \in (S \ {c}) => d \in (S \ {c})
    BY <2>3
  <2>6. c \in S \ {c}
    BY <1>2, <2>3, <2>4, <2>5 DEF Below
  <2> QED
    BY <2>6
<1> QED
  BY <1>1, <1>2

-----------------------------------------------------------------------------
(* What the other threads do meanwhile                                     *)

Burying(td, t) == <<"bury", t>> \in Range(td)

LEMMA BuryLists ==
    ASSUME NEW t, NEW a, NEW b
    PROVE  /\ Burying(<<a, <<"bury", t>>, b>>, t)
           /\ Burying(<<a, <<"bury", t>>>>, t)
           /\ Burying(<<<<"bury", t>>, b>>, t)
           /\ Burying(<<<<"bury", t>>>>, t)
<1> DEFINE c == <<"bury", t>>
<1> HIDE DEF c
<1>1. c \in Range(<<a, c, b>>) /\ c \in Range(<<a, c>>) /\ c \in Range(<<c, b>>) /\ c \in Range(<<c>>)
  <2>1. <<a, c, b>>[2] = c /\ 2 \in DOMAIN <<a, c, b>>
    OBVIOUS
  <2>2. <<a, c>>[2] = c /\ 2 \in DOMAIN <<a, c>>
    OBVIOUS
  <2>3. <<c, b>>[1] = c /\ 1 \in DOMAIN <<c, b>>
    OBVIOUS
  <2>4. <<c>>[1] = c /\ 1 \in DOMAIN <<c>>
    OBVIOUS
  <2> QED
    BY <2>1, <2>2, <2>3, <2>4 DEF Range
<1> QED
  BY <1>1 DEF c, Burying

\* What will be buried is there, and stays what it is until then.
LEMMA LeavingStays ==
    ASSUME Inv, Inv', KeysStay, NEW t \in Ids, NEW k \in Keys,
           Leaving(t, k), Burying(todo', t), ~Awaited(k)',
           \A i \in DOMAIN loaded' : \/ loaded'[i].tile \notin Ids
                                     \/ loaded'[i].tile \in Unused
                                     \/ \E j \in DOMAIN loaded :
                                          loaded[j].tile = loaded'[i].tile
    PROVE  Leaving(t, k)'
<1>1. tiles'[t] # None
  <2>1. CallRefers(tiles', scene', <<"bury", t>>)
    BY DEF Inv, Refers, Burying
  <2> QED
    BY <2>1 DEF CallRefers
<1>2. tiles[t] # None /\ tiles[t].key = k
  BY DEF Leaving, Has
<1>3. Has(tiles', t, k)
  BY <1>1, <1>2 DEF KeysStay, Has
<1>4. t \notin Unused
  BY <1>2 DEF Unused
<1>5. \A i \in DOMAIN loaded' : loaded'[i].tile # t
  BY <1>4 DEF Leaving
<1> QED
  BY <1>3, <1>5 DEF Leaving

LEMMA MovingBuries ==
    ASSUME NEW t \in Ids, NEW k \in Keys, NEW rest, Moving(t, k, rest)
    PROVE  Burying(todo, t)
<1>1. CASE todo = <<<<"remove", t>>, <<"bury", t>>, rest>>
  BY <1>1, BuryLists
<1>2. CASE todo = <<<<"bury", t>>, rest>>
  BY <1>2, BuryLists
<1> QED
  BY <1>1, <1>2 DEF Moving

\* The pager and the draw thread get in the way of no move: a key that is
\* awaited is not in the scene, and one that is newly asked for has its parent
\* there.
LEMMA PlanStays ==
    ASSUME Inv, Inv', KeysStay, Plan, todo' = todo, scene' = scene,
           \A i \in DOMAIN loaded' : \/ loaded'[i].tile \notin Ids
                                     \/ loaded'[i].tile \in Unused
                                     \/ \E j \in DOMAIN loaded :
                                          loaded[j].tile = loaded'[i].tile,
           \A k \in Keys : Awaited(k)' =>
               \/ Awaited(k)
               \/ scene[k] = None /\ (k # Root => scene[Parent[k]] # None),
           \A k \in Keys : live'[k] = live[k] \/ (scene[k] = None /\ Awaited(k)),
           \A k \in Keys : dead'[k] \in {dead[k], None}
    PROVE  Plan'
<1>1. \A k \in Keys : (Steady(k) => Steady(k)') /\ (Buried(k) => Buried(k)')
  BY DEF Steady, Buried
<1>2. ASSUME NEW t \in Ids, NEW k \in Keys, Leaving(t, k), Burying(todo, t),
             scene[k] # None \/ (k # Root /\ scene[Parent[k]] = None)
      PROVE  Leaving(t, k)' /\ live'[k] = live[k]
  <2>1. ~Awaited(k) /\ ~Awaited(k)'
    BY <1>2 DEF Leaving
  <2> QED
    BY <1>2, <2>1, LeavingStays
<1>3. CASE Resting
  BY <1>1, <1>3 DEF Resting, Plan
<1>4. ASSUME NEW t \in Ids, NEW k \in Keys, Dropping(t, k) PROVE Plan'
  <2>1. Burying(todo, t)
    <3>1. CASE todo = <<<<"remove", t>>, <<"bury", t>>>>
      BY <3>1, BuryLists
    <3>2. CASE todo = <<<<"bury", t>>>>
      BY <3>2, BuryLists
    <3> QED
      BY <1>4, <3>1, <3>2 DEF Dropping
  <2>2. Leaving(t, k)' /\ live'[k] = live[k]
    BY <1>2, <1>4, <2>1 DEF Dropping
  <2>3. Dropping(t, k)'
    BY <1>1, <1>4, <2>2 DEF Dropping
  <2> QED
    BY <2>3 DEF Plan
<1>5. ASSUME NEW t \in Ids, NEW u \in Ids, NEW k \in Keys, Replacing(t, u, k) PROVE Plan'
  <2>1. /\ \A l \in Keys : Buried(l)' /\ (l # k => Steady(l)')
        /\ scene'[k] = u /\ u # t /\ scene[k] # None
    BY <1>1, <1>5 DEF Replacing
  <2>2. ASSUME Leaving(t, k), Burying(todo, t) PROVE Leaving(t, k)' /\ live'[k] = live[k]
    BY <1>2, <2>1, <2>2
  <2>3. CASE todo = <<<<"remove", t>>, <<"bury", t>>, <<"add", u>>>> /\ Leaving(t, k)
    <3>1. Leaving(t, k)'
      BY <2>2, <2>3, BuryLists
    <3>2. Replacing(t, u, k)'
      BY <2>1, <2>3, <3>1 DEF Replacing
    <3> QED
      BY <3>2 DEF Plan
  <2>4. CASE todo = <<<<"bury", t>>, <<"add", u>>>> /\ Leaving(t, k) /\ live[k] = None
    <3>1. Leaving(t, k)' /\ live'[k] = None
      BY <2>2, <2>4, BuryLists
    <3>2. Replacing(t, u, k)'
      BY <2>1, <2>4, <3>1 DEF Replacing
    <3> QED
      BY <3>2 DEF Plan
  <2>5. CASE todo = <<<<"add", u>>>>
    <3>1. Replacing(t, u, k)'
      BY <2>1, <2>5 DEF Replacing
    <3> QED
      BY <3>1 DEF Plan
  <2> QED
    BY <1>5, <2>3, <2>4, <2>5 DEF Replacing
<1>6. ASSUME NEW top \in Keys, NEW S \in SUBSET Keys, Expiring(top, S) PROVE Plan'
  <2>1. /\ \A l \in Keys \ Below(top) : Steady(l)' /\ Buried(l)'
        /\ top # Root
        /\ scene'[top] # None
        /\ S \subseteq Below(top)
        /\ \A k \in S : scene'[k] # None
    BY <1>1, <1>6 DEF Expiring
  <2> SUFFICES Expiring(top, S)'
    BY DEF Plan
  <2>2. CASE todo = <<<<"expire", S, top>>>>
    BY <2>1, <2>2 DEF Expiring
  <2>3. ASSUME NEW t \in Ids, NEW k \in Below(top), Moving(t, k, <<"expire", S, top>>)
        PROVE  Moving(t, k, <<"expire", S, top>>)'
    <3>1. Burying(todo, t)
      BY <2>3, MovingBuries, BelowIsClosed
    <3>2. k \in Keys /\ scene[k] # None /\ Leaving(t, k)
      BY <2>3, BelowIsClosed DEF Moving
    <3>3. Leaving(t, k)' /\ live'[k] = live[k]
      BY <1>2, <3>1, <3>2
    <3> QED
      BY <2>3, <3>3 DEF Moving
  <2>4. todo = <<<<"expire", S, top>>>>
          \/ \E t \in Ids, k \in Below(top) : Moving(t, k, <<"expire", S, top>>)
    BY <1>6 DEF Expiring
  <2>5. CASE \E t \in Ids, k \in Below(top) : Moving(t, k, <<"expire", S, top>>)
    <3>1. \E t \in Ids, k \in Below(top) : Moving(t, k, <<"expire", S, top>>)'
      BY <2>3, <2>5
    <3> QED
      BY <2>1, <3>1 DEF Expiring
  <2> QED
    BY <2>2, <2>4, <2>5
<1> QED
  BY <1>3, <1>4, <1>5, <1>6 DEF Plan

\* The child that the pager is at is awaited.
LEMMA PagerAwaits ==
    ASSUME Inv, pager # Idle, pager.kind = "child"
    PROVE  /\ Awaited(pager.key)
           /\ pager.key \in Keys \ {Root}
           /\ ChildAt(Len(loaded) + 1, pager.key)
           /\ Len(loaded) + 1 \in DOMAIN Line
<1>1. /\ Len(loaded) + 1 \in DOMAIN Line
      /\ Line[Len(loaded) + 1] = Claim(pager)
      /\ pager \in BuildType
  BY LineIs
<1>2. ChildAt(Len(loaded) + 1, pager.key)
  BY <1>1 DEF ChildAt, Claim
<1> QED
  BY <1>1, <1>2 DEF Awaited, BuildType, Inv, WellFormed

LEMMA BeginKeepsScene ==
    ASSUME Inv, Inv', SceneInv, NEW k \in Keys, NEW kind \in Kinds, Begin(k, kind)
    PROVE  SceneInv'
<1>1. /\ UNCHANGED <<live, dead, tiles, scene, loaded, todo>>
      /\ pager = Idle
      /\ pager' = [at |-> "lookup", key |-> k, kind |-> kind, rev |-> revision,
                   blind |-> FALSE, orphan |-> FALSE]
      /\ Asked(k, kind)
  BY DEF Begin, asked, registries, sceneVars
<1>2. pager' # Idle
  <2>1. pager' \in BuildType
    BY <1>1 DEF BuildType, Inv, WellFormed
  <2>2. pager'.at = "lookup" /\ Idle.at = "idle"
    BY <1>1 DEF Idle
  <2> QED
    BY <2>2
<1> DEFINE n == Len(loaded) + 1
           c == [key |-> k, kind |-> kind, orphan |-> FALSE]
<1>3. /\ n \in Nat
      /\ DOMAIN Line = 1 .. n - 1
      /\ DOMAIN Line' = 1 .. n
      /\ \A i \in DOMAIN Line : Line'[i] = Line[i]
      /\ Line'[n] = c
  <2>1. Len(loaded) \in Nat
    BY LineIs
  <2>2. Line = [i \in 1 .. Len(loaded) |-> Claim(IF i <= Len(loaded) THEN loaded[i] ELSE pager)]
    BY <1>1, <2>1 DEF Line
  <2>3. Line' = [i \in 1 .. Len(loaded) + 1
                   |-> Claim(IF i <= Len(loaded) THEN loaded[i] ELSE pager')]
    BY <1>1, <1>2 DEF Line
  <2>4. Claim(pager') = c
    BY <1>1 DEF Claim
  <2>5. n \in Nat /\ n = Len(loaded) + 1 /\ 1 .. n - 1 = 1 .. Len(loaded)
    BY <2>1
  <2> HIDE DEF n
  <2>6. DOMAIN Line = 1 .. n - 1 /\ DOMAIN Line' = 1 .. n
    BY <2>2, <2>3, <2>5
  <2>7. ASSUME NEW i \in DOMAIN Line PROVE Line'[i] = Line[i]
    <3>1. i \in 1 .. Len(loaded) /\ i \in 1 .. Len(loaded) + 1 /\ i <= Len(loaded)
      BY <2>1, <2>5, <2>6
    <3> QED
      BY <2>2, <2>3, <3>1
  <2>8. Line'[n] = c
    <3>1. n \in 1 .. Len(loaded) + 1 /\ ~(n <= Len(loaded))
      BY <2>1, <2>5
    <3> QED
      BY <2>3, <2>4, <3>1
  <2> QED
    BY <2>5, <2>6, <2>7, <2>8
<1> HIDE DEF n
<1>4. \A i \in DOMAIN Line' : i = n \/ (i \in DOMAIN Line /\ i < n /\ Line'[i] = Line[i])
  BY <1>3
<1>5. ASSUME kind = "child"
      PROVE  /\ k # Root
             /\ scene[k] = None
             /\ scene[Parent[k]] # None
             /\ \A i \in DOMAIN Line : ~ChildAt(i, k)
  <2>1. k # Root /\ scene[k] = None /\ scene[Parent[k]] # None /\ ~Outstanding(k, kind)
    BY <1>1, <1>5 DEF Asked
  <2>2. ASSUME NEW i \in DOMAIN Line, ChildAt(i, k) PROVE FALSE
    <3>1. Line[i].orphan
      <4>1. i \in DOMAIN loaded /\ loaded[i] \in LoadType /\ Line[i] = Claim(loaded[i])
        BY <1>1, LineIs
      <4>2. loaded[i].key = k /\ loaded[i].kind = "child"
        BY <2>2, <4>1 DEF ChildAt, Claim
      <4>3. loaded[i].orphan
        BY <1>5, <2>1, <4>1, <4>2 DEF Outstanding
      <4> QED
        BY <4>1, <4>3 DEF Claim
    <3>2. scene[Parent[k]] = None
      BY <2>2, <3>1 DEF SceneInv, ChildrenInLine, ChildAt
    <3> QED
      BY <2>1, <3>2
  <2> QED
    BY <2>1, <2>2
<1>6. ChildrenInLine'
  <2> SUFFICES ASSUME NEW i \in DOMAIN Line', Line'[i].kind = "child"
               PROVE  /\ scene[Line'[i].key] = None
                      /\ \A j \in DOMAIN Line' :
                            Line'[j].kind = "child" /\ Line'[j].key = Line'[i].key => i = j
                      /\ Line'[i].orphan =>
                            /\ scene[Parent[Line'[i].key]] = None
                            /\ \A j \in DOMAIN Line' :
                                  Line'[j].kind = "child" /\ Line'[j].key = Parent[Line'[i].key]
                                      /\ ~Line'[j].orphan => i < j
    BY <1>1 DEF ChildrenInLine, ChildAt
  <2>1. CASE i = n
    <3>1. kind = "child" /\ Line'[i] = c
      BY <1>3, <2>1
    <3> QED
      BY <1>4, <1>5, <2>1, <3>1 DEF ChildAt
  <2>2. CASE i \in DOMAIN Line /\ i < n /\ Line'[i] = Line[i]
    <3>1. /\ scene[Line[i].key] = None
          /\ \A j \in DOMAIN Line : ChildAt(j, Line[i].key) => i = j
          /\ Line[i].orphan =>
                /\ scene[Parent[Line[i].key]] = None
                /\ \A j \in DOMAIN Line :
                      ChildAt(j, Parent[Line[i].key]) /\ ~Line[j].orphan => i < j
      BY <2>2 DEF SceneInv, ChildrenInLine
    <3>2. ASSUME c.kind = "child" PROVE c.key # Line[i].key
      BY <1>5, <2>2, <3>2 DEF ChildAt
    <3> QED
      BY <1>3, <1>4, <2>2, <3>1, <3>2 DEF ChildAt
  <2> QED
    BY <1>4, <2>1, <2>2
<1>7. LoadedTiles' /\ DeadIsNotLive'
  BY <1>1 DEF SceneInv, LoadedTiles, DeadIsNotLive
<1>8. ASSUME NEW l \in Keys, Awaited(l)'
      PROVE  \/ Awaited(l)
             \/ scene[l] = None /\ (l # Root => scene[Parent[l]] # None)
  <2>1. PICK i \in DOMAIN Line' : Line'[i].kind = "child" /\ Line'[i].key = l
    BY <1>8 DEF Awaited, ChildAt
  <2>2. CASE i = n
    BY <1>3, <1>5, <2>1, <2>2
  <2>3. CASE i \in DOMAIN Line /\ Line'[i] = Line[i]
    BY <2>1, <2>3 DEF Awaited, ChildAt
  <2> QED
    BY <1>4, <2>2, <2>3
<1>9. KeysStay
  BY <1>1, SameTilesKeysStay
<1>10. Plan'
  BY <1>1, <1>8, <1>9, PlanStays DEF SceneInv
<1> QED
  BY <1>6, <1>7, <1>10 DEF SceneInv

LEMMA LookUpParentKeepsScene ==
    ASSUME Inv, Inv', SceneInv, LookUpParent PROVE SceneInv'
<1>1. UNCHANGED <<live, dead, tiles, scene, loaded, todo>> /\ pager # Idle
  BY DEF LookUpParent, asked, registries, sceneVars
<1>2. PICK b : pager' = [pager EXCEPT !.at = "make", !.blind = b]
  BY DEF LookUpParent
<1>3. pager \in BuildType
  BY <1>1 DEF Inv, WellFormed
<1>4. pager' # Idle /\ Claim(pager') = Claim(pager)
  <2>1. pager'.at = "make" /\ Idle.at = "idle"
    BY <1>2, <1>3 DEF BuildType, Idle
  <2> QED
    BY <1>2, <1>3, <2>1 DEF BuildType, Claim
<1>5. Line' = Line
  <2>1. \A i : Claim(IF i <= Len(loaded) THEN loaded[i] ELSE pager')
                 = Claim(IF i <= Len(loaded) THEN loaded[i] ELSE pager)
    BY <1>4
  <2> QED
    BY <1>1, <1>4, <2>1 DEF Line
<1>6. ChildrenInLine'
  BY <1>1, <1>5, LineStays DEF SceneInv
<1>7. LoadedTiles' /\ DeadIsNotLive'
  BY <1>1 DEF SceneInv, LoadedTiles, DeadIsNotLive
<1>8. \A l : Awaited(l)' => Awaited(l)
  BY <1>5 DEF Awaited, ChildAt
<1>9. KeysStay
  BY <1>1, SameTilesKeysStay
<1>10. Plan'
  BY <1>1, <1>8, <1>9, PlanStays DEF SceneInv
<1> QED
  BY <1>6, <1>7, <1>10 DEF SceneInv

LEMMA CancelKeepsScene ==
    ASSUME Inv, Inv', SceneInv, Cancel PROVE SceneInv'
<1>1. UNCHANGED <<live, dead, tiles, scene, loaded, todo>> /\ pager # Idle /\ pager' = Idle
  BY DEF Cancel, asked, registries, sceneVars
<1>2. \A i \in DOMAIN Line' : i \in Nat /\ i \in DOMAIN Line /\ Line'[i] = Line[i]
  BY <1>1, LineIs DEF Line
<1>3. ChildrenInLine'
  <2>1. \A i \in DOMAIN Line' : i \in Nat /\ i + 0 \in DOMAIN Line /\ Line'[i] = Line[i + 0]
    BY <1>2
  <2>2. \A i \in DOMAIN Line' : Line'[i].kind = "child" =>
               /\ scene'[Line'[i].key] = None
               /\ Line'[i].orphan => scene'[Parent[Line'[i].key]] = None
    BY <1>1, <1>2 DEF SceneInv, ChildrenInLine
  <2> QED
    BY <2>1, <2>2, LineMovesUp DEF SceneInv
<1>4. LoadedTiles' /\ DeadIsNotLive'
  BY <1>1 DEF SceneInv, LoadedTiles, DeadIsNotLive
<1>5. \A l : Awaited(l)' => Awaited(l)
  BY <1>2 DEF Awaited, ChildAt
<1>6. KeysStay
  BY <1>1, SameTilesKeysStay
<1>7. Plan'
  BY <1>1, <1>5, <1>6, PlanStays DEF SceneInv
<1> QED
  BY <1>3, <1>4, <1>7 DEF SceneInv

LEMMA ReleaseKeepsScene ==
    ASSUME Inv, Inv', SceneInv, Release PROVE SceneInv'
<1>1. /\ dead' = [k \in Keys |-> None]
      /\ UNCHANGED <<live, scene, pager, loaded, todo>>
      /\ Keep(tiles)
  BY DEF Release, asked, sceneVars, pagerVars
<1>2. Line' = Line
  BY <1>1 DEF Line
<1>3. ChildrenInLine'
  BY <1>1, <1>2, LineStays DEF SceneInv
<1>4. DeadIsNotLive'
  BY <1>1 DEF DeadIsNotLive
<1>5. LoadedTiles'
  <2>1. \A i \in DOMAIN loaded : loaded[i].key \in Keys
    BY LineIs DEF LoadType
  <2> QED
    BY <1>1, <2>1 DEF SceneInv, LoadedTiles, Paged
<1>6. \A l : Awaited(l)' => Awaited(l)
  BY <1>2 DEF Awaited, ChildAt
<1>7. KeysStay
  BY <1>1, SameTilesKeysStay
<1>8. Plan'
  BY <1>1, <1>6, <1>7, PlanStays DEF SceneInv
<1> QED
  BY <1>3, <1>4, <1>5, <1>8 DEF SceneInv

\* What was built keeps its place in the line.
LEMMA BuiltStaysInLine ==
    ASSUME Inv, pager # Idle, NEW t \in Ids \union {None}, Loaded(t)
    PROVE  LET n == Len(loaded) + 1
               j == [key |-> pager.key, kind |-> pager.kind, orphan |-> pager.orphan,
                     tile |-> t]
           IN  /\ Line' = Line
               /\ n \notin DOMAIN loaded
               /\ n \in DOMAIN loaded'
               /\ loaded'[n] = j
               /\ \A i \in DOMAIN loaded :
                     i \in DOMAIN loaded' /\ loaded'[i] = loaded[i]
               /\ \A i \in DOMAIN loaded' : i = n \/ i \in DOMAIN loaded
<1> DEFINE n == Len(loaded) + 1
           j == [key |-> pager.key, kind |-> pager.kind, orphan |-> pager.orphan, tile |-> t]
<1>1. /\ Len(loaded) \in Nat /\ DOMAIN loaded = 1 .. Len(loaded)
      /\ pager \in BuildType /\ loaded \in Seq(LoadType)
  BY LineIs DEF Inv, WellFormed
<1>2. j \in LoadType /\ Claim(j) = Claim(pager)
  BY <1>1 DEF BuildType, LoadType, Claim
<1>3. pager' = Idle /\ loaded' = Append(loaded, j)
  BY DEF Loaded
<1> HIDE DEF j
<1>4. /\ Len(loaded') = Len(loaded) + 1
      /\ DOMAIN loaded' = 1 .. Len(loaded) + 1
      /\ \A i \in 1 .. Len(loaded) : loaded'[i] = loaded[i]
      /\ loaded'[Len(loaded) + 1] = j
  BY <1>1, <1>2, <1>3, AppendProperties
<1>5. Line' = Line
  <2>1. Line = [i \in 1 .. Len(loaded) + 1 |-> Claim(IF i <= Len(loaded) THEN loaded[i] ELSE pager)]
    BY DEF Line
  <2>2. Line' = [i \in 1 .. Len(loaded) + 1
                   |-> Claim(IF i <= Len(loaded) + 1 THEN loaded'[i] ELSE pager')]
    <3>1. 1 .. Len(loaded') + 0 = 1 .. Len(loaded) + 1
      BY <1>1, <1>4
    <3> QED
      BY <1>3, <1>4, <3>1 DEF Line
  <2>3. ASSUME NEW i \in 1 .. Len(loaded) + 1
        PROVE  Claim(IF i <= Len(loaded) + 1 THEN loaded'[i] ELSE pager')
                 = Claim(IF i <= Len(loaded) THEN loaded[i] ELSE pager)
    <3>1. CASE i \in 1 .. Len(loaded)
      <4>1. i <= Len(loaded) /\ i <= Len(loaded) + 1
        BY <1>1, <3>1
      <4> QED
        BY <1>4, <3>1, <4>1
    <3>2. CASE i = Len(loaded) + 1
      <4>1. ~(i <= Len(loaded)) /\ i <= Len(loaded) + 1
        BY <1>1, <3>2
      <4> QED
        BY <1>2, <1>4, <3>2, <4>1
    <3> QED
      BY <1>1, <3>1, <3>2
  <2> QED
    BY <2>1, <2>2, <2>3
<1>6. n \notin DOMAIN loaded /\ n \in DOMAIN loaded' /\ \A i \in DOMAIN loaded' : i = n \/ i \in DOMAIN loaded
  BY <1>1, <1>4
<1>7. \A i \in DOMAIN loaded : i \in DOMAIN loaded' /\ loaded'[i] = loaded[i]
  BY <1>1, <1>4
<1> QED
  BY <1>4, <1>5, <1>6, <1>7 DEF j

LEMMA MakeNothingKeepsScene ==
    ASSUME Inv, Inv', SceneInv, MakeNothing PROVE SceneInv'
<1>1. UNCHANGED <<live, dead, tiles, scene, todo>> /\ pager # Idle /\ Loaded(None)
  BY DEF MakeNothing, asked, registries, sceneVars
<1> DEFINE n == Len(loaded) + 1
<1>2. /\ Line' = Line
      /\ loaded'[n].tile = None
      /\ \A i \in DOMAIN loaded : i \in DOMAIN loaded' /\ loaded'[i] = loaded[i]
      /\ \A i \in DOMAIN loaded' : i = n \/ i \in DOMAIN loaded
  <2> DEFINE j == [key |-> pager.key, kind |-> pager.kind, orphan |-> pager.orphan,
                   tile |-> None]
  <2>1. j.tile = None
    OBVIOUS
  <2>2. /\ Line' = Line
        /\ loaded'[n] = j
        /\ \A i \in DOMAIN loaded : i \in DOMAIN loaded' /\ loaded'[i] = loaded[i]
        /\ \A i \in DOMAIN loaded' : i = n \/ i \in DOMAIN loaded
    BY <1>1, BuiltStaysInLine
  <2> QED
    BY <2>1, <2>2
<1> HIDE DEF n
<1>3. ChildrenInLine'
  BY <1>1, <1>2, LineStays DEF SceneInv
<1>4. DeadIsNotLive'
  BY <1>1 DEF SceneInv, DeadIsNotLive
<1>5. \A i \in DOMAIN loaded' : loaded'[i].tile # None => i \in DOMAIN loaded /\ loaded'[i] = loaded[i]
  BY <1>2
<1>6. LoadedTiles'
  BY <1>1, <1>5 DEF SceneInv, LoadedTiles, Paged
<1>7. \A l : Awaited(l)' => Awaited(l)
  BY <1>2 DEF Awaited, ChildAt
<1>8. KeysStay
  BY <1>1, SameTilesKeysStay
<1>9. \A i \in DOMAIN loaded' : loaded'[i].tile \notin Ids \/ \E j \in DOMAIN loaded : loaded[j].tile = loaded'[i].tile
  BY <1>5
<1>10. Plan'
  BY <1>1, <1>7, <1>8, <1>9, PlanStays DEF SceneInv
<1> QED
  BY <1>3, <1>4, <1>6, <1>10 DEF SceneInv

LEMMA MakeKeepsScene ==
    ASSUME Inv, Inv', SceneInv, Make PROVE SceneInv'
<1> DEFINE n == Len(loaded) + 1
           k == pager.key
<1>1. PICK t \in Unused :
        /\ Loaded(t)
        /\ live' = IF Paged(pager) THEN [live EXCEPT ![k] = t] ELSE live
        /\ UNCHANGED <<dead, scene, todo>>
  BY DEF Make, sceneVars, Paged
<1>2. t \in Ids /\ tiles[t] = None /\ pager # Idle /\ pager \in BuildType
  BY LineIs DEF Unused, Make
<1> DEFINE j == [key |-> k, kind |-> pager.kind, orphan |-> pager.orphan, tile |-> t]
<1>3. /\ Line' = Line
      /\ n \notin DOMAIN loaded
      /\ n \in DOMAIN loaded'
      /\ loaded'[n] = j
      /\ \A i \in DOMAIN loaded : i \in DOMAIN loaded' /\ loaded'[i] = loaded[i]
      /\ \A i \in DOMAIN loaded' : i = n \/ i \in DOMAIN loaded
  BY <1>1, <1>2, BuiltStaysInLine
<1>4. j.tile = t /\ j.key = k /\ j.kind = pager.kind /\ k \in Keys /\ (Paged(j) <=> Paged(pager))
  BY <1>2 DEF BuildType, Paged
<1>5. t # None /\ \A l \in Keys : t # scene[l] /\ t # dead[l] /\ t # live[l]
  BY <1>2 DEF Inv, Refers, Has
<1>6. \A i \in DOMAIN loaded : loaded[i].tile # t
  <2>1. \A i \in DOMAIN loaded : loaded[i] \in Range(loaded)
    BY DEF Range
  <2> QED
    BY <1>2, <2>1 DEF Inv, Refers, Has
<1>7. /\ ChildAt(n, k) <=> pager.kind = "child"
      /\ pager.kind = "child" => Awaited(k)
      /\ n \in DOMAIN Line
  <2>1. Line[n] = Claim(pager) /\ n \in DOMAIN Line
    BY <1>2, LineIs
  <2> QED
    BY <2>1 DEF ChildAt, Claim, Awaited
<1>8. \A l \in Keys : live'[l] = live[l] \/ (l = k /\ Paged(pager) /\ live'[l] = t)
  BY <1>1, <1>4 DEF Inv, WellFormed
<1>9. \A i \in DOMAIN loaded : /\ loaded[i].key \in Keys
                               /\ Paged(loaded[i]) => ChildAt(i, loaded[i].key)
                               /\ i \in DOMAIN Line
  <2> SUFFICES ASSUME NEW i \in DOMAIN loaded
               PROVE  /\ loaded[i].key \in Keys
                      /\ Paged(loaded[i]) => ChildAt(i, loaded[i].key)
                      /\ i \in DOMAIN Line
    OBVIOUS
  <2>1. loaded[i] \in LoadType /\ i \in DOMAIN Line /\ Line[i] = Claim(loaded[i])
    BY LineIs
  <2>2. Line[i].kind = loaded[i].kind /\ Line[i].key = loaded[i].key
    BY <2>1 DEF Claim
  <2> QED
    BY <2>1, <2>2 DEF ChildAt, LoadType, Paged
<1>10. pager.kind = "child" => scene[k] = None
  BY <1>7 DEF SceneInv, ChildrenInLine, ChildAt
<1> HIDE DEF n, j, k
<1>11. ChildrenInLine'
  BY <1>1, <1>3, LineStays DEF SceneInv
<1>12. DeadIsNotLive'
  BY <1>1, <1>5, <1>8 DEF SceneInv, DeadIsNotLive
<1>13. \A i \in DOMAIN loaded : Paged(loaded[i]) => live'[loaded[i].key] = live[loaded[i].key]
  <2> SUFFICES ASSUME NEW i \in DOMAIN loaded, Paged(loaded[i]), loaded[i].key = k, Paged(pager)
               PROVE  FALSE
    BY <1>8, <1>9
  <2>1. ChildAt(i, k) /\ ChildAt(n, k) /\ i # n
    BY <1>3, <1>7, <1>9 DEF Paged
  <2>2. \A a, b \in DOMAIN Line : ChildAt(a, k) /\ ChildAt(b, k) => a = b
    BY DEF SceneInv, ChildrenInLine, ChildAt
  <2> QED
    BY <1>7, <1>9, <2>1, <2>2
<1>14. LoadedTiles'
  <2> SUFFICES ASSUME NEW i \in DOMAIN loaded', loaded'[i].tile # None
               PROVE  /\ loaded'[i].tile # scene'[loaded'[i].key]
                      /\ loaded'[i].tile # dead'[loaded'[i].key]
                      /\ \A l \in DOMAIN loaded' : loaded'[l].tile = loaded'[i].tile => i = l
                      /\ Paged(loaded'[i]) => live'[loaded'[i].key] = loaded'[i].tile
    BY DEF LoadedTiles, Paged
  <2>1. CASE i = n
    <3>1. loaded'[i] = j
      BY <1>3, <2>1
    <3>2. \A l \in DOMAIN loaded' : loaded'[l].tile = t => l = n
      BY <1>3, <1>4, <1>6
    <3>3. Paged(j) => live'[k] = t
      BY <1>1, <1>4 DEF Inv, WellFormed
    <3> QED
      BY <1>1, <1>4, <1>5, <2>1, <3>1, <3>2, <3>3
  <2>2. CASE i \in DOMAIN loaded
    <3>1. loaded'[i] = loaded[i] /\ loaded[i].tile # None /\ loaded[i].key \in Keys
      BY <1>3, <1>9, <2>2
    <3>2. /\ loaded[i].tile # scene[loaded[i].key]
          /\ loaded[i].tile # dead[loaded[i].key]
          /\ \A l \in DOMAIN loaded : loaded[l].tile = loaded[i].tile => i = l
          /\ Paged(loaded[i]) => live[loaded[i].key] = loaded[i].tile
      BY <2>2, <3>1 DEF SceneInv, LoadedTiles
    <3>3. loaded[i].tile # t
      BY <1>6, <2>2
    <3>4. \A l \in DOMAIN loaded' : loaded'[l].tile = loaded[i].tile => i = l
      BY <1>3, <1>4, <3>2, <3>3
    <3> QED
      BY <1>1, <1>13, <2>2, <3>1, <3>2, <3>4
  <2> QED
    BY <1>3, <2>1, <2>2
<1>15. \A l : Awaited(l)' => Awaited(l)
  BY <1>3 DEF Awaited, ChildAt
<1>16. \A l \in Keys : live'[l] = live[l] \/ (scene[l] = None /\ Awaited(l))
  BY <1>7, <1>8, <1>10 DEF Paged
<1>17. \A i \in DOMAIN loaded' : \/ loaded'[i].tile \in Unused
                                 \/ \E l \in DOMAIN loaded : loaded[l].tile = loaded'[i].tile
  <2>1. t \in Unused
    BY <1>2 DEF Unused
  <2> QED
    BY <1>3, <1>4, <2>1
<1>18. Plan'
  BY <1>1, <1>15, <1>16, <1>17, MakeKeysStay, PlanStays DEF SceneInv
<1> QED
  BY <1>11, <1>12, <1>14, <1>18 DEF SceneInv

-----------------------------------------------------------------------------
(* The main thread between two calls                                       *)

\* What leaves the scene, the registries and the loads as they are.
LEMMA NothingMoves ==
    ASSUME SceneInv, UNCHANGED <<live, dead, scene, pager, loaded>>
    PROVE  ChildrenInLine' /\ LoadedTiles' /\ DeadIsNotLive'
<1>1. Line' = Line
  BY DEF Line
<1> QED
  BY <1>1 DEF SceneInv, ChildrenInLine, ChildAt, LoadedTiles, Paged, DeadIsNotLive

LEMMA ChangeMapKeepsScene ==
    ASSUME Inv, SceneInv, ChangeMap PROVE SceneInv'
<1>1. /\ UNCHANGED <<live, dead, scene, pager, loaded>>
      /\ todo = <<>>
      /\ \E n \in Nat : todo' = <<<<"setMapRevision", None, n>>>>
  BY DEF ChangeMap, MainIsFree, registries, sceneVars, pagerVars, Inv, WellFormed
<1>2. \A l \in Keys : Steady(l)' /\ Buried(l)'
  BY <1>1, AtRest DEF Steady, Buried, SceneInv
<1>3. Plan'
  BY <1>1, <1>2 DEF Plan, Resting
<1> QED
  BY <1>1, <1>3, NothingMoves DEF SceneInv

LEMMA InvalidateKeepsScene ==
    ASSUME Inv, SceneInv, NEW region \in SUBSET Keys, Invalidate(region) PROVE SceneInv'
<1>1. UNCHANGED <<live, dead, scene, pager, loaded, todo>> /\ todo = <<>>
  BY DEF Invalidate, MainIsFree, registries, sceneVars, pagerVars
<1>2. \A l \in Keys : Steady(l)' /\ Buried(l)'
  BY <1>1, AtRest DEF Steady, Buried, SceneInv
<1>3. Plan'
  BY <1>1, <1>2 DEF Plan, Resting
<1> QED
  BY <1>1, <1>3, NothingMoves DEF SceneInv

LEMMA CullKeepsScene ==
    ASSUME Inv, SceneInv, NEW k \in Keys, Cull(k) PROVE SceneInv'
<1>1. UNCHANGED <<live, dead, scene, pager, loaded, todo>> /\ todo = <<>>
  BY DEF Cull, MainIsFree, registries, pagerVars
<1>2. \A l \in Keys : Steady(l)' /\ Buried(l)'
  BY <1>1, AtRest DEF Steady, Buried, SceneInv
<1>3. Plan'
  BY <1>1, <1>2 DEF Plan, Resting
<1> QED
  BY <1>1, <1>3, NothingMoves DEF SceneInv

LEMMA ExpireKeepsScene ==
    ASSUME Inv, SceneInv, NEW k \in Keys, Expire(k) PROVE SceneInv'
<1>1. /\ UNCHANGED <<live, dead, scene, pager, loaded>>
      /\ todo = <<>>
      /\ k # Root
      /\ scene[k] # None
  BY DEF Expire, MainIsFree, registries, sceneVars, pagerVars
<1>2. \A l \in Keys : Steady(l)' /\ Buried(l)'
  BY <1>1, AtRest DEF Steady, Buried, SceneInv
<1>3. PICK S \in SUBSET Keys :
        /\ S \subseteq Below(k)
        /\ \A c \in S : scene'[c] # None
        /\ todo' = <<<<"expire", S, k>>>>
  <2> DEFINE S == {c \in Below(k) : scene[c] # None}
  <2>1. todo' = <<<<"expire", S, k>>>>
    BY DEF Expire
  <2>2. S \subseteq Below(k) /\ S \in SUBSET Keys /\ \A c \in S : scene'[c] # None
    BY <1>1, BelowIsClosed
  <2> QED
    BY <2>1, <2>2
<1>4. Expiring(k, S)'
  BY <1>1, <1>2, <1>3 DEF Expiring
<1>5. Plan'
  BY <1>3, <1>4 DEF Plan
<1> QED
  BY <1>1, <1>5, NothingMoves DEF SceneInv

\* What is merged was at the head of the line.
LEMMA HeadOfLine ==
    ASSUME Inv, loaded # <<>>, loaded' = Tail(loaded), pager' = pager
    PROVE  LET j == Head(loaded)
           IN  /\ j = loaded[1]
               /\ 1 \in DOMAIN loaded
               /\ j \in LoadType
               /\ 1 \in DOMAIN Line
               /\ Line[1] = Claim(j)
               /\ \A i \in DOMAIN Line' : /\ i \in Nat
                                          /\ i + 1 \in DOMAIN Line
                                          /\ i + 1 # 1
                                          /\ Line'[i] = Line[i + 1]
               /\ \A i \in DOMAIN loaded' : /\ i \in Nat
                                            /\ i + 1 \in DOMAIN loaded
                                            /\ i + 1 # 1
                                            /\ loaded'[i] = loaded[i + 1]
<1> DEFINE j == Head(loaded)
<1>1. loaded \in Seq(LoadType)
  BY DEF Inv, WellFormed
<1>2. /\ Len(loaded) \in Nat \ {0}
      /\ DOMAIN loaded = 1 .. Len(loaded)
      /\ j = loaded[1]
      /\ DOMAIN loaded' = 1 .. Len(loaded) - 1
      /\ Len(loaded') = Len(loaded) - 1
      /\ \A i \in 1 .. Len(loaded) - 1 : loaded'[i] = loaded[i + 1]
  BY <1>1, HeadTailProperties
<1> HIDE DEF j
<1>3. 1 \in DOMAIN loaded
  BY <1>2
<1>4. j \in LoadType /\ 1 \in DOMAIN Line /\ Line[1] = Claim(j)
  BY <1>2, <1>3, LineIs
<1>5. \A i \in DOMAIN loaded' : /\ i \in Nat
                                /\ i + 1 \in DOMAIN loaded
                                /\ i + 1 # 1
                                /\ loaded'[i] = loaded[i + 1]
  BY <1>2
<1>6. ASSUME NEW i \in DOMAIN Line'
      PROVE  /\ i \in Nat
             /\ i + 1 \in DOMAIN Line
             /\ i + 1 # 1
             /\ Line'[i] = Line[i + 1]
  <2> DEFINE z == IF pager = Idle THEN 0 ELSE 1
  <2>1. DOMAIN Line = 1 .. Len(loaded) + z
    BY DEF Line
  <2>2. DOMAIN Line' = 1 .. (Len(loaded) - 1) + z
    BY <1>2 DEF Line
  <2>3. z \in 0 .. 1
    OBVIOUS
  <2> HIDE DEF z
  <2>4. i \in Nat /\ i + 1 \in 1 .. Len(loaded) + z /\ i + 1 # 1
    BY <1>2, <2>2, <2>3
  <2>5. Line[i + 1] = Claim(IF i + 1 <= Len(loaded) THEN loaded[i + 1] ELSE pager)
    BY <2>1, <2>4 DEF Line
  <2>6. Line'[i] = Claim(IF i <= Len(loaded) - 1 THEN loaded'[i] ELSE pager)
    BY <1>2 DEF Line
  <2>7. CASE i <= Len(loaded) - 1
    <3>1. i + 1 <= Len(loaded) /\ i \in 1 .. Len(loaded) - 1
      BY <1>2, <2>2, <2>3, <2>7
    <3> QED
      BY <1>2, <2>1, <2>4, <2>5, <2>6, <2>7, <3>1
  <2>8. CASE ~(i <= Len(loaded) - 1)
    <3>1. ~(i + 1 <= Len(loaded))
      BY <1>2, <2>4, <2>8
    <3> QED
      BY <2>1, <2>4, <2>5, <2>6, <2>8, <3>1
  <2> QED
    BY <2>7, <2>8
<1> QED
  BY <1>2, <1>3, <1>4, <1>5, <1>6 DEF j

LEMMA BuryingIsThere ==
    ASSUME Inv', KeysStay, NEW t \in Ids, NEW k \in Keys,
           Has(tiles, t, k), Burying(todo', t)
    PROVE  Has(tiles', t, k)
<1>1. CallRefers(tiles', scene', <<"bury", t>>)
  BY DEF Inv, Refers, Burying
<1>2. tiles'[t] # None
  BY <1>1 DEF CallRefers
<1> QED
  BY <1>2 DEF KeysStay, Has

LEMMA MergeKeepsScene == ASSUME Inv, Inv', SceneInv, Merge PROVE SceneInv'
<1> DEFINE j == Head(loaded)
<1>1. /\ todo = <<>>
      /\ loaded # <<>>
      /\ loaded' = Tail(loaded)
      /\ UNCHANGED <<live, dead, pager>>
      /\ Keep(tiles)
      /\ DropLoaded(j) \/ AddChild(j) \/ ApplyUpdate(j) \/ RejectUpdate(j)
  BY DEF Merge, MainIsFree, asked, registries
<1>2. /\ j = loaded[1]
      /\ 1 \in DOMAIN loaded
      /\ j \in LoadType
      /\ 1 \in DOMAIN Line
      /\ Line[1] = Claim(j)
      /\ \A i \in DOMAIN Line' :
            i \in Nat /\ i + 1 \in DOMAIN Line /\ i + 1 # 1 /\ Line'[i] = Line[i + 1]
      /\ \A i \in DOMAIN loaded' :
            i \in Nat /\ i + 1 \in DOMAIN loaded /\ i + 1 # 1 /\ loaded'[i] = loaded[i + 1]
  BY <1>1, HeadOfLine
<1>3. PICK k, t, kind, orphan : k = j.key /\ t = j.tile /\ kind = j.kind /\ orphan = j.orphan
  OBVIOUS
<1> HIDE DEF j
<1>4. /\ k \in Keys /\ t \in Ids \union {None}
      /\ Line[1].key = k /\ Line[1].kind = kind /\ Line[1].orphan = orphan
      /\ Paged(j) <=> kind = "child" /\ k \notin Leaves
  BY <1>2, <1>3 DEF LoadType, Claim, Paged
<1>5. /\ \A l \in Keys : Steady(l) /\ Buried(l)
      /\ ChildrenInLine /\ LoadedTiles /\ DeadIsNotLive
  BY <1>1, AtRest DEF SceneInv
<1>6. t # None => /\ t # scene[k] /\ t # dead[k]
                  /\ kind = "child" /\ k \notin Leaves => live[k] = t
                  /\ Has(tiles, t, k)
  <2>1. j \in Range(loaded)
    BY <1>2 DEF Range
  <2> QED
    BY <1>2, <1>3, <1>4, <1>5, <2>1 DEF LoadedTiles, Inv, Refers
<1>7. ASSUME NEW i \in DOMAIN loaded', loaded'[i].tile # None
      PROVE  /\ loaded'[i].key \in Keys
             /\ loaded'[i].tile # t
             /\ loaded'[i].tile # scene[loaded'[i].key]
             /\ loaded'[i].tile # dead[loaded'[i].key]
             /\ \A l \in DOMAIN loaded' : loaded'[l].tile = loaded'[i].tile => i = l
             /\ Paged(loaded'[i]) => live[loaded'[i].key] = loaded'[i].tile
  <2>1. i + 1 \in DOMAIN loaded /\ i + 1 # 1 /\ loaded'[i] = loaded[i + 1] /\ i \in Nat
    BY <1>2
  <2>2. loaded[i + 1] \in LoadType
    BY <2>1, LineIs
  <2>3. /\ loaded[i + 1].tile # scene[loaded[i + 1].key]
        /\ loaded[i + 1].tile # dead[loaded[i + 1].key]
        /\ \A l \in DOMAIN loaded : loaded[l].tile = loaded[i + 1].tile => i + 1 = l
        /\ Paged(loaded[i + 1]) => live[loaded[i + 1].key] = loaded[i + 1].tile
    BY <1>5, <1>7, <2>1 DEF LoadedTiles
  <2>4. loaded[i + 1].tile # t
    BY <1>2, <1>3, <2>1, <2>3
  <2>5. ASSUME NEW l \in DOMAIN loaded', loaded'[l].tile = loaded'[i].tile PROVE i = l
    <3>1. i + 1 = l + 1 /\ l \in Nat
      BY <1>2, <2>1, <2>3, <2>5
    <3> QED
      BY <2>1, <3>1
  <2> QED
    BY <2>1, <2>2, <2>3, <2>4, <2>5 DEF LoadType
<1>8. ASSUME NEW l \in Keys, kind = "child", Awaited(l)' PROVE l # k
  <2>1. PICK i \in DOMAIN Line' : Line'[i].kind = "child" /\ Line'[i].key = l
    BY <1>8 DEF Awaited, ChildAt
  <2>2. i + 1 \in DOMAIN Line /\ i + 1 # 1 /\ ChildAt(i + 1, l)
    BY <1>2, <2>1 DEF ChildAt
  <2> QED
    BY <1>2, <1>4, <1>5, <1>8, <2>2 DEF ChildrenInLine, ChildAt
<1>9. ASSUME \A l \in Keys : scene[l] = None /\ scene'[l] # None =>
                 l = k /\ kind = "child" /\ ~orphan
      PROVE  ChildrenInLine'
  <2>1. \A i \in DOMAIN Line' : i \in Nat /\ i + 1 \in DOMAIN Line /\ Line'[i] = Line[i + 1]
    BY <1>2
  <2>2. ASSUME NEW i \in DOMAIN Line', Line'[i].kind = "child"
        PROVE  /\ scene'[Line'[i].key] = None
               /\ Line'[i].orphan => scene'[Parent[Line'[i].key]] = None
    <3>1. i + 1 \in DOMAIN Line /\ i + 1 # 1 /\ Line'[i] = Line[i + 1] /\ i \in Nat
      BY <1>2
    <3>2. /\ Line[i + 1].key \in Keys /\ Line[i + 1].key # Root
          /\ Parent[Line[i + 1].key] \in Keys
      BY <2>2, <3>1, LineIs
    <3>3. /\ scene[Line[i + 1].key] = None
          /\ \A l \in DOMAIN Line : ChildAt(l, Line[i + 1].key) => i + 1 = l
          /\ Line[i + 1].orphan =>
                /\ scene[Parent[Line[i + 1].key]] = None
                /\ \A l \in DOMAIN Line :
                      ChildAt(l, Parent[Line[i + 1].key]) /\ ~Line[l].orphan => i + 1 < l
      BY <1>5, <2>2, <3>1 DEF ChildrenInLine
    <3>4. kind = "child" => ChildAt(1, k)
      BY <1>4 DEF ChildAt
    <3>5. scene'[Line[i + 1].key] = None
      BY <1>2, <1>9, <3>1, <3>2, <3>3, <3>4
    <3>6. ASSUME Line[i + 1].orphan PROVE scene'[Parent[Line[i + 1].key]] = None
      <4>1. ~(i + 1 < 1)
        BY <3>1
      <4> QED
        BY <1>2, <1>4, <1>9, <3>2, <3>3, <3>4, <3>6, <4>1
    <3> QED
      BY <3>1, <3>5, <3>6
  <2> QED
    BY <1>5, <2>1, <2>2, LineMovesUp
<1>10. ASSUME \A l \in Keys : scene'[l] = scene[l] \/ (l = k /\ scene'[l] = t)
       PROVE  LoadedTiles' /\ DeadIsNotLive'
  <2>1. LoadedTiles'
    <3> SUFFICES ASSUME NEW i \in DOMAIN loaded', loaded'[i].tile # None
                 PROVE  /\ loaded'[i].tile # scene'[loaded'[i].key]
                        /\ loaded'[i].tile # dead[loaded'[i].key]
                        /\ \A l \in DOMAIN loaded' : loaded'[l].tile = loaded'[i].tile => i = l
                        /\ Paged(loaded'[i]) => live[loaded'[i].key] = loaded'[i].tile
      BY <1>1 DEF LoadedTiles, Paged
    <3> QED
      BY <1>7, <1>10
  <2> QED
    BY <1>1, <1>5, <2>1 DEF DeadIsNotLive
<1>11. KeysStay
  BY <1>1, SameTilesKeysStay
<1>12. CASE scene' = scene /\ todo' = <<>>
  <2>1. ChildrenInLine' /\ LoadedTiles' /\ DeadIsNotLive'
    BY <1>9, <1>10, <1>12
  <2>2. \A l \in Keys : Steady(l)' /\ Buried(l)'
    BY <1>1, <1>5, <1>12 DEF Steady, Buried
  <2> QED
    BY <1>12, <2>1, <2>2 DEF SceneInv, Plan, Resting
<1>13. CASE DropLoaded(j)
  <2>1. /\ scene' = scene
        /\ orphan
        /\ todo' = <<>> \/ (kind = "child" /\ t # None /\ k \notin Leaves /\ todo' = Move(t))
    BY <1>3, <1>13 DEF DropLoaded, sceneVars
  <2>2. CASE kind = "child" /\ t # None /\ todo' = Move(t)
    <3>1. todo' = <<<<"remove", t>>, <<"bury", t>>>>
      BY <2>2 DEF Move
    <3>2. t \in Ids /\ Has(tiles, t, k)
      BY <1>4, <1>6, <2>2
    <3>3. Has(tiles', t, k)
      <4>1. Burying(todo', t)
        BY <3>1, BuryLists
      <4> QED
        BY <1>4, <1>11, <3>2, <4>1, BuryingIsThere
    <3>4. \A i \in DOMAIN loaded' : loaded'[i].tile # t
      BY <1>7, <2>2
    <3>5. ~Awaited(k)'
      BY <1>4, <1>8, <2>2
    <3>6. Leaving(t, k)'
      BY <3>3, <3>4, <3>5 DEF Leaving
    <3>7. k # Root /\ scene[k] = None /\ scene[Parent[k]] = None
      <4>1. k # Root
        BY <1>2, <1>4, <2>2, LineIs
      <4> QED
        BY <1>2, <1>4, <1>5, <2>1, <2>2, <4>1 DEF ChildrenInLine
    <3>8. \A l \in Keys : Steady(l)' /\ Buried(l)'
      BY <1>1, <1>5, <2>1 DEF Steady, Buried
    <3>9. Dropping(t, k)'
      BY <2>1, <3>1, <3>6, <3>7, <3>8 DEF Dropping
    <3>10. ChildrenInLine' /\ LoadedTiles' /\ DeadIsNotLive'
      BY <1>9, <1>10, <2>1
    <3> QED
      BY <1>4, <3>2, <3>9, <3>10 DEF SceneInv, Plan
  <2> QED
    BY <1>12, <2>1, <2>2
<1>14. CASE AddChild(j)
  <2>1. /\ ~orphan /\ kind = "child"
        /\ scene' = scene \/ (t # None /\ scene' = [scene EXCEPT ![k] = t])
        /\ todo' = todo
    BY <1>3, <1>14 DEF AddChild
  <2>2. CASE t # None /\ scene' = [scene EXCEPT ![k] = t]
    <3>1. \A l \in Keys : scene'[l] = IF l = k THEN t ELSE scene[l]
      BY <2>2 DEF Inv, WellFormed
    <3>2. ChildrenInLine'
      BY <1>9, <2>1, <3>1
    <3>3. LoadedTiles' /\ DeadIsNotLive'
      BY <1>10, <3>1
    <3>4. \A l \in Keys : Steady(l)' /\ Buried(l)'
      BY <1>1, <1>5, <1>6, <2>1, <2>2, <3>1 DEF Steady, Buried
    <3> QED
      BY <1>1, <2>1, <3>2, <3>3, <3>4 DEF SceneInv, Plan, Resting
  <2> QED
    BY <1>1, <1>12, <2>1, <2>2
<1>15. CASE ApplyUpdate(j)
  <2>1. /\ ~orphan /\ kind = "update" /\ t # None
        /\ scene' = [scene EXCEPT ![k] = t]
        /\ todo' = Move(scene[k]) \o <<<<"add", t>>>>
    BY <1>3, <1>15 DEF ApplyUpdate
  <2>2. PICK old : old = scene[k]
    OBVIOUS
  <2>3. old \in Ids /\ Has(tiles, old, k) /\ old # t
    <3>1. j \in Range(loaded)
      BY <1>2 DEF Range
    <3>2. scene[k] # None
      BY <1>3, <2>1, <3>1 DEF Inv, WellFormed
    <3> QED
      BY <1>4, <1>6, <2>1, <2>2, <3>2 DEF Inv, WellFormed, Refers
  <2>4. todo' = <<<<"remove", old>>, <<"bury", old>>, <<"add", t>>>>
    <3>1. t \in Ids
      BY <1>4, <2>1
    <3>2. <<"add", t>> \in CallType
      BY <3>1 DEF CallType
    <3> QED
      BY <2>1, <2>2, <2>3, <3>2, MoveThen
  <2>5. \A l \in Keys : scene'[l] = IF l = k THEN t ELSE scene[l]
    BY <2>1 DEF Inv, WellFormed
  <2>6. ChildrenInLine'
    BY <1>9, <2>2, <2>3, <2>5
  <2>7. LoadedTiles' /\ DeadIsNotLive'
    BY <1>10, <2>5
  <2>8. Leaving(old, k)'
    <3>1. Has(tiles', old, k)
      <4>1. Burying(todo', old)
        BY <2>4, BuryLists
      <4> QED
        BY <1>4, <1>11, <2>3, <4>1, BuryingIsThere
    <3>2. ASSUME NEW i \in DOMAIN loaded', loaded'[i].tile = old PROVE FALSE
      <4>1. loaded'[i].tile # None /\ loaded'[i].key \in Keys
            /\ loaded'[i].tile # scene[loaded'[i].key]
        BY <1>7, <2>3, <3>2
      <4>2. loaded'[i].key = k
        <5>1. loaded'[i] \in Range(loaded)
          BY <1>2 DEF Range
        <5> QED
          BY <2>3, <3>2, <4>1, <5>1 DEF Inv, Refers, Has
      <4> QED
        BY <2>2, <3>2, <4>1, <4>2
    <3>3. ASSUME Awaited(k)' PROVE FALSE
      <4>1. PICK i \in DOMAIN Line' : Line'[i].kind = "child" /\ Line'[i].key = k
        BY <3>3 DEF Awaited, ChildAt
      <4>2. scene'[k] = None
        BY <2>6, <4>1 DEF ChildrenInLine
      <4> QED
        BY <1>4, <2>1, <2>5, <4>2
    <3> QED
      BY <3>1, <3>2, <3>3 DEF Leaving
  <2>9. \A l \in Keys : Buried(l)' /\ (l # k => Steady(l)')
    BY <1>1, <1>5, <1>6, <2>1, <2>5 DEF Buried, Steady
  <2>10. Replacing(old, t, k)'
    BY <1>4, <2>3, <2>4, <2>5, <2>8, <2>9 DEF Replacing
  <2> QED
    BY <1>4, <2>1, <2>3, <2>6, <2>7, <2>10 DEF SceneInv, Plan
<1>16. CASE RejectUpdate(j)
  BY <1>1, <1>12, <1>16 DEF RejectUpdate
<1> QED
  BY <1>1, <1>13, <1>14, <1>15, <1>16

-----------------------------------------------------------------------------
(* The main thread's calls                                                 *)

LEMMA SetMapRevisionKeepsScene ==
    ASSUME Inv, SceneInv, todo # <<>>, SetMapRevision PROVE SceneInv'
<1>1. /\ Head(todo)[1] = "setMapRevision"
      /\ todo' = Tail(todo)
      /\ UNCHANGED <<live, dead, scene, pager, loaded>>
  BY DEF SetMapRevision, sceneVars, pagerVars
<1>2. Resting
  <2>1. ASSUME NEW t \in Ids, NEW k \in Keys, Dropping(t, k) PROVE FALSE
    BY <1>1, <2>1 DEF Dropping
  <2>2. ASSUME NEW t \in Ids, NEW u \in Ids, NEW k \in Keys, Replacing(t, u, k) PROVE FALSE
    BY <1>1, <2>2 DEF Replacing
  <2>3. ASSUME NEW top, NEW S, Expiring(top, S) PROVE FALSE
    BY <1>1, <2>3 DEF Expiring, Moving
  <2> QED
    BY <2>1, <2>2, <2>3 DEF SceneInv, Plan
<1>3. todo' = <<>>
  <2>1. PICK n \in Nat : todo = <<<<"setMapRevision", None, n>>>>
    BY <1>2 DEF Resting
  <2> QED
    BY <1>1, <2>1
<1>4. \A l \in Keys : Steady(l)' /\ Buried(l)'
  BY <1>1, <1>2 DEF Resting, Steady, Buried
<1> QED
  BY <1>1, <1>3, <1>4, NothingMoves DEF SceneInv, Plan, Resting

\* The calls that make up a move, wherever it comes from.
LEMMA RemoveLeaving ==
    ASSUME Inv, Inv', SceneInv, todo # <<>>, Remove,
           NEW t \in Ids, NEW k \in Keys,
           Head(todo) = <<"remove", t>>, Leaving(t, k), Burying(todo', t)
    PROVE  /\ ChildrenInLine' /\ LoadedTiles' /\ DeadIsNotLive'
           /\ Leaving(t, k)'
           /\ live'[k] = None
           /\ \A l \in Keys : l # k => live'[l] = live[l]
           /\ scene' = scene /\ dead' = dead
<1>0. Head(todo)[2] = t
  OBVIOUS
<1>1. /\ live' = [live EXCEPT ![tiles[t].key] = None]
      /\ UNCHANGED <<dead, scene, pager, loaded>>
      /\ Keep(tiles)
  BY <1>0 DEF Remove, sceneVars, pagerVars
<1>2. tiles[t].key = k
  BY DEF Leaving, Has
<1>3. \A l \in Keys : live'[l] = IF l = k THEN None ELSE live[l]
  BY <1>1, <1>2 DEF Inv, WellFormed
<1>4. Line' = Line
  BY <1>1 DEF Line
<1>5. ChildrenInLine'
  BY <1>1, <1>4, LineStays DEF SceneInv
<1>6. DeadIsNotLive'
  BY <1>1, <1>3 DEF SceneInv, DeadIsNotLive
<1>7. ASSUME NEW i \in DOMAIN loaded, Paged(loaded[i]) PROVE loaded[i].key \in Keys \ {k}
  <2>1. loaded[i] \in LoadType /\ i \in DOMAIN Line /\ Line[i] = Claim(loaded[i])
    BY LineIs
  <2>2. ChildAt(i, loaded[i].key)
    BY <1>7, <2>1 DEF ChildAt, Claim, Paged
  <2> QED
    BY <2>1, <2>2 DEF Leaving, Awaited, LoadType
<1>8. LoadedTiles'
  <2> SUFFICES ASSUME NEW i \in DOMAIN loaded, loaded[i].tile # None
               PROVE  /\ loaded[i].tile # scene[loaded[i].key]
                      /\ loaded[i].tile # dead[loaded[i].key]
                      /\ \A l \in DOMAIN loaded : loaded[l].tile = loaded[i].tile => i = l
                      /\ Paged(loaded[i]) => live'[loaded[i].key] = loaded[i].tile
    BY <1>1 DEF LoadedTiles, Paged
  <2> QED
    BY <1>3, <1>7 DEF SceneInv, LoadedTiles
<1>9. Leaving(t, k)'
  <2>1. ~Awaited(k)'
    BY <1>4 DEF Leaving, Awaited, ChildAt
  <2>2. \A i \in DOMAIN loaded' : loaded'[i].tile # t
    BY <1>1 DEF Leaving
  <2>3. Has(tiles', t, k)
    BY <1>1, SameTilesKeysStay, BuryingIsThere DEF Leaving
  <2> QED
    BY <2>1, <2>2, <2>3 DEF Leaving
<1> QED
  BY <1>1, <1>3, <1>5, <1>6, <1>8, <1>9

LEMMA BuryLeaving ==
    ASSUME Inv, SceneInv, todo # <<>>, Bury,
           NEW t \in Ids, NEW k \in Keys,
           Head(todo) = <<"bury", t>>, Leaving(t, k), live[k] = None
    PROVE  /\ ChildrenInLine' /\ LoadedTiles' /\ DeadIsNotLive'
           /\ \A l \in Keys : dead'[l] = IF l = k THEN t ELSE dead[l]
           /\ scene' = scene /\ live' = live
<1>0. Head(todo)[2] = t
  OBVIOUS
<1>1. /\ dead' = [dead EXCEPT ![tiles[t].key] = t]
      /\ UNCHANGED <<live, scene, pager, loaded>>
  BY <1>0 DEF Bury, sceneVars, pagerVars
<1>2. tiles[t].key = k
  BY DEF Leaving, Has
<1>3. \A l \in Keys : dead'[l] = IF l = k THEN t ELSE dead[l]
  BY <1>1, <1>2 DEF Inv, WellFormed
<1>4. Line' = Line
  BY <1>1 DEF Line
<1>5. ChildrenInLine'
  BY <1>1, <1>4, LineStays DEF SceneInv
<1>6. DeadIsNotLive'
  BY <1>1, <1>3 DEF SceneInv, DeadIsNotLive
<1>7. \A i \in DOMAIN loaded : loaded[i].tile # t /\ loaded[i].key \in Keys
  BY LineIs DEF Leaving, LoadType
<1>8. LoadedTiles'
  <2> SUFFICES ASSUME NEW i \in DOMAIN loaded, loaded[i].tile # None
               PROVE  /\ loaded[i].tile # scene[loaded[i].key]
                      /\ loaded[i].tile # dead'[loaded[i].key]
                      /\ \A l \in DOMAIN loaded : loaded[l].tile = loaded[i].tile => i = l
                      /\ Paged(loaded[i]) => live[loaded[i].key] = loaded[i].tile
    BY <1>1 DEF LoadedTiles, Paged
  <2> QED
    BY <1>3, <1>7 DEF SceneInv, LoadedTiles
<1> QED
  BY <1>1, <1>3, <1>5, <1>6, <1>8

LEMMA RemoveKeepsScene ==
    ASSUME Inv, Inv', SceneInv, todo # <<>>, Remove PROVE SceneInv'
<1>1. Head(todo)[1] = "remove" /\ todo' = Tail(todo)
  BY DEF Remove
<1>2. ~Resting
  BY <1>1 DEF Resting
<1>3. ASSUME NEW t \in Ids, NEW k \in Keys, Dropping(t, k) PROVE SceneInv'
  <2>1. todo = <<<<"remove", t>>, <<"bury", t>>>> /\ Leaving(t, k)
    BY <1>1, <1>3 DEF Dropping
  <2>2. Head(todo) = <<"remove", t>> /\ todo' = <<<<"bury", t>>>>
    BY <1>1, <2>1
  <2>3. /\ ChildrenInLine' /\ LoadedTiles' /\ DeadIsNotLive'
        /\ Leaving(t, k)' /\ live'[k] = None /\ \A l \in Keys : l # k => live'[l] = live[l]
        /\ scene' = scene /\ dead' = dead
    BY <2>1, <2>2, BuryLists, RemoveLeaving
  <2>4. Dropping(t, k)'
    BY <1>3, <2>2, <2>3 DEF Dropping, Steady, Buried
  <2> QED
    BY <2>3, <2>4 DEF SceneInv, Plan
<1>4. ASSUME NEW t \in Ids, NEW u \in Ids, NEW k \in Keys, Replacing(t, u, k) PROVE SceneInv'
  <2>1. todo = <<<<"remove", t>>, <<"bury", t>>, <<"add", u>>>> /\ Leaving(t, k)
    BY <1>1, <1>4 DEF Replacing
  <2>2. Head(todo) = <<"remove", t>> /\ todo' = <<<<"bury", t>>, <<"add", u>>>>
    BY <1>1, <2>1
  <2>3. /\ ChildrenInLine' /\ LoadedTiles' /\ DeadIsNotLive'
        /\ Leaving(t, k)' /\ live'[k] = None /\ \A l \in Keys : l # k => live'[l] = live[l]
        /\ scene' = scene /\ dead' = dead
    BY <2>1, <2>2, BuryLists, RemoveLeaving
  <2>4. Replacing(t, u, k)'
    BY <1>4, <2>2, <2>3 DEF Replacing, Steady, Buried
  <2> QED
    BY <2>3, <2>4 DEF SceneInv, Plan
<1>5. ASSUME NEW top \in Keys, NEW S \in SUBSET Keys, Expiring(top, S) PROVE SceneInv'
  <2>1. ~(todo = <<<<"expire", S, top>>>>)
    BY <1>1
  <2>2. PICK t \in Ids, k \in Below(top) : Moving(t, k, <<"expire", S, top>>)
    BY <1>5, <2>1 DEF Expiring
  <2>3. k \in Keys
    BY BelowIsClosed
  <2>4. todo = <<<<"remove", t>>, <<"bury", t>>, <<"expire", S, top>>>> /\ Leaving(t, k)
    BY <1>1, <2>2 DEF Moving
  <2>5. Head(todo) = <<"remove", t>> /\ todo' = <<<<"bury", t>>, <<"expire", S, top>>>>
    BY <1>1, <2>4
  <2>6. /\ ChildrenInLine' /\ LoadedTiles' /\ DeadIsNotLive'
        /\ Leaving(t, k)' /\ live'[k] = None /\ \A l \in Keys : l # k => live'[l] = live[l]
        /\ scene' = scene /\ dead' = dead
    BY <2>3, <2>4, <2>5, BuryLists, RemoveLeaving
  <2>7. Moving(t, k, <<"expire", S, top>>)'
    BY <2>2, <2>5, <2>6 DEF Moving
  <2>8. \A l \in Keys \ Below(top) : Steady(l)' /\ Buried(l)'
    BY <1>5, <2>6 DEF Expiring, Steady, Buried
  <2>9. Expiring(top, S)'
    BY <1>5, <2>6, <2>7, <2>8 DEF Expiring
  <2> QED
    BY <2>6, <2>9 DEF SceneInv, Plan
<1> QED
  BY <1>2, <1>3, <1>4, <1>5 DEF SceneInv, Plan

LEMMA BuryKeepsScene ==
    ASSUME Inv, SceneInv, todo # <<>>, Bury PROVE SceneInv'
<1>1. Head(todo)[1] = "bury" /\ todo' = Tail(todo)
  BY DEF Bury
<1>2. ~Resting
  BY <1>1 DEF Resting
<1>3. ASSUME NEW t \in Ids, NEW k \in Keys, Dropping(t, k) PROVE SceneInv'
  <2>1. todo = <<<<"bury", t>>>> /\ Leaving(t, k) /\ live[k] = None
    BY <1>1, <1>3 DEF Dropping
  <2>2. Head(todo) = <<"bury", t>> /\ todo' = <<>>
    BY <1>1, <2>1
  <2>3. /\ ChildrenInLine' /\ LoadedTiles' /\ DeadIsNotLive'
        /\ \A l \in Keys : dead'[l] = IF l = k THEN t ELSE dead[l]
        /\ scene' = scene /\ live' = live
    BY <2>1, <2>2, BuryLeaving
  <2>4. \A l \in Keys : Steady(l)' /\ Buried(l)'
    BY <1>3, <2>3 DEF Dropping, Steady, Buried
  <2> QED
    BY <2>2, <2>3, <2>4 DEF SceneInv, Plan, Resting
<1>4. ASSUME NEW t \in Ids, NEW u \in Ids, NEW k \in Keys, Replacing(t, u, k) PROVE SceneInv'
  <2>1. todo = <<<<"bury", t>>, <<"add", u>>>> /\ Leaving(t, k) /\ live[k] = None
    BY <1>1, <1>4 DEF Replacing
  <2>2. Head(todo) = <<"bury", t>> /\ todo' = <<<<"add", u>>>>
    BY <1>1, <2>1
  <2>3. /\ ChildrenInLine' /\ LoadedTiles' /\ DeadIsNotLive'
        /\ \A l \in Keys : dead'[l] = IF l = k THEN t ELSE dead[l]
        /\ scene' = scene /\ live' = live
    BY <2>1, <2>2, BuryLeaving
  <2>4. Replacing(t, u, k)'
    BY <1>4, <2>2, <2>3 DEF Replacing, Steady, Buried
  <2> QED
    BY <2>3, <2>4 DEF SceneInv, Plan
<1>5. ASSUME NEW top \in Keys, NEW S \in SUBSET Keys, Expiring(top, S) PROVE SceneInv'
  <2>1. ~(todo = <<<<"expire", S, top>>>>)
    BY <1>1
  <2>2. PICK t \in Ids, k \in Below(top) : Moving(t, k, <<"expire", S, top>>)
    BY <1>5, <2>1 DEF Expiring
  <2>3. k \in Keys
    BY BelowIsClosed
  <2>4. todo = <<<<"bury", t>>, <<"expire", S, top>>>> /\ Leaving(t, k) /\ live[k] = None
    BY <1>1, <2>2 DEF Moving
  <2>5. Head(todo) = <<"bury", t>> /\ todo' = <<<<"expire", S, top>>>>
    BY <1>1, <2>4
  <2>6. /\ ChildrenInLine' /\ LoadedTiles' /\ DeadIsNotLive'
        /\ \A l \in Keys : dead'[l] = IF l = k THEN t ELSE dead[l]
        /\ scene' = scene /\ live' = live
    BY <2>3, <2>4, <2>5, BuryLeaving
  <2>7. \A l \in Keys \ Below(top) : Steady(l)' /\ Buried(l)'
    BY <1>5, <2>6 DEF Expiring, Steady, Buried
  <2>8. Expiring(top, S)'
    BY <1>5, <2>5, <2>6, <2>7 DEF Expiring
  <2> QED
    BY <2>6, <2>8 DEF SceneInv, Plan
<1> QED
  BY <1>2, <1>3, <1>4, <1>5 DEF SceneInv, Plan

LEMMA AddKeepsScene ==
    ASSUME Inv, SceneInv, todo # <<>>, Add PROVE SceneInv'
<1>1. /\ Head(todo)[1] = "add"
      /\ live' = [live EXCEPT ![tiles[Head(todo)[2]].key] = Head(todo)[2]]
      /\ todo' = Tail(todo)
      /\ UNCHANGED <<dead, scene, pager, loaded>>
  BY DEF Add, sceneVars, pagerVars
<1>2. ASSUME NEW t \in Ids, NEW k \in Keys, Dropping(t, k) PROVE FALSE
  BY <1>1, <1>2 DEF Dropping
<1>3. ASSUME NEW top, NEW S, Expiring(top, S) PROVE FALSE
  BY <1>1, <1>3 DEF Expiring, Moving
<1>4. ~Resting
  BY <1>1 DEF Resting
<1>5. PICK t \in Ids, u \in Ids, k \in Keys : Replacing(t, u, k)
  BY <1>2, <1>3, <1>4 DEF SceneInv, Plan
<1>6. todo = <<<<"add", u>>>>
  BY <1>1, <1>5 DEF Replacing
<1>7. Head(todo)[2] = u /\ todo' = <<>>
  BY <1>1, <1>6
<1>8. scene[k] = u /\ u # None /\ tiles[u].key = k
  BY <1>5 DEF Replacing, Inv, Refers, Has
<1>9. \A l \in Keys : live'[l] = IF l = k THEN u ELSE live[l]
  BY <1>1, <1>7, <1>8 DEF Inv, WellFormed
<1>10. Line' = Line
  BY <1>1 DEF Line
<1>11. ChildrenInLine'
  BY <1>1, <1>10, LineStays DEF SceneInv
<1>12. DeadIsNotLive'
  BY <1>1, <1>5, <1>8, <1>9 DEF SceneInv, DeadIsNotLive, Replacing, Buried
<1>13. ASSUME NEW i \in DOMAIN loaded, Paged(loaded[i]) PROVE loaded[i].key \in Keys \ {k}
  <2>1. loaded[i] \in LoadType /\ i \in DOMAIN Line /\ Line[i] = Claim(loaded[i])
    BY LineIs
  <2>2. Line[i].kind = "child" /\ Line[i].key = loaded[i].key
    BY <1>13, <2>1 DEF Claim, Paged
  <2>3. scene[loaded[i].key] = None
    BY <2>1, <2>2 DEF SceneInv, ChildrenInLine
  <2> QED
    BY <1>8, <2>1, <2>3 DEF LoadType
<1>14. LoadedTiles'
  <2> SUFFICES ASSUME NEW i \in DOMAIN loaded, loaded[i].tile # None
               PROVE  /\ loaded[i].tile # scene[loaded[i].key]
                      /\ loaded[i].tile # dead[loaded[i].key]
                      /\ \A l \in DOMAIN loaded : loaded[l].tile = loaded[i].tile => i = l
                      /\ Paged(loaded[i]) => live'[loaded[i].key] = loaded[i].tile
    BY <1>1 DEF LoadedTiles, Paged
  <2> QED
    BY <1>9, <1>13 DEF SceneInv, LoadedTiles
<1>15. \A l \in Keys : Steady(l)' /\ Buried(l)'
  BY <1>1, <1>5, <1>8, <1>9 DEF Replacing, Steady, Buried
<1> QED
  BY <1>7, <1>11, <1>12, <1>14, <1>15 DEF SceneInv, Plan, Resting

\* An expire call is at the head only when no move is under way.
LEMMA ExpireIsPlanned ==
    ASSUME Inv, SceneInv, todo # <<>>, Head(todo)[1] = "expire"
    PROVE  \E top \in Keys, S \in SUBSET Keys :
              Expiring(top, S) /\ todo = <<<<"expire", S, top>>>>
<1>1. ~Resting
  BY DEF Resting
<1>2. ASSUME NEW t \in Ids, NEW k \in Keys, Dropping(t, k) PROVE FALSE
  BY <1>2 DEF Dropping
<1>3. ASSUME NEW t \in Ids, NEW u \in Ids, NEW k \in Keys, Replacing(t, u, k) PROVE FALSE
  BY <1>3 DEF Replacing
<1>4. PICK top \in Keys, S \in SUBSET Keys : Expiring(top, S)
  BY <1>1, <1>2, <1>3 DEF SceneInv, Plan
<1>5. todo = <<<<"expire", S, top>>>>
  BY <1>4 DEF Expiring, Moving
<1> QED
  BY <1>4, <1>5

LEMMA CollectKeepsScene ==
    ASSUME Inv, SceneInv, todo # <<>>, Collect PROVE SceneInv'
<1>1. /\ Head(todo)[1] = "expire"
      /\ UNCHANGED <<live, dead, tiles, scene, pager, loaded>>
  BY DEF Collect, registries, sceneVars, pagerVars
<1>2. PICK top \in Keys, S \in SUBSET Keys :
         Expiring(top, S) /\ todo = <<<<"expire", S, top>>>>
  BY <1>1, ExpireIsPlanned
<1>3. Head(todo)[2] = S /\ Head(todo)[3] = top
  BY <1>2
<1>4. PICK k \in S : todo' = Move(scene[k]) \o <<<<"expire", S \ {k}, top>>>>
  BY <1>3 DEF Collect
<1>5. PICK R \in SUBSET Keys : R = S \ {k}
  OBVIOUS
<1>6. PICK t : t = scene[k]
  OBVIOUS
<1>7. k \in Keys /\ k \in Below(top) /\ R \subseteq Below(top)
  BY <1>2, <1>5 DEF Expiring
<1>8. t \in Ids /\ t # None /\ Has(tiles, t, k)
  BY <1>2, <1>6, <1>7 DEF Expiring, Inv, WellFormed, Refers
<1>9. todo' = <<<<"remove", t>>, <<"bury", t>>, <<"expire", R, top>>>>
  BY <1>4, <1>5, <1>6, <1>8, ExpireIsCall, MoveThen
<1>10. Line' = Line
  BY <1>1 DEF Line
<1>11. Leaving(t, k)'
  <2>1. ASSUME NEW i \in DOMAIN loaded, loaded[i].tile = t PROVE FALSE
    <3>1. loaded[i].tile # None /\ loaded[i].tile # scene[loaded[i].key]
      BY <1>8, <2>1 DEF SceneInv, LoadedTiles
    <3>2. loaded[i] \in Range(loaded)
      BY DEF Range
    <3>3. loaded[i].key = k
      BY <1>8, <2>1, <3>2 DEF Inv, Refers, Has
    <3> QED
      BY <1>6, <2>1, <3>1, <3>3
  <2>2. ASSUME Awaited(k) PROVE FALSE
    BY <1>6, <1>8, <2>2 DEF SceneInv, ChildrenInLine, Awaited, ChildAt
  <2>3. ~Awaited(k)'
    BY <1>10, <2>2 DEF Awaited, ChildAt
  <2> QED
    BY <1>1, <1>8, <2>1, <2>3 DEF Leaving, Has
<1>12. Moving(t, k, <<"expire", R, top>>)'
  BY <1>1, <1>6, <1>9, <1>11 DEF Moving
<1>13. /\ \A l \in Keys \ Below(top) : Steady(l)' /\ Buried(l)'
       /\ top # Root
       /\ scene'[top] # None
       /\ \A l \in R : scene'[l] # None
  BY <1>1, <1>2, <1>5 DEF Expiring, Steady, Buried
<1>14. Expiring(top, R)'
  BY <1>7, <1>8, <1>12, <1>13 DEF Expiring
<1> QED
  BY <1>1, <1>14, NothingMoves DEF SceneInv, Plan

LEMMA CutKeepsScene ==
    ASSUME Inv, SceneInv, todo # <<>>, Cut PROVE SceneInv'
<1>1. Head(todo)[1] = "expire" /\ Head(todo)[2] = {}
  BY DEF Cut
<1>2. PICK top \in Keys, S \in SUBSET Keys :
         Expiring(top, S) /\ todo = <<<<"expire", S, top>>>>
  BY <1>1, ExpireIsPlanned
<1>3. Head(todo)[3] = top
  BY <1>2
<1>4. PICK gone : gone = Below(top)
  OBVIOUS
<1>5. /\ scene' = [c \in Keys |-> IF c \in gone THEN None ELSE scene[c]]
      /\ pager' = IF pager = Idle THEN Idle ELSE Orphaned(pager, gone)
      /\ loaded' = [i \in DOMAIN loaded |-> Orphaned(loaded[i], gone)]
      /\ todo' = <<>>
      /\ UNCHANGED <<live, dead>>
  BY <1>3, <1>4 DEF Cut, asked, registries
<1>6. /\ gone \subseteq Keys
      /\ \A c \in gone : c # top /\ c # Root => Parent[c] \in gone
      /\ scene[top] # None
  BY <1>2, <1>4, BelowIsClosed DEF Expiring
<1>7. ASSUME NEW j, j \in LoadType \union BuildType
      PROVE  /\ Claim(Orphaned(j, gone)) = Orphaned(Claim(j), gone)
             /\ j \in LoadType => Orphaned(j, gone) \in LoadType /\ Orphaned(j, gone).tile = j.tile
             /\ j \in BuildType => Orphaned(j, gone).at = j.at
             /\ Orphaned(j, gone).key = j.key /\ Orphaned(j, gone).kind = j.kind
  BY <1>7 DEF Claim, Orphaned, LoadType, BuildType
<1>8. pager' = Idle <=> pager = Idle
  <2>1. pager # Idle => pager.at # Idle.at /\ pager \in BuildType
    BY LineIs DEF BuildType, Idle
  <2>2. pager # Idle => pager'.at # Idle.at
    BY <1>5, <1>7, <2>1
  <2> QED
    BY <1>5, <2>2
<1>9. /\ Len(loaded) \in Nat
      /\ DOMAIN loaded = 1 .. Len(loaded)
      /\ DOMAIN loaded' = DOMAIN loaded
      /\ Len(loaded') = Len(loaded)
      /\ \A i \in DOMAIN loaded : loaded[i] \in LoadType /\ loaded'[i] = Orphaned(loaded[i], gone)
  <2>1. /\ Len(loaded) \in Nat
        /\ DOMAIN loaded = 1 .. Len(loaded)
        /\ \A i \in DOMAIN loaded : loaded[i] \in LoadType /\ loaded'[i] = Orphaned(loaded[i], gone)
    BY <1>5, LineIs
  <2>2. loaded' \in [1 .. Len(loaded) -> LoadType]
    BY <1>5, <1>7, <2>1
  <2>3. loaded' \in Seq(LoadType)
    BY <2>1, <2>2, SeqDef
  <2> QED
    BY <2>1, <2>2, <2>3, LenProperties
<1>10. DOMAIN Line' = DOMAIN Line /\ \A i \in DOMAIN Line : Line'[i] = Orphaned(Line[i], gone)
  <2>1. DOMAIN Line' = DOMAIN Line
    BY <1>8, <1>9 DEF Line
  <2>2. ASSUME NEW i \in DOMAIN Line PROVE Line'[i] = Orphaned(Line[i], gone)
    <3>1. /\ Line[i] = Claim(IF i <= Len(loaded) THEN loaded[i] ELSE pager)
          /\ Line'[i] = Claim(IF i <= Len(loaded) THEN loaded'[i] ELSE pager')
      BY <1>9, <2>1 DEF Line
    <3>2. CASE i \in DOMAIN loaded
      <4>1. i <= Len(loaded) /\ loaded[i] \in LoadType /\ loaded'[i] = Orphaned(loaded[i], gone)
        BY <1>9, <3>2
      <4> QED
        BY <1>7, <3>1, <4>1
    <3>3. CASE pager # Idle /\ i = Len(loaded) + 1
      <4>1. ~(i <= Len(loaded)) /\ pager \in BuildType /\ pager' = Orphaned(pager, gone)
        BY <1>5, <1>9, <3>3, LineIs
      <4> QED
        BY <1>7, <3>1, <4>1
    <3> QED
      BY <3>2, <3>3, LineIs
  <2> QED
    BY <2>1, <2>2
<1>11. ASSUME NEW i \in DOMAIN Line
       PROVE  /\ Line'[i].kind = Line[i].kind /\ Line'[i].key = Line[i].key
              /\ Line[i].key \in Keys
              /\ Line[i].kind = "child" => Line[i].key # Root
              /\ Line'[i].orphan <=> Line[i].orphan \/ Line[i].key \in gone
  <2>1. /\ Line[i].key \in Keys
        /\ Line[i].orphan \in BOOLEAN
        /\ Line[i].kind = "child" => Line[i].key # Root
    BY LineIs
  <2>2. PICK x : Line[i] = Claim(x)
    BY LineIs
  <2>3. PICK a, b, c : Line[i] = [key |-> a, kind |-> b, orphan |-> c]
    BY <2>2 DEF Claim
  <2>4. /\ Line[i].key = a /\ Line[i].kind = b /\ Line[i].orphan = c
        /\ [Line[i] EXCEPT !.orphan = TRUE].key = a
        /\ [Line[i] EXCEPT !.orphan = TRUE].kind = b
        /\ [Line[i] EXCEPT !.orphan = TRUE].orphan = TRUE
    BY <2>3
  <2>5. Line'[i] = IF Line[i].key \in gone THEN [Line[i] EXCEPT !.orphan = TRUE] ELSE Line[i]
    BY <1>10 DEF Orphaned
  <2>6. CASE Line[i].key \in gone
    BY <2>1, <2>4, <2>5, <2>6
  <2>7. CASE Line[i].key \notin gone
    BY <2>1, <2>4, <2>5, <2>7
  <2> QED
    BY <2>6, <2>7
<1>12. ChildrenInLine'
  <2> SUFFICES ASSUME NEW i \in DOMAIN Line, Line[i].kind = "child"
               PROVE  /\ scene'[Line[i].key] = None
                      /\ \A j \in DOMAIN Line : ChildAt(j, Line[i].key) => i = j
                      /\ Line'[i].orphan =>
                            /\ scene'[Parent[Line[i].key]] = None
                            /\ \A j \in DOMAIN Line :
                                  ChildAt(j, Parent[Line[i].key]) /\ ~Line'[j].orphan => i < j
    BY <1>10, <1>11 DEF ChildrenInLine, ChildAt
  <2>1. /\ scene[Line[i].key] = None
        /\ \A j \in DOMAIN Line : ChildAt(j, Line[i].key) => i = j
        /\ Line[i].orphan =>
              /\ scene[Parent[Line[i].key]] = None
              /\ \A j \in DOMAIN Line :
                    ChildAt(j, Parent[Line[i].key]) /\ ~Line[j].orphan => i < j
    BY DEF SceneInv, ChildrenInLine
  <2>2. Line[i].key \in Keys \ {Root} /\ Parent[Line[i].key] \in Keys
    BY <1>11
  <2>3. CASE Line[i].key \in gone
    <3>1. Parent[Line[i].key] \in gone
      BY <1>6, <2>1, <2>2, <2>3
    <3>2. scene'[Parent[Line[i].key]] = None
      BY <1>5, <2>2, <3>1
    <3>3. \A j \in DOMAIN Line : ChildAt(j, Parent[Line[i].key]) => Line'[j].orphan
      BY <1>11, <3>1 DEF ChildAt
    <3> QED
      BY <1>5, <2>1, <2>2, <3>2, <3>3
  <2>4. CASE Line[i].key \notin gone
    <3>1. Line'[i].orphan => Line[i].orphan
      BY <1>11, <2>4
    <3>2. \A j \in DOMAIN Line : Line[j].orphan => Line'[j].orphan
      BY <1>11
    <3> QED
      BY <1>5, <2>1, <2>2, <3>1, <3>2
  <2> QED
    BY <2>3, <2>4
<1>13. ASSUME NEW i \in DOMAIN loaded
       PROVE  /\ loaded'[i].tile = loaded[i].tile
              /\ loaded'[i].key = loaded[i].key
              /\ loaded[i].key \in Keys
              /\ Paged(loaded'[i]) <=> Paged(loaded[i])
  BY <1>7, <1>9 DEF Paged, LoadType
<1>14. LoadedTiles'
  <2> SUFFICES ASSUME NEW i \in DOMAIN loaded, loaded[i].tile # None
               PROVE  /\ loaded[i].tile # scene'[loaded[i].key]
                      /\ loaded[i].tile # dead[loaded[i].key]
                      /\ \A j \in DOMAIN loaded : loaded[j].tile = loaded[i].tile => i = j
                      /\ Paged(loaded[i]) => live[loaded[i].key] = loaded[i].tile
    BY <1>5, <1>9, <1>13 DEF LoadedTiles, Paged
  <2> QED
    BY <1>5, <1>13 DEF SceneInv, LoadedTiles
<1>15. DeadIsNotLive'
  BY <1>5 DEF SceneInv, DeadIsNotLive
<1>16. \A l \in Keys : Steady(l)' /\ Buried(l)'
  BY <1>2, <1>4, <1>5 DEF Expiring, Steady, Buried
<1> QED
  BY <1>5, <1>12, <1>14, <1>15, <1>16 DEF SceneInv, Plan, Resting

LEMMA InitIsSceneInv == Init => SceneInv
<1> SUFFICES ASSUME Init PROVE SceneInv
  OBVIOUS
<1>1. Inv
  BY InitIsInv
<1>2. /\ pager = Idle /\ loaded = <<>> /\ todo = <<>>
      /\ dead = [k \in Keys |-> None]
      /\ live = scene
  BY DEF Init
<1>3. Len(loaded) = 0 /\ DOMAIN loaded = {}
  BY <1>2
<1>4. DOMAIN Line = {}
  <2>1. DOMAIN Line = 1 .. 0
    BY <1>1, <1>2, <1>3, LineIs
  <2> QED
    BY <2>1
<1>5. ChildrenInLine /\ LoadedTiles
  BY <1>3, <1>4 DEF ChildrenInLine, LoadedTiles
<1>6. DeadIsNotLive /\ \A k \in Keys : Steady(k) /\ Buried(k)
  BY <1>2 DEF DeadIsNotLive, Steady, Buried
<1> QED
  BY <1>2, <1>5, <1>6 DEF SceneInv, Plan, Resting

LEMMA NextKeepsSceneInv == Inv /\ Inv' /\ SceneInv /\ [Next]_vars => SceneInv'
<1> SUFFICES ASSUME Inv, Inv', SceneInv, [Next]_vars PROVE SceneInv'
  OBVIOUS
<1>1. CASE ChangeMap
  BY <1>1, ChangeMapKeepsScene
<1>2. ASSUME NEW region \in SUBSET Keys, Invalidate(region) PROVE SceneInv'
  BY <1>2, InvalidateKeepsScene
<1>3. ASSUME NEW k \in Keys, Cull(k) \/ Expire(k) \/ \E kind \in Kinds : Begin(k, kind)
      PROVE  SceneInv'
  BY <1>3, CullKeepsScene, ExpireKeepsScene, BeginKeepsScene
<1>4. CASE Merge
  BY <1>4, MergeKeepsScene
<1>5. CASE MainCall
  BY <1>5, SetMapRevisionKeepsScene, RemoveKeepsScene, BuryKeepsScene, AddKeepsScene,
     CollectKeepsScene, CutKeepsScene
  DEF MainCall
<1>6. CASE Build
  BY <1>6, LookUpParentKeepsScene, MakeKeepsScene, MakeNothingKeepsScene DEF Build
<1>7. CASE Cancel
  BY <1>7, CancelKeepsScene
<1>8. CASE Release
  BY <1>8, ReleaseKeepsScene
<1>9. CASE UNCHANGED vars
  <2>1. UNCHANGED <<live, dead, tiles, scene, pager, loaded, todo>>
    BY <1>9 DEF vars, registries, sceneVars, pagerVars
  <2>2. ChildrenInLine' /\ LoadedTiles' /\ DeadIsNotLive'
    BY <2>1, NothingMoves
  <2>3. KeysStay
    BY <2>1, SameTilesKeysStay
  <2>4. \A k \in Keys : Awaited(k)' => Awaited(k)
    BY <2>1 DEF Awaited, ChildAt, Line
  <2>5. Plan'
    BY <2>1, <2>3, <2>4, PlanStays DEF SceneInv
  <2> QED
    BY <2>2, <2>5 DEF SceneInv
<1> QED
  BY <1>1, <1>2, <1>3, <1>4, <1>5, <1>6, <1>7, <1>8, <1>9 DEF Next

LEMMA AlwaysSceneInv == Spec => []SceneInv
<1> QED
  BY AlwaysInv, InitIsSceneInv, NextKeepsSceneInv, PTL DEF Spec

\* Between two calls of the main thread the live registry holds the tile that
\* the scene has at each key, in whatever order quads of any tree are loaded,
\* replaced, expired, and loaded again while they wait to be merged.
THEOREM SceneIsLiveHolds == Spec => []SceneIsLive
<1>1. SceneInv => SceneIsLive
  BY SceneInvImplies
<1> QED
  BY <1>1, AlwaysSceneInv, PTL

\* What the draw thread may release is in neither the scene nor the live
\* registry while the main thread is between two calls.
THEOREM DeadIsOutHolds == Spec => []DeadIsOut
<1>1. SceneInv => DeadIsOut
  BY SceneInvImplies
<1> QED
  BY <1>1, AlwaysSceneInv, PTL

=============================================================================
