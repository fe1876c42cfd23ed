--------------------------- MODULE MapModel_proof ---------------------------
(***************************************************************************)
(* A frame is a snapshot of the map, the engine's frame follows it, and    *)
(* frames implement Snapshots: for any layers, readers and frames, however *)
(* the readers share them, and for any number of changes.                  *)
(***************************************************************************)
EXTENDS MapModel, SequenceTheorems, TLAPS

USE MapAssumptions

-----------------------------------------------------------------------------
(* Lists of layers                                                         *)

LEMMA RemovedType ==
    ASSUME NEW S, NEW s \in Seq(S), NEW x \in ToSet(s)
    PROVE  Without(s, x) \in Seq(S) /\ Len(Without(s, x)) = Len(s) - 1
<1>1. PICK i \in DOMAIN s : Without(s, x) = RemoveAt(s, i)
  BY DEF Without, ToSet
<1>2. i \in 1 .. Len(s) /\ Len(s) \in Nat
  OBVIOUS
<1> DEFINE a == SubSeq(s, 1, i - 1)
           b == SubSeq(s, i + 1, Len(s))
<1>3. a \in Seq(S) /\ Len(a) = i - 1
  BY <1>2, SubSeqProperties
<1>4. b \in Seq(S) /\ Len(b) = Len(s) - i
  <2>1. i + 1 \in 1 .. Len(s) + 1 /\ Len(s) \in i .. Len(s)
    BY <1>2
  <2> QED
    BY <2>1, SubSeqProperties
<1>5. Without(s, x) = a \o b
  BY <1>1 DEF RemoveAt
<1> HIDE DEF a, b
<1>6. a \o b \in Seq(S) /\ Len(a \o b) = (i - 1) + (Len(s) - i)
  BY <1>3, <1>4, ConcatProperties
<1> QED
  BY <1>2, <1>5, <1>6

LEMMA InsertedType ==
    ASSUME NEW S, NEW s \in Seq(S), NEW x \in S, NEW i \in 1 .. Len(s) + 1
    PROVE  InsertAt(s, i, x) \in Seq(S)
<1> DEFINE a == SubSeq(s, 1, i - 1)
           b == SubSeq(s, i, Len(s))
<1>1. a \in Seq(S) /\ b \in Seq(S)
  BY SubSeqProperties
<1>2. <<x>> \in Seq(S)
  OBVIOUS
<1> HIDE DEF a, b
<1>3. a \o <<x>> \in Seq(S)
  BY <1>1, <1>2, ConcatProperties
<1>4. (a \o <<x>>) \o b \in Seq(S)
  BY <1>1, <1>3, ConcatProperties
<1> QED
  BY <1>4 DEF InsertAt, a, b

-----------------------------------------------------------------------------
(* The inductive invariant                                                 *)

Working == {"check", "lock", "clear", "fill"}

\* No frame is ahead of the map.
HeldIsPast == \A f \in Frames : held[f] <= revision

\* At most one thread syncs a frame.
OneSyncs ==
    \A t, u \in Threads :
        FrameOf(t) = FrameOf(u) /\ pc[t] \in Working /\ pc[u] \in Working => t = u

\* What a copy has behind it is as in the map, and the part it is at is empty.
CopyIsRight ==
    \A t \in Threads : pc[t] \in {"clear", "fill"} =>
        /\ left[t] \subseteq Scope[FrameOf(t)]
        /\ \A p \in Scope[FrameOf(t)] \ left[t] : lists[FrameOf(t)][p] = layers[p]
        /\ pc[t] = "fill" => left[t] # {} /\ lists[FrameOf(t)][PartOf(t)] = <<>>

Safe ==
    /\ TypeOK
    /\ HeldIsPast
    /\ OneSyncs
    /\ CopyIsRight
    /\ FrameIsSnapshot
    /\ EngineSeesTheMap

Lists == [TerrainLayers -> Seq(Layers)] \union [MaskedTerrainLayers -> Seq(Layers)]

LEMMA ListsType ==
    ASSUME NEW f \in Frames, NEW x \in [Scope[f] -> Seq(Layers)] PROVE x \in Lists
BY DEF Lists, Scope

LEMMA Named ==
    /\ Engine \in Frames
    /\ App \in Threads
    /\ \A t \in Threads : FrameOf(t) \in Frames
    /\ \A t \in Threads : FrameOf(t) = Engine <=> t = App
    /\ \A f \in Frames : Scope[f] \subseteq Parts
BY DEF Frames, Threads, FrameOf, Scope, Parts, MaskedTerrainLayers, TerrainLayers

-----------------------------------------------------------------------------
(* Changes of the map                                                      *)

\* What every call of the application does.
Effect ==
    /\ NoneCopies
    /\ pc[App] = "idle"
    /\ UNCHANGED <<listening, lists, held, left>>
    /\ layers' \in [Parts -> Seq(Layers)]
    /\ hooked' \subseteq Stock["elevation"]
    /\ pc' = pc \/ pc' = [pc EXCEPT ![App] = "check"]
    /\ revision' = revision + 1 \/ UNCHANGED <<layers, revision>>
    /\ listening => pc'[App] = "check" \/ layers' = layers

LEMMA TellingEffect ==
    ASSUME TypeOK, pc[App] = "idle", TellCallbacks
    PROVE  /\ pc' = pc \/ pc' = [pc EXCEPT ![App] = "check"]
           /\ listening => pc'[App] = "check"
BY Named DEF TypeOK, TellCallbacks, Goto

LEMMA AppCallEffect == ASSUME TypeOK, AppCall PROVE Effect
<1>0. /\ layers \in [Parts -> Seq(Layers)]
      /\ hooked \subseteq Stock["elevation"]
      /\ "elevation" \in Parts
      /\ \A p \in Parts : Stock[p] \subseteq Layers
  BY DEF TypeOK, Layers, Parts
<1>1. ASSUME NEW p \in Parts, NEW x \in Stock[p], AddLayer(p, x) PROVE Effect
  <2>1. layers' \in [Parts -> Seq(Layers)]
    BY <1>0, <1>1 DEF AddLayer, Change
  <2> QED
    BY <1>0, <1>1, <2>1, TellingEffect DEF AddLayer, Change, AppIsFree, frameVars, Effect
<1>2. ASSUME NEW p \in Parts, NEW x \in Stock[p], NEW i \in 0 .. MaxLayers,
             InsertLayer(p, x, i)
      PROVE  Effect
  <2>1. layers[p] \in Seq(Layers) /\ x \in Layers
    BY <1>0
  <2>2. CASE i >= Len(layers[p])
    <3>1. layers' = [layers EXCEPT ![p] = Append(@, x)]
      BY <1>0, <1>2, <2>2 DEF InsertLayer, Change
    <3>2. layers' \in [Parts -> Seq(Layers)]
      BY <1>0, <2>1, <3>1
    <3> QED
      BY <1>0, <1>2, <3>2, TellingEffect
      DEF InsertLayer, Change, AppIsFree, frameVars, Effect
  <2>3. CASE i < Len(layers[p])
    <3>1. layers' = [layers EXCEPT ![p] = InsertAt(@, i + 1, x)]
      <4>1. ~(i >= Len(layers[p]))
        BY <2>1, <2>3
      <4> QED
        BY <1>2, <4>1 DEF InsertLayer, Change
    <3>2. i + 1 \in 1 .. Len(layers[p]) + 1
      BY <2>1, <2>3
    <3>3. InsertAt(layers[p], i + 1, x) \in Seq(Layers)
      BY <2>1, <3>2, InsertedType
    <3>4. layers' \in [Parts -> Seq(Layers)]
      BY <1>0, <3>1, <3>3
    <3> QED
      BY <1>0, <1>2, <3>4, TellingEffect
      DEF InsertLayer, Change, AppIsFree, frameVars, Effect
  <2> QED
    BY <2>1, <2>2, <2>3
<1>3. ASSUME NEW p \in Parts, NEW x \in Stock[p], RemoveLayer(p, x) PROVE Effect
  <2>1. layers[p] \in Seq(Layers) /\ x \in ToSet(layers[p])
    BY <1>0, <1>3 DEF RemoveLayer
  <2>2. Without(layers[p], x) \in Seq(Layers)
    BY <2>1, RemovedType
  <2>3. layers' \in [Parts -> Seq(Layers)]
    BY <1>0, <1>3, <2>2 DEF RemoveLayer, Change
  <2> QED
    BY <1>0, <1>3, <2>3, TellingEffect
    DEF RemoveLayer, Change, AppIsFree, frameVars, Effect
<1>4. ASSUME NEW p \in Parts, NEW x \in Stock[p], RemoveUnknown(p, x) PROVE Effect
  BY <1>0, <1>4, TellingEffect DEF RemoveUnknown, AppIsFree, frameVars, Effect
<1>5. ASSUME NEW p \in Parts, NEW x \in Stock[p], NEW i \in 0 .. MaxLayers,
             MoveLayer(p, x, i)
      PROVE  Effect
  <2>1. layers[p] \in Seq(Layers) /\ x \in ToSet(layers[p]) /\ x \in Layers
        /\ i < Len(layers[p])
    BY <1>0, <1>5 DEF MoveLayer
  <2>2. Without(layers[p], x) \in Seq(Layers)
        /\ Len(Without(layers[p], x)) = Len(layers[p]) - 1
    BY <2>1, RemovedType
  <2>3. i + 1 \in 1 .. Len(Without(layers[p], x)) + 1
    BY <2>1, <2>2
  <2>4. InsertAt(Without(layers[p], x), i + 1, x) \in Seq(Layers)
    BY <2>1, <2>2, <2>3, InsertedType
  <2>5. layers' \in [Parts -> Seq(Layers)]
    BY <1>0, <1>5, <2>4 DEF MoveLayer, Change
  <2> QED
    BY <1>0, <1>5, <2>5, TellingEffect
    DEF MoveLayer, Change, AppIsFree, frameVars, Effect
<1>6. ASSUME NEW x \in Stock["elevation"], ToggleElevation(x) PROVE Effect
  BY <1>0, <1>6, TellingEffect
  DEF ToggleElevation, Change, AppIsFree, frameVars, Effect
<1>7. CASE Clear
  <2>1. layers' = [p \in Parts |-> IF p = "mask" THEN layers[p] ELSE <<>>]
    BY <1>7 DEF Clear, Change
  <2>2. layers' \in [Parts -> Seq(Layers)]
    BY <1>0, <2>1
  <2>3. CASE \A p \in Parts \ {"mask"} : layers[p] = <<>>
    <3>1. layers' = layers
      BY <1>0, <2>1, <2>3
    <3> QED
      BY <1>0, <1>7, <2>2, <2>3, <3>1 DEF Clear, Change, AppIsFree, frameVars, Effect
  <2>4. CASE ~ \A p \in Parts \ {"mask"} : layers[p] = <<>>
    BY <1>0, <1>7, <2>2, <2>4, TellingEffect
    DEF Clear, Change, AppIsFree, frameVars, Effect
  <2> QED
    BY <2>3, <2>4
<1> QED
  BY <1>1, <1>2, <1>3, <1>4, <1>5, <1>6, <1>7 DEF AppCall

LEMMA AppCallSafe == ASSUME Safe, AppCall PROVE Safe'
<1>0. Effect /\ TypeOK
  BY AppCallEffect DEF Safe
<1>1. /\ \A t \in Threads : pc[t] \notin {"clear", "fill"}
      /\ \A t \in Threads : t # App => pc'[t] = pc[t]
      /\ pc'[App] \in {"idle", "check"}
      /\ pc' \in [Threads -> Pcs]
  BY <1>0, Named DEF Effect, NoneCopies, TypeOK, Pcs
<1>2. TypeOK'
  BY <1>0, <1>1 DEF Effect, TypeOK
<1>3. HeldIsPast'
  <2>1. \A f \in Frames : held[f] \in Int /\ held[f] <= revision
    BY <1>0 DEF Safe, HeldIsPast, TypeOK
  <2> QED
    BY <1>0, <2>1 DEF Effect, HeldIsPast, TypeOK
<1>4. OneSyncs'
  <2> SUFFICES ASSUME NEW t \in Threads, NEW u \in Threads, FrameOf(t) = FrameOf(u),
                      pc'[t] \in Working, pc'[u] \in Working
               PROVE  t = u
    BY DEF OneSyncs, FrameOf
  <2>1. CASE t = App \/ u = App
    BY <2>1, Named
  <2>2. CASE t # App /\ u # App
    BY <2>2, <1>1 DEF Safe, OneSyncs
  <2> QED
    BY <2>1, <2>2
<1>5. CopyIsRight'
  BY <1>1 DEF CopyIsRight
<1>6. FrameIsSnapshot'
  <2> SUFFICES ASSUME NEW f \in Frames, held'[f] = revision' PROVE Agrees(f)'
    BY DEF FrameIsSnapshot
  <2>1. held[f] \in Int /\ held[f] <= revision /\ revision \in Int
    BY <1>0 DEF Safe, HeldIsPast, TypeOK
  <2>2. UNCHANGED <<layers, revision, held, lists>>
    BY <1>0, <2>1 DEF Effect
  <2>3. ~BeingCopied(f)
    BY <1>1 DEF BeingCopied
  <2>4. Agrees(f)
    BY <2>2, <2>3 DEF Safe, FrameIsSnapshot
  <2> QED
    BY <2>2, <2>4 DEF Agrees
<1>7. EngineSeesTheMap'
  <2> SUFFICES ASSUME listening', pc'[App] = "idle" PROVE Agrees(Engine)'
    BY DEF EngineSeesTheMap
  <2>1. layers' = layers /\ lists' = lists /\ listening /\ pc[App] = "idle"
    BY <1>0 DEF Effect
  <2>2. Agrees(Engine)
    BY <2>1 DEF Safe, EngineSeesTheMap
  <2> QED
    BY <2>1, <2>2 DEF Agrees
<1> QED
  BY <1>2, <1>3, <1>4, <1>5, <1>6, <1>7 DEF Safe

-----------------------------------------------------------------------------
(* Steps of a sync                                                         *)

\* What a step that only moves t on leaves alone.
LEMMA MovedSafe ==
    ASSUME Safe, NEW t \in Threads, NEW where \in Pcs, Goto(t, where),
           pc[t] \notin {"clear", "fill"}, where \notin {"clear", "fill"},
           where \in Working => pc[t] \in Working
             \/ \A u \in Threads : FrameOf(u) = FrameOf(t) => pc[u] \notin Working,
           UNCHANGED <<layers, revision, hooked, lists, held, left>>,
           listening' \in BOOLEAN,
           listening' /\ pc'[App] = "idle" => Agrees(Engine)
    PROVE  Safe'
<1>0. /\ TypeOK
      /\ pc'[t] = where
      /\ \A u \in Threads : u # t => pc'[u] = pc[u]
      /\ pc' \in [Threads -> Pcs]
  BY DEF Safe, TypeOK, Goto
<1>1. TypeOK'
  BY <1>0 DEF TypeOK
<1>2. HeldIsPast'
  BY DEF Safe, HeldIsPast
<1>3. OneSyncs'
  <2> SUFFICES ASSUME NEW u \in Threads, NEW v \in Threads, FrameOf(u) = FrameOf(v),
                      pc'[u] \in Working, pc'[v] \in Working
               PROVE  u = v
    BY DEF OneSyncs, FrameOf
  <2> QED
    BY <1>0 DEF Safe, OneSyncs
<1>4. \A u \in Threads : pc'[u] \in {"clear", "fill"} <=> pc[u] \in {"clear", "fill"}
  BY <1>0
<1>5. CopyIsRight'
  <2> SUFFICES ASSUME NEW u \in Threads, pc'[u] \in {"clear", "fill"}
               PROVE  /\ left[u] \subseteq Scope[FrameOf(u)]
                      /\ \A p \in Scope[FrameOf(u)] \ left[u] :
                            lists[FrameOf(u)][p] = layers[p]
                      /\ pc'[u] = "fill" => left[u] # {} /\ lists[FrameOf(u)][PartOf(u)] = <<>>
    BY DEF CopyIsRight, FrameOf, PartOf
  <2>1. u # t /\ pc'[u] = pc[u]
    BY <1>0
  <2> QED
    BY <2>1 DEF Safe, CopyIsRight
<1>6. FrameIsSnapshot'
  <2> SUFFICES ASSUME NEW f \in Frames, ~BeingCopied(f)', held[f] = revision
               PROVE  Agrees(f)'
    BY DEF FrameIsSnapshot
  <2>1. ~BeingCopied(f)
    BY <1>4 DEF BeingCopied, FrameOf
  <2>2. Agrees(f)
    BY <2>1 DEF Safe, FrameIsSnapshot
  <2> QED
    BY <2>2 DEF Agrees
<1>7. EngineSeesTheMap'
  BY DEF EngineSeesTheMap, Agrees
<1> QED
  BY <1>1, <1>2, <1>3, <1>5, <1>6, <1>7 DEF Safe

LEMMA WantSyncSafe == ASSUME Safe, NEW t \in Readers, WantSync(t) PROVE Safe'
<1>1. t \in Threads /\ t # App /\ pc'[App] = pc[App]
  BY DEF Threads, WantSync, Goto, Safe, TypeOK
<1>2. listening' \in BOOLEAN /\ (listening' /\ pc'[App] = "idle" => Agrees(Engine))
  BY <1>1 DEF WantSync, mapVars, Safe, TypeOK, EngineSeesTheMap
<1> QED
  BY <1>1, <1>2, MovedSafe DEF WantSync, mapVars, frameVars, Working, Pcs

LEMMA ExclusiveSafe == ASSUME Safe, NEW t \in Readers, Exclusive(t) PROVE Safe'
<1>1. t \in Threads /\ t # App /\ pc'[App] = pc[App]
  BY DEF Threads, Exclusive, Goto, Safe, TypeOK
<1>2. listening' \in BOOLEAN /\ (listening' /\ pc'[App] = "idle" => Agrees(Engine))
  BY <1>1 DEF Exclusive, mapVars, Safe, TypeOK, EngineSeesTheMap
<1>3. ASSUME NEW u \in Threads, FrameOf(u) = FrameOf(t) PROVE pc[u] \notin Working
  <2>1. u \in Readers
    BY <1>1, <1>3, Named DEF Threads
  <2> QED
    BY <1>3, <2>1 DEF Exclusive, Working
<1> QED
  BY <1>1, <1>2, <1>3, MovedSafe DEF Exclusive, mapVars, frameVars, Pcs

LEMMA InstallEngineSafe == ASSUME Safe, InstallEngine PROVE Safe'
<1>1. pc'[App] = "check"
  BY Named DEF InstallEngine, Goto, Safe, TypeOK
<1>2. \A u \in Threads : FrameOf(u) = FrameOf(App) => pc[u] \notin Working
  BY Named DEF InstallEngine, Working
<1> QED
  BY <1>1, <1>2, Named, MovedSafe
  DEF InstallEngine, mapVars, frameVars, Pcs, Safe, TypeOK

LEMMA CheckSafe == ASSUME Safe, NEW t \in Threads, Check(t) PROVE Safe'
<1>1. pc \in [Threads -> Pcs] /\ listening \in BOOLEAN /\ FrameOf(t) \in Frames
  BY Named DEF Safe, TypeOK
<1>2. CASE Stale(FrameOf(t))
  <2>1. Goto(t, "lock") /\ UNCHANGED <<mapVars, frameVars, left>>
    BY <1>2 DEF Check, mapVars
  <2>2. pc'[App] = "idle" => pc[App] = "idle"
    BY <1>1, <2>1, Named DEF Goto
  <2>3. listening' /\ pc'[App] = "idle" => Agrees(Engine)
    BY <2>1, <2>2 DEF mapVars, Safe, EngineSeesTheMap
  <2> QED
    BY <1>1, <2>1, <2>3, MovedSafe DEF Check, mapVars, frameVars, Working, Pcs
<1>3. CASE ~Stale(FrameOf(t))
  <2>1. /\ Goto(t, "idle")
        /\ listening' = (listening \/ t = App)
        /\ UNCHANGED <<layers, revision, hooked, frameVars, left>>
    BY <1>3 DEF Check, Return
  <2>2. CASE t = App
    <3>1. held[Engine] = revision
      BY <1>3, <2>2 DEF Stale, FrameOf
    <3>2. ~BeingCopied(Engine)
      BY <2>2, Named DEF BeingCopied, Check
    <3>3. Agrees(Engine)
      BY <3>1, <3>2, Named DEF Safe, FrameIsSnapshot
    <3> QED
      BY <1>1, <2>1, <2>2, <3>3, MovedSafe DEF Check, frameVars, Working, Pcs
  <2>3. CASE t # App
    <3>1. pc'[App] = pc[App] /\ listening' = listening
      BY <1>1, <2>1, <2>3, Named DEF Goto
    <3>2. listening' /\ pc'[App] = "idle" => Agrees(Engine)
      BY <3>1 DEF Safe, EngineSeesTheMap
    <3> QED
      BY <1>1, <2>1, <3>1, <3>2, MovedSafe DEF Check, frameVars, Working, Pcs
  <2> QED
    BY <2>2, <2>3
<1> QED
  BY <1>2, <1>3

\* What a step of t that copies leaves alone; its own frame may change.
CopyStep(t) ==
    /\ pc[t] \in Working
    /\ \A u \in Threads : u # t => pc'[u] = pc[u] /\ left'[u] = left[u]
    /\ pc'[t] \in {"clear", "fill"}
    /\ left'[t] \subseteq Scope[FrameOf(t)]
    /\ \A f \in Frames : f # FrameOf(t) => lists'[f] = lists[f]
    /\ UNCHANGED <<mapVars, held>>

LEMMA CopyStepSafe ==
    ASSUME Safe, NEW t \in Threads, CopyStep(t), TypeOK',
           \A p \in Scope[FrameOf(t)] \ left'[t] : lists'[FrameOf(t)][p] = layers[p],
           pc'[t] = "fill" => left'[t] # {} /\ lists'[FrameOf(t)][PartOf(t)'] = <<>>
    PROVE  Safe'
<1>1. \A u \in Threads : u # t /\ pc[u] \in Working => FrameOf(u) # FrameOf(t)
  BY DEF Safe, OneSyncs, CopyStep
<1>2. HeldIsPast'
  BY DEF Safe, HeldIsPast, CopyStep, mapVars
<1>3. OneSyncs'
  <2> SUFFICES ASSUME NEW u \in Threads, NEW v \in Threads, FrameOf(u) = FrameOf(v),
                      pc'[u] \in Working, pc'[v] \in Working
               PROVE  u = v
    BY DEF OneSyncs, FrameOf
  <2>1. pc[u] \in Working /\ pc[v] \in Working
    BY DEF CopyStep
  <2> QED
    BY <2>1 DEF Safe, OneSyncs
<1>4. CopyIsRight'
  <2> SUFFICES ASSUME NEW u \in Threads, pc'[u] \in {"clear", "fill"}
               PROVE  /\ left'[u] \subseteq Scope[FrameOf(u)]
                      /\ \A p \in Scope[FrameOf(u)] \ left'[u] :
                            lists'[FrameOf(u)][p] = layers[p]
                      /\ pc'[u] = "fill"
                           => left'[u] # {} /\ lists'[FrameOf(u)][PartOf(u)'] = <<>>
    BY DEF CopyIsRight, FrameOf, CopyStep, mapVars
  <2>1. CASE u = t
    BY <2>1 DEF CopyStep
  <2>2. CASE u # t
    <3>1. /\ pc[u] \in {"clear", "fill"} /\ pc'[u] = pc[u] /\ left'[u] = left[u]
          /\ lists'[FrameOf(u)] = lists[FrameOf(u)]
      BY <1>1, <2>2, Named DEF CopyStep, Working
    <3>2. PartOf(u)' = PartOf(u)
      BY <3>1 DEF PartOf
    <3> QED
      BY <3>1, <3>2 DEF Safe, CopyIsRight
  <2> QED
    BY <2>1, <2>2
<1>5. FrameIsSnapshot'
  <2> SUFFICES ASSUME NEW f \in Frames, ~BeingCopied(f)', held'[f] = revision'
               PROVE  Agrees(f)'
    BY DEF FrameIsSnapshot
  <2>1. f # FrameOf(t)
    BY DEF BeingCopied, CopyStep, FrameOf
  <2>2. ~BeingCopied(f)
    <3> SUFFICES ASSUME NEW u \in Threads, FrameOf(u) = f, pc[u] \in {"clear", "fill"}
                 PROVE  FALSE
      BY DEF BeingCopied
    <3>1. u # t /\ pc'[u] = pc[u]
      BY <2>1 DEF CopyStep
    <3> QED
      BY <3>1 DEF BeingCopied, FrameOf
  <2>3. Agrees(f)
    BY <2>2 DEF CopyStep, mapVars, Safe, FrameIsSnapshot
  <2>4. lists'[f] = lists[f] /\ layers' = layers
    BY <2>1 DEF CopyStep, mapVars
  <2> QED
    BY <2>3, <2>4 DEF Agrees
<1>6. EngineSeesTheMap'
  <2> SUFFICES ASSUME listening', pc'[App] = "idle" PROVE Agrees(Engine)'
    BY DEF EngineSeesTheMap
  <2>1. t # App /\ pc[App] = "idle" /\ listening /\ layers' = layers
    BY Named DEF CopyStep, mapVars
  <2>2. lists'[Engine] = lists[Engine]
    BY <2>1, Named DEF CopyStep
  <2>3. Agrees(Engine)
    BY <2>1 DEF Safe, EngineSeesTheMap
  <2> QED
    BY <2>1, <2>2, <2>3 DEF Agrees
<1> QED
  BY <1>2, <1>3, <1>4, <1>5, <1>6 DEF Safe

LEMMA LockSafe ==
    ASSUME Safe, NEW t \in Threads, Lock(t) PROVE Safe' /\ CopyStep(t)
<1>1. TypeOK /\ FrameOf(t) \in Frames /\ Scope[FrameOf(t)] \subseteq Parts
  BY Named DEF Safe
<1>2. pc'[t] = "clear" /\ left'[t] = Scope[FrameOf(t)]
  BY <1>1 DEF Lock, Goto, TypeOK
<1>3. TypeOK'
  BY <1>1 DEF TypeOK, Lock, Goto, mapVars, frameVars, Pcs
<1>4. CopyStep(t)
  BY <1>1, <1>2 DEF CopyStep, Lock, Goto, TypeOK, mapVars, frameVars, Working
<1> QED
  BY <1>2, <1>3, <1>4, CopyStepSafe

LEMMA ClearPartSafe ==
    ASSUME Safe, NEW t \in Threads, ClearPart(t) PROVE Safe' /\ CopyStep(t)
<1> DEFINE f == FrameOf(t)
           p == PartOf(t)
<1>1. TypeOK /\ f \in Frames /\ Scope[f] \subseteq Parts
  BY Named DEF Safe
<1>2. /\ left[t] \subseteq Scope[f]
      /\ \A q \in Scope[f] \ left[t] : lists[f][q] = layers[q]
  BY DEF Safe, CopyIsRight, ClearPart
<1>3. p \in left[t] /\ p \in Scope[f]
  BY <1>2 DEF ClearPart, PartOf
<1>4. lists[f] \in [Scope[f] -> Seq(Layers)] /\ DOMAIN lists = Frames
  BY <1>1 DEF TypeOK
<1>5. lists' = [lists EXCEPT ![f] = [lists[f] EXCEPT ![p] = <<>>]]
  BY DEF ClearPart
<1>6. PartOf(t)' = p
  BY DEF PartOf, ClearPart
<1> HIDE DEF f, p
<1>7. /\ lists'[f] = [lists[f] EXCEPT ![p] = <<>>]
      /\ lists'[f] \in [Scope[f] -> Seq(Layers)]
      /\ \A g \in Frames : g # f => lists'[g] = lists[g]
  <2>1. lists'[f] = [lists[f] EXCEPT ![p] = <<>>]
    BY <1>1, <1>4, <1>5
  <2>2. <<>> \in Seq(Layers)
    OBVIOUS
  <2>3. \A g \in Frames : g # f => lists'[g] = lists[g]
    BY <1>1, <1>4, <1>5
  <2> QED
    BY <1>3, <1>4, <2>1, <2>2, <2>3
<1>8. TypeOK'
  <2>1. lists' \in [Frames -> Lists]
    BY <1>1, <1>5, <1>7, ListsType DEF TypeOK, Lists
  <2>2. \A g \in Frames : lists'[g] \in [Scope[g] -> Seq(Layers)]
    BY <1>1, <1>7 DEF TypeOK
  <2>3. pc' \in [Threads -> Pcs]
    BY <1>1 DEF TypeOK, ClearPart, Goto, Pcs
  <2> QED
    BY <1>1, <2>1, <2>2, <2>3 DEF TypeOK, Lists, ClearPart, mapVars
<1>9. CopyStep(t)
  BY <1>1, <1>2, <1>7 DEF CopyStep, ClearPart, Goto, TypeOK, mapVars, Working, f
<1>10. /\ \A q \in Scope[f] \ left'[t] : lists'[f][q] = layers[q]
       /\ left'[t] # {} /\ lists'[f][p] = <<>>
  BY <1>2, <1>3, <1>4, <1>7 DEF ClearPart
<1> QED
  BY <1>6, <1>8, <1>9, <1>10, CopyStepSafe DEF f

LEMMA FillPartSafe ==
    ASSUME Safe, NEW t \in Threads, FillPart(t) PROVE Safe' /\ CopyStep(t)
<1> DEFINE f == FrameOf(t)
           p == PartOf(t)
<1>1. TypeOK /\ f \in Frames /\ Scope[f] \subseteq Parts
  BY Named DEF Safe
<1>2. /\ left[t] \subseteq Scope[f]
      /\ \A q \in Scope[f] \ left[t] : lists[f][q] = layers[q]
      /\ left[t] # {}
      /\ lists[f][p] = <<>>
  BY DEF Safe, CopyIsRight, FillPart
<1>3. p \in left[t] /\ p \in Scope[f]
  BY <1>2 DEF PartOf
<1>4. lists[f] \in [Scope[f] -> Seq(Layers)] /\ DOMAIN lists = Frames
  BY <1>1 DEF TypeOK
<1>5. layers[p] \in Seq(Layers)
  BY <1>1, <1>3 DEF TypeOK
<1>6. lists[f][p] \o layers[p] = layers[p]
  BY <1>2, <1>5, ConcatEmptySeq
<1>7. lists' = [lists EXCEPT ![f] = [lists[f] EXCEPT ![p] = lists[f][p] \o layers[p]]]
  BY DEF FillPart
<1>8. left' = [left EXCEPT ![t] = left[t] \ {p}]
  BY DEF FillPart
<1> HIDE DEF f, p
<1>9. /\ lists'[f] = [lists[f] EXCEPT ![p] = layers[p]]
      /\ lists'[f] \in [Scope[f] -> Seq(Layers)]
      /\ \A g \in Frames : g # f => lists'[g] = lists[g]
  BY <1>1, <1>4, <1>5, <1>6, <1>7
<1>10. TypeOK'
  <2>1. lists' \in [Frames -> Lists]
    BY <1>1, <1>7, <1>9, ListsType DEF TypeOK, Lists
  <2>2. \A g \in Frames : lists'[g] \in [Scope[g] -> Seq(Layers)]
    BY <1>1, <1>9 DEF TypeOK
  <2>3. pc' \in [Threads -> Pcs] /\ left' \in [Threads -> SUBSET Parts]
    BY <1>1, <1>8 DEF TypeOK, FillPart, Goto, Pcs
  <2> QED
    BY <1>1, <2>1, <2>2, <2>3 DEF TypeOK, Lists, FillPart, mapVars
<1>11. left'[t] = left[t] \ {p} /\ pc'[t] = "clear"
  BY <1>1, <1>8 DEF TypeOK, FillPart, Goto
<1>12. CopyStep(t)
  BY <1>1, <1>2, <1>8, <1>9, <1>11 DEF CopyStep, FillPart, Goto, TypeOK, mapVars, Working, f
<1>13. \A q \in Scope[f] \ left'[t] : lists'[f][q] = layers[q]
  BY <1>2, <1>3, <1>4, <1>9, <1>11
<1> QED
  BY <1>10, <1>11, <1>12, <1>13, CopyStepSafe DEF f

\* At the end of a copy the frame agrees with the map.
LEMMA FinishAgrees ==
    ASSUME Safe, NEW t \in Threads, Finish(t)
    PROVE  /\ Agrees(FrameOf(t))
           /\ lists' = lists /\ layers' = layers
           /\ held' = [held EXCEPT ![FrameOf(t)] = revision]
           /\ ~BeingCopied(FrameOf(t))'
           /\ \A f \in Frames : f # FrameOf(t) => BeingCopied(f)' = BeingCopied(f)
<1>1. Agrees(FrameOf(t))
  BY DEF Safe, CopyIsRight, Finish, Agrees
<1>2. pc'[t] = "idle" /\ \A u \in Threads : u # t => pc'[u] = pc[u]
  BY DEF Safe, TypeOK, Finish, Return, Goto
<1>3. ~BeingCopied(FrameOf(t))'
  <2> SUFFICES ASSUME NEW u \in Threads, FrameOf(u) = FrameOf(t), pc'[u] \in {"clear", "fill"}
               PROVE  FALSE
    BY DEF BeingCopied, FrameOf
  <2>1. u # t /\ pc[u] \in Working /\ pc[t] \in Working
    BY <1>2 DEF Working, Finish
  <2> QED
    BY <2>1 DEF Safe, OneSyncs
<1>4. ASSUME NEW f \in Frames, f # FrameOf(t) PROVE BeingCopied(f)' = BeingCopied(f)
  BY <1>2, <1>4 DEF BeingCopied, FrameOf
<1> QED
  BY <1>1, <1>3, <1>4 DEF Finish

LEMMA FinishSafe == ASSUME Safe, NEW t \in Threads, Finish(t) PROVE Safe'
<1>0. /\ TypeOK
      /\ pc[t] = "clear"
      /\ pc'[t] = "idle"
      /\ \A u \in Threads : u # t => pc'[u] = pc[u]
      /\ pc' \in [Threads -> Pcs]
      /\ FrameOf(t) \in Frames
      /\ UNCHANGED <<layers, revision, hooked, lists, left>>
      /\ listening' = (listening \/ t = App)
  BY Named DEF Safe, TypeOK, Finish, Return, Goto, Pcs
<1>1. TypeOK'
  <2>1. held' \in [Frames -> Int]
    BY <1>0, FinishAgrees DEF TypeOK
  <2> QED
    BY <1>0, <2>1 DEF TypeOK
<1>2. HeldIsPast'
  <2>1. \A f \in Frames : held[f] \in Int /\ held[f] <= revision
    BY <1>0 DEF Safe, HeldIsPast, TypeOK
  <2>2. held' = [held EXCEPT ![FrameOf(t)] = revision] /\ revision' = revision
    BY <1>0, FinishAgrees
  <2>3. held \in [Frames -> Int] /\ revision \in Nat
    BY <1>0 DEF TypeOK
  <2> QED
    BY <2>1, <2>2, <2>3 DEF HeldIsPast
<1>3. OneSyncs'
  <2> SUFFICES ASSUME NEW u \in Threads, NEW v \in Threads, FrameOf(u) = FrameOf(v),
                      pc'[u] \in Working, pc'[v] \in Working
               PROVE  u = v
    BY DEF OneSyncs, FrameOf
  <2>1. pc[u] \in Working /\ pc[v] \in Working
    BY <1>0 DEF Working
  <2> QED
    BY <2>1 DEF Safe, OneSyncs
<1>4. CopyIsRight'
  <2> SUFFICES ASSUME NEW u \in Threads, pc'[u] \in {"clear", "fill"}
               PROVE  /\ left[u] \subseteq Scope[FrameOf(u)]
                      /\ \A p \in Scope[FrameOf(u)] \ left[u] :
                            lists[FrameOf(u)][p] = layers[p]
                      /\ pc'[u] = "fill" => left[u] # {} /\ lists[FrameOf(u)][PartOf(u)] = <<>>
    BY <1>0 DEF CopyIsRight, FrameOf, PartOf
  <2>1. pc'[u] = pc[u]
    BY <1>0
  <2> QED
    BY <2>1 DEF Safe, CopyIsRight
<1>5. FrameIsSnapshot'
  <2> SUFFICES ASSUME NEW f \in Frames, ~BeingCopied(f)', held'[f] = revision
               PROVE  Agrees(f)'
    BY <1>0 DEF FrameIsSnapshot
  <2>1. CASE f = FrameOf(t)
    BY <2>1, FinishAgrees DEF Agrees
  <2>2. CASE f # FrameOf(t)
    <3>1. held[f] = revision /\ ~BeingCopied(f)
      BY <1>0, <2>2, FinishAgrees DEF TypeOK
    <3>2. Agrees(f)
      BY <3>1 DEF Safe, FrameIsSnapshot
    <3> QED
      BY <1>0, <3>2 DEF Agrees
  <2> QED
    BY <2>1, <2>2
<1>6. EngineSeesTheMap'
  <2> SUFFICES ASSUME listening', pc'[App] = "idle" PROVE Agrees(Engine)'
    BY DEF EngineSeesTheMap
  <2>1. CASE t = App
    <3>1. Agrees(Engine)
      BY <2>1, FinishAgrees, Named
    <3> QED
      BY <1>0, <3>1 DEF Agrees
  <2>2. CASE t # App
    <3>1. pc[App] = "idle" /\ listening
      BY <1>0, <2>2, Named
    <3>2. Agrees(Engine)
      BY <3>1 DEF Safe, EngineSeesTheMap
    <3> QED
      BY <1>0, <3>2 DEF Agrees
  <2> QED
    BY <2>1, <2>2
<1> QED
  BY <1>1, <1>2, <1>3, <1>4, <1>5, <1>6 DEF Safe

-----------------------------------------------------------------------------
(* The invariants                                                          *)

LEMMA InitSafe == Init => Safe
<1> SUFFICES ASSUME Init PROVE Safe
  OBVIOUS
<1>1. revision \in Nat
  <2>1. \A p \in Parts : Len(First[p]) \in Nat
    OBVIOUS
  <2>2. /\ Len(First["image"]) \in Nat /\ Len(First["elevation"]) \in Nat
        /\ Len(First["model"]) \in Nat /\ Len(First["mask"]) \in Nat
    BY <2>1 DEF Parts
  <2>3. revision = Len(First["image"]) + Len(First["elevation"])
                   + Len(First["model"]) + Len(First["mask"])
    BY DEF Init
  <2>4. ASSUME NEW a \in Nat, NEW b \in Nat, NEW c \in Nat, NEW d \in Nat
        PROVE  a + b + c + d \in Nat
    OBVIOUS
  <2> QED
    BY <2>2, <2>3, <2>4, Zenon
<1>0. /\ lists = [f \in Frames |-> [p \in Scope[f] |-> <<>>]]
      /\ held = [f \in Frames |-> -1]
      /\ pc = [t \in Threads |-> "idle"]
      /\ left = [t \in Threads |-> {}]
      /\ layers = First /\ hooked = ToSet(First["elevation"]) /\ listening = FALSE
  BY DEF Init
<1>2. TypeOK
  <2>1. <<>> \in Seq(Layers)
    OBVIOUS
  <2>2. \A f \in Frames : lists[f] \in [Scope[f] -> Seq(Layers)]
    BY <1>0, <2>1
  <2>3. lists \in [Frames -> Lists]
    BY <1>0, <2>2, ListsType
  <2> QED
    <3>1. layers \in [Parts -> Seq(Layers)] /\ hooked \subseteq Stock["elevation"]
      BY <1>0
    <3>2. held \in [Frames -> Int]
      BY <1>0
    <3>3. pc \in [Threads -> Pcs] /\ left \in [Threads -> SUBSET Parts]
      BY <1>0 DEF Pcs
    <3> QED
      BY <1>0, <1>1, <2>2, <2>3, <3>1, <3>2, <3>3 DEF TypeOK, Lists
<1>3. HeldIsPast
  BY <1>0, <1>1 DEF HeldIsPast
<1>4. \A t \in Threads : pc[t] \notin Working
  BY <1>0 DEF Working
<1>5. FrameIsSnapshot
  BY <1>0, <1>1 DEF FrameIsSnapshot
<1>6. OneSyncs /\ CopyIsRight /\ EngineSeesTheMap
  BY <1>0, <1>4 DEF OneSyncs, CopyIsRight, EngineSeesTheMap, Working
<1> QED
  BY <1>2, <1>3, <1>5, <1>6 DEF Safe

LEMMA NextSafe == Safe /\ [Next]_vars => Safe'
<1> SUFFICES ASSUME Safe, [Next]_vars PROVE Safe'
  OBVIOUS
<1>1. CASE AppCall
  BY <1>1, AppCallSafe
<1>2. CASE InstallEngine
  BY <1>2, InstallEngineSafe
<1>3. ASSUME NEW t \in Threads, SyncStep(t) PROVE Safe'
  BY <1>3, CheckSafe, LockSafe, ClearPartSafe, FillPartSafe, FinishSafe DEF SyncStep
<1>4. ASSUME NEW t \in Readers, ReaderStep(t) PROVE Safe'
  BY <1>3, <1>4, WantSyncSafe, ExclusiveSafe DEF ReaderStep, Threads
<1>5. CASE UNCHANGED vars
  <2>1. UNCHANGED <<layers, revision, hooked, listening, lists, held, pc, left>>
    BY <1>5 DEF vars, mapVars, frameVars
  <2>2. TypeOK' /\ HeldIsPast' /\ OneSyncs'
    BY <2>1 DEF Safe, TypeOK, HeldIsPast, OneSyncs, FrameOf
  <2>3. CopyIsRight'
    <3>1. \A t \in Threads : PartOf(t)' = PartOf(t)
      BY <2>1 DEF PartOf
    <3> QED
      BY <2>1, <3>1 DEF Safe, CopyIsRight, FrameOf
  <2>4. FrameIsSnapshot' /\ EngineSeesTheMap'
    BY <2>1 DEF Safe, FrameIsSnapshot, EngineSeesTheMap, BeingCopied, Agrees, FrameOf
  <2> QED
    BY <2>2, <2>3, <2>4 DEF Safe
<1> QED
  BY <1>1, <1>2, <1>3, <1>4, <1>5, Named DEF Next

LEMMA AlwaysSafe == Spec => []Safe
<1> QED
  BY InitSafe, NextSafe, PTL DEF Spec

\* Types, for any layers, readers and frames.
THEOREM TypeOKHolds == Spec => []TypeOK
<1>1. Safe => TypeOK
  BY DEF Safe
<1> QED
  BY <1>1, AlwaysSafe, PTL

\* A frame that nobody is copying and that has the map's revision has the
\* map's layers, however many threads share it.
THEOREM FrameIsSnapshotHolds == Spec => []FrameIsSnapshot
<1>1. Safe => FrameIsSnapshot
  BY DEF Safe
<1> QED
  BY <1>1, AlwaysSafe, PTL

\* When a call that changes the map has returned, the engine's frame has the
\* map's layers.
THEOREM EngineSeesTheMapHolds == Spec => []EngineSeesTheMap
<1>1. Safe => EngineSeesTheMap
  BY DEF Safe
<1> QED
  BY <1>1, AlwaysSafe, PTL

-----------------------------------------------------------------------------
(* The refinement                                                          *)

Shown(f) ==
    [version |-> IF BeingCopied(f) THEN revision ELSE held[f],
     content |-> IF BeingCopied(f) THEN [p \in Scope[f] |-> layers[p]] ELSE lists[f]]

LEMMA ShownSame ==
    ASSUME UNCHANGED <<layers, revision, lists, held>>,
           NEW f \in Frames, BeingCopied(f)' = BeingCopied(f)
    PROVE  Shown(f)' = Shown(f)
BY DEF Shown

LEMMA SnapshotStutter ==
    ASSUME UNCHANGED <<layers, revision>>, \A f \in Frames : Shown(f)' = Shown(f)
    PROVE  UNCHANGED Snapshot!snapshotVars
BY DEF Snapshot!snapshotVars, Shown

\* The steps of a thread that do not begin, go on with or end a copy.
LEMMA ElsewhereStutters ==
    ASSUME Safe, NEW t \in Threads, NEW where \in Pcs, Goto(t, where),
           pc[t] \notin {"clear", "fill"}, where \notin {"clear", "fill"},
           UNCHANGED <<layers, revision, lists, held>>
    PROVE  UNCHANGED Snapshot!snapshotVars
<1>1. \A u \in Threads : pc'[u] \in {"clear", "fill"} <=> pc[u] \in {"clear", "fill"}
  BY DEF Safe, TypeOK, Goto
<1>2. \A f \in Frames : BeingCopied(f)' = BeingCopied(f)
  BY <1>1 DEF BeingCopied, FrameOf
<1> QED
  BY <1>2, ShownSame, SnapshotStutter

LEMMA AppCallPublishes ==
    ASSUME Safe, AppCall
    PROVE  Snapshot!Publish \/ UNCHANGED Snapshot!snapshotVars
<1>1. Effect
  BY AppCallEffect DEF Safe
<1>2. \A f \in Frames : ~BeingCopied(f) /\ ~BeingCopied(f)'
  <2>1. \A t \in Threads : pc[t] \notin {"clear", "fill"} /\ pc'[t] \notin {"clear", "fill"}
    BY <1>1, Named DEF Effect, NoneCopies, Safe, TypeOK
  <2> QED
    BY <2>1 DEF BeingCopied, FrameOf
<1>3. \A f \in Frames : Shown(f)' = Shown(f)
  BY <1>1, <1>2 DEF Shown, Effect
<1>4. CASE revision' = revision + 1
  BY <1>3, <1>4 DEF Snapshot!Publish, Shown
<1>5. CASE UNCHANGED <<layers, revision>>
  BY <1>3, <1>5, SnapshotStutter
<1> QED
  BY <1>1, <1>4, <1>5 DEF Effect

\* What a step of a copy does to what the frames show.
LEMMA CopyStepShows ==
    ASSUME Safe, NEW t \in Threads, CopyStep(t)
    PROVE  /\ \A f \in Frames : f # FrameOf(t) => Shown(f)' = Shown(f)
           /\ BeingCopied(FrameOf(t))'
<1>1. ASSUME NEW f \in Frames, f # FrameOf(t) PROVE Shown(f)' = Shown(f)
  <2>1. BeingCopied(f)' = BeingCopied(f)
    <3>1. \A u \in Threads : FrameOf(u) = f => pc'[u] = pc[u]
      BY <1>1 DEF CopyStep
    <3> QED
      BY <3>1 DEF BeingCopied, FrameOf
  <2>2. lists'[f] = lists[f]
    BY <1>1 DEF CopyStep
  <2> QED
    BY <2>1, <2>2 DEF Shown, CopyStep, mapVars
<1>2. BeingCopied(FrameOf(t))'
  BY DEF CopyStep, BeingCopied, FrameOf
<1> QED
  BY <1>1, <1>2

LEMMA CopyingStutters ==
    ASSUME Safe, NEW t \in Threads, CopyStep(t), pc[t] \in {"clear", "fill"}
    PROVE  UNCHANGED Snapshot!snapshotVars
<1>1. BeingCopied(FrameOf(t))
  BY DEF BeingCopied
<1>2. UNCHANGED <<layers, revision>>
  BY DEF CopyStep, mapVars
<1>3. ASSUME NEW f \in Frames PROVE Shown(f)' = Shown(f)
  BY <1>1, <1>2, CopyStepShows DEF Shown
<1> QED
  BY <1>2, <1>3, SnapshotStutter

LEMMA LockRefreshes ==
    ASSUME Safe, NEW t \in Threads, Lock(t)
    PROVE  Snapshot!Refresh(FrameOf(t))
<1> DEFINE g == FrameOf(t)
<1>1. CopyStep(t) /\ g \in Frames /\ UNCHANGED <<layers, revision>>
  BY LockSafe, Named DEF Lock, mapVars
<1>2. \A f \in Frames : f # g => Shown(f)' = Shown(f)
  BY <1>1, CopyStepShows
<1>3. Shown(g)' = Snapshot!Current(g)
  BY <1>1, CopyStepShows DEF Shown, Snapshot!Current
<1> HIDE DEF g
<1>4. [f \in Frames |-> Shown(f)'] = [[f \in Frames |-> Shown(f)] EXCEPT ![g] = Snapshot!Current(g)]
  BY <1>1, <1>2, <1>3
<1> QED
  BY <1>1, <1>4 DEF Snapshot!Refresh, Shown, g

LEMMA FinishStutters ==
    ASSUME Safe, NEW t \in Threads, Finish(t)
    PROVE  UNCHANGED Snapshot!snapshotVars
<1> DEFINE g == FrameOf(t)
<1>1. /\ g \in Frames
      /\ BeingCopied(g)
      /\ ~BeingCopied(g)'
      /\ Agrees(g)
      /\ UNCHANGED <<layers, revision, lists>>
      /\ held' = [held EXCEPT ![g] = revision]
      /\ \A f \in Frames : f # g => BeingCopied(f)' = BeingCopied(f)
  BY FinishAgrees, Named DEF Finish, BeingCopied
<1>2. held \in [Frames -> Int] /\ lists[g] \in [Scope[g] -> Seq(Layers)]
  BY <1>1 DEF Safe, TypeOK
<1> HIDE DEF g
<1>3. Shown(g)' = Shown(g)
  <2>1. lists[g] = [p \in Scope[g] |-> layers[p]]
    BY <1>1, <1>2 DEF Agrees
  <2>2. held'[g] = revision
    BY <1>1, <1>2
  <2> QED
    BY <1>1, <2>1, <2>2 DEF Shown
<1>4. ASSUME NEW f \in Frames, f # g PROVE Shown(f)' = Shown(f)
  <2>1. held'[f] = held[f]
    BY <1>1, <1>2, <1>4
  <2> QED
    BY <1>1, <1>4, <2>1 DEF Shown
<1> QED
  BY <1>1, <1>3, <1>4, SnapshotStutter

\* Frames implement Snapshots: each is refreshed as a whole, at the moment the
\* read lock is taken, and the map's layers never change without a revision.
THEOREM FramesImplementSnapshots == Spec => ImplementsSnapshots
<1>1. Init => Snapshot!Init
  <2> SUFFICES ASSUME Init PROVE Snapshot!Init
    OBVIOUS
  <2>1. revision \in Nat
    BY InitSafe DEF Safe, TypeOK
  <2>2. /\ held = [f \in Frames |-> -1]
        /\ lists = [f \in Frames |-> [p \in Scope[f] |-> <<>>]]
        /\ \A f \in Frames : ~BeingCopied(f)
    BY DEF Init, BeingCopied
  <2>3. \A f \in Frames : Shown(f) = Snapshot!Blank(f)
    BY <2>2 DEF Shown, Snapshot!Blank
  <2> QED
    BY <2>1, <2>3 DEF Snapshot!Init, Shown
<1>2. Safe /\ [Next]_vars => [Snapshot!Next]_Snapshot!snapshotVars
  <2> SUFFICES ASSUME Safe, [Next]_vars
               PROVE  Snapshot!Next \/ UNCHANGED Snapshot!snapshotVars
    OBVIOUS
  <2>1. CASE AppCall
    BY <2>1, AppCallPublishes DEF Snapshot!Next
  <2>2. CASE InstallEngine
    BY <2>2, Named, ElsewhereStutters DEF InstallEngine, mapVars, frameVars, Pcs
  <2>3. ASSUME NEW t \in Threads, SyncStep(t)
        PROVE  Snapshot!Next \/ UNCHANGED Snapshot!snapshotVars
    <3>1. CASE Check(t)
      <4>1. \E where \in {"lock", "idle"} : Goto(t, where)
        BY <3>1 DEF Check, Return
      <4> QED
        BY <3>1, <4>1, ElsewhereStutters DEF Check, frameVars, Pcs
    <3>2. CASE Lock(t)
      BY <3>2, LockRefreshes, Named DEF Snapshot!Next
    <3>3. CASE ClearPart(t)
      BY <3>3, ClearPartSafe, CopyingStutters DEF ClearPart
    <3>4. CASE FillPart(t)
      BY <3>4, FillPartSafe, CopyingStutters DEF FillPart
    <3>5. CASE Finish(t)
      BY <3>5, FinishStutters
    <3> QED
      BY <2>3, <3>1, <3>2, <3>3, <3>4, <3>5 DEF SyncStep
  <2>4. ASSUME NEW t \in Readers, ReaderStep(t)
        PROVE  Snapshot!Next \/ UNCHANGED Snapshot!snapshotVars
    <3>0. t \in Threads
      BY DEF Threads
    <3>1. CASE WantSync(t)
      BY <3>0, <3>1, ElsewhereStutters DEF WantSync, mapVars, frameVars, Pcs
    <3>2. CASE Exclusive(t)
      BY <3>0, <3>2, ElsewhereStutters DEF Exclusive, mapVars, frameVars, Pcs
    <3> QED
      BY <2>3, <2>4, <3>0, <3>1, <3>2 DEF ReaderStep
  <2>5. CASE UNCHANGED vars
    <3>1. UNCHANGED <<layers, revision, lists, held, pc>>
      BY <2>5 DEF vars, mapVars, frameVars
    <3>2. \A f \in Frames : BeingCopied(f)' = BeingCopied(f)
      BY <3>1 DEF BeingCopied, FrameOf
    <3> QED
      BY <3>1, <3>2, ShownSame, SnapshotStutter
  <2> QED
    BY <2>1, <2>2, <2>3, <2>4, <2>5, Named DEF Next
<1> QED
  BY <1>1, <1>2, AlwaysSafe, PTL DEF Spec, ImplementsSnapshots, Snapshot!Spec
=============================================================================
