------------------------------ MODULE MapModel ------------------------------
(***************************************************************************)
(* osgEarth's Map and its MapFrames: the layer lists, the revision that    *)
(* every change of them counts up, and the copies others work from.        *)
(*                                                                         *)
(* App is the application's thread: it alone changes the map, under the    *)
(* write lock, and then calls the map's callbacks without it.  The one     *)
(* callback here is engine_mp's, which brings the engine's own frame up to *)
(* date.  Readers are the threads with other frames: the draw threads of a *)
(* geometry share one, which _frameSyncMutex lets one of them at a time    *)
(* sync; the key-node factory of a pager thread has one to itself.         *)
(*                                                                         *)
(* A step under the write lock is one action, taken when no thread is      *)
(* copying under the read lock.  A copy takes two steps for each part.     *)
(* sync() looks at the revisions before it takes the lock.  A frame is     *)
(* initialized when its revision is not -1, which no map's revision is.    *)
(***************************************************************************)
EXTENDS Integers, SequencesExt

CONSTANTS
    App,            \* the thread that changes the map
    Engine,         \* the engine's frame, _update_mapf
    Readers,        \* the threads that draw geometries or build tiles
    ReaderFrame,    \* the frame of each reader
    Stock,          \* the layers there are of each part
    First,          \* the layers the map has when the engine is made
    MaxLayers,      \* bound: layers of a part
    MaxRevision     \* bound: the map's revision

Parts == {"image", "elevation", "model", "mask"}
TerrainLayers == {"image", "elevation"}
MaskedTerrainLayers == TerrainLayers \union {"mask"}

Frames == {ReaderFrame[t] : t \in Readers} \union {Engine}
Threads == Readers \union {App}

Layers == UNION {Stock[p] : p \in Parts}

ASSUME MapAssumptions ==
    /\ App \notin Readers
    /\ \A t \in Readers : ReaderFrame[t] # Engine
    /\ First \in [Parts -> Seq(Layers)]
    /\ ToSet(First["elevation"]) \subseteq Stock["elevation"]

Scope == [f \in Frames |-> IF f = Engine THEN MaskedTerrainLayers ELSE TerrainLayers]

FrameOf(t) == IF t = App THEN Engine ELSE ReaderFrame[t]

VARIABLES
    layers,     \* the layer lists of the map
    revision,   \* _dataModelRevision
    hooked,     \* elevation layers that have _elevationLayerCB
    listening,  \* whether the engine has made its frame and added its callback
    lists,      \* the layer lists of each frame
    held,       \* _mapDataModelRevision of each frame
    pc,         \* where each thread is
    left        \* the parts each thread has still to copy

mapVars == <<layers, revision, hooked, listening>>
frameVars == <<lists, held>>
vars == <<mapVars, frameVars, pc, left>>

\* A map that has counted each of its first layers.
Init ==
    /\ layers = First
    /\ revision = Len(First["image"]) + Len(First["elevation"])
                  + Len(First["model"]) + Len(First["mask"])
    /\ hooked = ToSet(First["elevation"])
    /\ listening = FALSE
    /\ lists = [f \in Frames |-> [p \in Scope[f] |-> <<>>]]
    /\ held = [f \in Frames |-> -1]
    /\ pc = [t \in Threads |-> "idle"]
    /\ left = [t \in Threads |-> {}]

Goto(t, where) == pc' = [pc EXCEPT ![t] = where]

-----------------------------------------------------------------------------
(* Changes of the map                                                      *)

\* Mutant: the write lock keeps nobody out.
NoLock == TRUE

\* The write lock can be taken: no thread holds it to read.
NoneCopies == \A t \in Threads : pc[t] \notin {"clear", "fill"}

\* The rest of a change: the callbacks, if there is one.
TellCallbacks == Goto(App, IF listening THEN "check" ELSE "idle")

Change(newLayers) ==
    /\ NoneCopies
    /\ revision < MaxRevision
    /\ layers' = newLayers
    /\ revision' = revision + 1

AppIsFree == pc[App] = "idle" /\ UNCHANGED <<listening, frameVars, left>>

MayAdd(p, x) == x \notin ToSet(layers[p]) /\ Len(layers[p]) < MaxLayers

\* Mutant: every layer gets the callback of elevation layers.
AddHooked(p, x) ==
    /\ AppIsFree
    /\ MayAdd(p, x)
    /\ Change([layers EXCEPT ![p] = Append(@, x)])
    /\ hooked' = hooked \union {x}
    /\ TellCallbacks

\* add...Layer.  The callback of an elevation layer is added when the lock is
\* given back; until then only App has the layer.
AddLayer(p, x) ==
    /\ AppIsFree
    /\ MayAdd(p, x)
    /\ Change([layers EXCEPT ![p] = Append(@, x)])
    /\ hooked' = IF p = "elevation" THEN hooked \union {x} ELSE hooked
    /\ TellCallbacks

\* insertImageLayer appends when the index is too large; insertModelLayer must
\* not be given such an index.
InsertLayer(p, x, i) ==
    /\ AppIsFree
    /\ p \in {"image", "model"}
    /\ p = "model" => i <= Len(layers[p])
    /\ MayAdd(p, x)
    /\ Change([layers EXCEPT ![p] = IF i >= Len(@) THEN Append(@, x)
                                                   ELSE InsertAt(@, i + 1, x)])
    /\ UNCHANGED hooked
    /\ TellCallbacks

\* Erased where it is found; no layer is there twice.
Without(list, x) == RemoveAt(list, CHOOSE i \in DOMAIN list : list[i] = x)

RemoveLayer(p, x) ==
    /\ AppIsFree
    /\ x \in ToSet(layers[p])
    /\ Change([layers EXCEPT ![p] = Without(@, x)])
    /\ hooked' = hooked \ {x}
    /\ TellCallbacks

\* remove...Layer of a layer that is not there: for models and masks the
\* callbacks are called all the same.
RemoveUnknown(p, x) ==
    /\ AppIsFree
    /\ x \notin ToSet(layers[p])
    /\ NoneCopies
    /\ hooked' = hooked \ {x}
    /\ IF p \in TerrainLayers THEN UNCHANGED pc ELSE TellCallbacks
    /\ UNCHANGED <<layers, revision>>

\* Mutant: the callbacks are not called.
MoveUntold(p, x, i) ==
    /\ AppIsFree
    /\ p # "mask"
    /\ x \in ToSet(layers[p])
    /\ i < Len(layers[p])
    /\ Change([layers EXCEPT ![p] = InsertAt(Without(@, x), i + 1, x)])
    /\ UNCHANGED <<hooked, pc>>

\* move...Layer: erase and insert.  The new index must be one of the list's.
MoveLayer(p, x, i) ==
    /\ AppIsFree
    /\ p # "mask"
    /\ x \in ToSet(layers[p])
    /\ i < Len(layers[p])
    /\ Change([layers EXCEPT ![p] = InsertAt(Without(@, x), i + 1, x)])
    /\ UNCHANGED hooked
    /\ TellCallbacks

\* clear(): the masks stay, and so do the callbacks in the layers.  There is a
\* message for each layer removed, so none when the lists were empty, though
\* the revision goes up.
Clear ==
    /\ AppIsFree
    /\ Change([p \in Parts |-> IF p = "mask" THEN layers[p] ELSE <<>>])
    /\ UNCHANGED hooked
    /\ IF \A p \in Parts \ {"mask"} : layers[p] = <<>> THEN UNCHANGED pc ELSE TellCallbacks

\* An elevation layer is shown or hidden: ElevationLayerCB calls
\* notifyElevationLayerVisibleChanged.
ToggleElevation(x) ==
    /\ AppIsFree
    /\ x \in hooked
    /\ Change(layers)
    /\ UNCHANGED hooked
    /\ TellCallbacks

AppCall ==
    \/ \E p \in Parts : \E x \in Stock[p] :
          \/ AddLayer(p, x)
          \/ RemoveLayer(p, x)
          \/ RemoveUnknown(p, x)
          \/ \E i \in 0 .. MaxLayers : InsertLayer(p, x, i) \/ MoveLayer(p, x, i)
    \/ \E x \in Stock["elevation"] : ToggleElevation(x)
    \/ Clear

-----------------------------------------------------------------------------
(* Frames                                                                  *)

Stale(f) == held[f] # revision

\* postInitialize makes the engine's frame, which syncs it, and then adds the
\* callback.
InstallEngine ==
    /\ ~listening
    /\ pc[App] = "idle"
    /\ Goto(App, "check")
    /\ UNCHANGED <<mapVars, frameVars, left>>

\* A thread of a geometry looks at its frame before it takes the mutex ...
WantSync(t) ==
    /\ t \in Readers
    /\ pc[t] = "idle"
    /\ Stale(FrameOf(t))
    /\ Goto(t, "want")
    /\ UNCHANGED <<mapVars, frameVars, left>>

\* Mutant: no mutex keeps the draw threads apart.
Unguarded(t) ==
    /\ pc[t] = "want"
    /\ Goto(t, "check")
    /\ UNCHANGED <<mapVars, frameVars, left>>

\* ... and again, as sync() does, when it has it: revisions only grow, so that
\* one look stands for both.  For a pager alone on its frame the first look is
\* that of sync() and the mutex is always free.
Exclusive(t) ==
    /\ pc[t] = "want"
    /\ \A u \in Readers : FrameOf(u) = FrameOf(t) => pc[u] \in {"idle", "want"}
    /\ Goto(t, "check")
    /\ UNCHANGED <<mapVars, frameVars, left>>

\* Back from sync(): App has then added the callback, if it had not before.
Return(t) ==
    /\ Goto(t, "idle")
    /\ listening' = (listening \/ t = App)

\* sync(): the look at the revisions, without the lock.
Check(t) ==
    /\ pc[t] = "check"
    /\ IF Stale(FrameOf(t))
       THEN Goto(t, "lock") /\ UNCHANGED listening
       ELSE Return(t)
    /\ UNCHANGED <<layers, revision, hooked, frameVars, left>>

\* The read lock is taken.
Lock(t) ==
    /\ pc[t] = "lock"
    /\ Goto(t, "clear")
    /\ left' = [left EXCEPT ![t] = Scope[FrameOf(t)]]
    /\ UNCHANGED <<mapVars, frameVars>>

\* Which part is next makes no difference under the lock.
PartOf(t) == CHOOSE p \in left[t] : TRUE

ClearPart(t) ==
    /\ pc[t] = "clear"
    /\ left[t] # {}
    /\ lists' = [lists EXCEPT ![FrameOf(t)][PartOf(t)] = <<>>]
    /\ Goto(t, "fill")
    /\ UNCHANGED <<mapVars, held, left>>

\* copy(..., back_inserter(...)): what is in the frame's list stays before it.
FillPart(t) ==
    /\ pc[t] = "fill"
    /\ lists' = [lists EXCEPT ![FrameOf(t)][PartOf(t)] = @ \o layers[PartOf(t)]]
    /\ left' = [left EXCEPT ![t] = @ \ {PartOf(t)}]
    /\ Goto(t, "clear")
    /\ UNCHANGED <<mapVars, held>>

\* Mutant: the frame keeps its revision.
FinishUnmarked(t) ==
    /\ pc[t] = "clear"
    /\ left[t] = {}
    /\ Return(t)
    /\ UNCHANGED <<layers, revision, hooked, frameVars, left>>

\* The frame takes the map's revision, and the lock is given back.
Finish(t) ==
    /\ pc[t] = "clear"
    /\ left[t] = {}
    /\ held' = [held EXCEPT ![FrameOf(t)] = revision]
    /\ Return(t)
    /\ UNCHANGED <<layers, revision, hooked, lists, left>>

SyncStep(t) == Check(t) \/ Lock(t) \/ ClearPart(t) \/ FillPart(t) \/ Finish(t)

ReaderStep(t) == WantSync(t) \/ Exclusive(t) \/ SyncStep(t)

Next ==
    \/ AppCall
    \/ InstallEngine
    \/ SyncStep(App)
    \/ \E t \in Readers : ReaderStep(t)

\* Whoever syncs a frame goes on with it, and a reader's frame is used again
\* and again.  Nothing makes App change the map.
Fairness ==
    /\ WF_vars(SyncStep(App))
    /\ \A t \in Readers : WF_vars(ReaderStep(t))

Spec == Init /\ [][Next]_vars /\ Fairness

-----------------------------------------------------------------------------
(* Properties                                                              *)

Pcs == {"idle", "want", "check", "lock", "clear", "fill"}

\* Type invariant; -1 is Revision's first value.
TypeOK ==
    /\ layers \in [Parts -> Seq(Layers)]
    /\ revision \in Nat
    /\ hooked \subseteq Stock["elevation"]
    /\ listening \in BOOLEAN
    /\ lists \in [Frames -> [TerrainLayers -> Seq(Layers)]
                             \union [MaskedTerrainLayers -> Seq(Layers)]]
    /\ \A f \in Frames : lists[f] \in [Scope[f] -> Seq(Layers)]
    /\ held \in [Frames -> Int]
    /\ pc \in [Threads -> Pcs]
    /\ left \in [Threads -> SUBSET Parts]

BeingCopied(f) == \E t \in Threads : FrameOf(t) = f /\ pc[t] \in {"clear", "fill"}

Agrees(f) == \A p \in Scope[f] : lists[f][p] = layers[p]

\* A frame that nobody is copying and that has the map's revision has the
\* map's layers, in the map's order: it was not copied while the map changed,
\* nor by two draw threads at a time ("A 'snapshot in time' of a Map model
\* revision", MapFrame:30).
FrameIsSnapshot ==
    \A f \in Frames : ~BeingCopied(f) /\ held[f] = revision => Agrees(f)

\* When a call that changes the map has returned, the engine's frame has the
\* layers of the map, whatever was changed.  Its revision may be an older
\* one: clear() of an empty map counts up and tells nobody.
EngineSeesTheMap == listening /\ pc[App] = "idle" => Agrees(Engine)

\* Frames implement the promise of Snapshots: the refresh takes place when the
\* read lock is taken, and what the copy leaves is what was there then.
Snapshot == INSTANCE Snapshots WITH
    version <- revision,
    content <- layers,
    snapshot <- [f \in Frames |->
                   [version |-> IF BeingCopied(f) THEN revision ELSE held[f],
                    content |-> IF BeingCopied(f) THEN [p \in Scope[f] |-> layers[p]]
                                ELSE lists[f]]]

ImplementsSnapshots == Snapshot!Spec

\* Readers that go on using their frames come up with the map once it changes
\* no more: those who share a frame never wait for each other for good.
FramesCatchUp == \A t \in Readers : <>[](held[FrameOf(t)] = revision)
=============================================================================
