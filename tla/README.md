# dtEarth: a TLA+ verification project

dtEarth puts an osgEarth globe into a Delta3D game. The repository holds the
small library and its example (`src/src`, `src/include/dtEarth`,
`src/examples/testEarth`) together with the osgEarth it is built on
(`src/ext/include/osgEarth*`). The library itself is sequential; what is hard to
get right is underneath it, in the locks, task pools and registries that
osgEarth loads its terrain with. This project models both.

Paths below are relative to the repository; `ThreadingUtils`, `TaskService`,
`TileVisitor`, `Map`, `Containers` are in `ext/include/osgEarth/`, and what is said to
be in `engine_mp` is in `ext/include/osgEarthDrivers/engine_mp/`.

## Inventory

| Component | State | Operations | Talks to | What is hard | Status |
|---|---|---|---|---|---|
| dtEarth library: `earthactor.cpp`, `actorregistry.cpp` | registered type, `mConfig`, viewers made | `RegisterActorTypes`, `CreateDrawable`, `OnEnteredWorld`, `ProcessMessage`, `OnMapLoaded`, `Build` | game manager, `MapNodeHelper::load`, `CompositeViewer` | `Build` has two callers and one latch; a failed load | modelled |
| testEarth: `testentrypoint.cpp` | startup progress | `Initialize`, `OnStartup`, Escape | game manager | order of start and shutdown, exceptions | modelled |
| `Event`, `ReadWriteMutex` (`ThreadingUtils`) | `_set`, `_readerCount`, `_lockWriterMutex` | `readLock`, `readUnlock`, `writeLock`, `writeUnlock` | every shared table of osgEarth | interleaving, lost wake-ups, starvation | modelled |
| `TaskRequestQueue`, `TaskThread`, `TaskService` | request states, queue, threads and their flags | `add`, `get`, `setDone`, `run`, `setNumThreads`, `cancelAll`, `setStamp`, destructor | clients in the update traversal, progress callbacks | two mutexes and two conditions, stopping threads, bounded queue | modelled |
| `TaskServiceManager` | services by id, weights, targets | `add`, `get`, `getOrAdd`, `remove`, `setWeight`, `setNumThreads` | `TaskService` | check then act, shares after any sequence | partly |
| `MultithreadedTileVisitor`, `MultiprocessTileVisitor` | keys to visit, `_batch`, `_processed`, progress | `run`, `processKey`, `handleTile`, `processBatch`, `incrementProgress` | `TaskService`, `PoisonPill` | termination, cancelation, the last batch, counting | partly |
| `engine_osgterrain` tiles | request lists, services | add, cancel, recycle requests; resize services | `TaskService` | recycled requests, changing pools | partly |
| `Map`, `MapFrame` | layers, revision, callbacks; a frame's copy and its revision | add, move, remove layers, `clear`, `sync` | `ReadWriteMutex`, engine, geometries | a look at revisions before the lock, callbacks after it, frames shared by threads | partly |
| `engine_mp` tiles: `TileNodeRegistry`, `TileGroup`, `TilePagedLOD`, `TileNode` | live and dead registries, revisions, scene, loads under way | add, move, remove, `setMapRevision`, `setDirty`; update agents, paging, expiry | `Map`, OSG's pager, draw thread | tiles built while the map changes, a move in locked pieces, failed and canceled loads | partly |
| `LRUCache` (`Containers`) | map, list, `_max`, `_buf` | `insert`, `get`, `has`, `erase`, `setMaxSize`, `clear` | caches of heights and tiles | list and map in step, eviction | partly |
| Per-thread maps, `MultiEvent`, other caches | | | | latches | not modelled |
| Drivers, features, symbology, annotation, Qt, other utilities | | | | numeric and visual | not modelled |
| vendored leveldb and proj, binaries, CMake | | | | | not modelled |

What makes each correct:

* Library and application: every viewer made is accounted for by an entry or by
  the first map message.
* Lock: writers exclude everybody, nobody stays blocked on a set event, writers
  in line get in.
* Task service: a request that was added is in exactly one place until it is
  completed, runs at most once per add, a thread takes the lowest number there is, the
  pool has the size it was given, the destructor ends.
* Manager: the counts are those of the services, at least one each, in the order
  of the weights; one service per id.
* Visitors: `run()` returns, and then every tile between the levels that has data and
  is in the extents, and no other, was in one task, alone or in a batch, and was counted.
* Map: a frame is the map as it was at one revision, never a mixture; the engine's
  frame follows every call; a stale frame that is synced again catches up.
* Tiles: what is live is in the scene or on its way there and knows the map's revision; what
  the draw thread releases is out of use; a change of the map reaches every tile.
* Cache: list and map hold the same keys, and what goes is what was used least recently.

Hazards are listed line by line in `PROJECT.json`.

## Plan

1. `RWLock`, `ReadWriteMutex`, its proofs. Done.
2. `EarthActor`, `TestEarth`, their proofs. Done.
3. `TaskPool`, `TaskService`, `TaskClients`; `TileVisitor`; `TaskServiceManager`. Done.
4. `Snapshots`, `MapModel`, its proofs. Done.
5. `MPTiles`, its proofs. Done.
6. `RecencyCache`, `LRUCache`, its proofs. Done.
7. The quad-tree traversal and the batches in `TileVisitor`; `TaskServiceManager_proof`
   with `ServicesAreShared`. Done.
8. `TaskClients_proof`, the rest of `TaskServiceManager_proof`, `TileVisitor_proof`:
   every safety property and every refinement the runs check is a theorem. Done.
9. Safety lemmas that the liveness properties rest on (who is left to signal, to take, to
   wake). Next.
10. Elevation levels of `engine_osgterrain` (a tile waits for its parent and its
    neighbours: does everyone get there?), `MapModel` composed with `MPTiles`,
    `MultiEvent` with `ParallelTask`.

## Modules

`ReadWriteMutex` has one action for each call that `readLock`, `readUnlock`,
`writeLock` and `writeUnlock` make on an event, the counter or a mutex; `pc`
names the call. `Event::wait` blocks when `_set` is false and does not look
again when it wakes, so a broadcast takes blocked threads past their wait, as in
the code. `incrementReaderCount` and `decrementReaderCount` are one step: they
hold `_readerCountMutex`, and whoever else sees the event sees it only once.
`RWLock` is the lock as its users know it: readers enter while the gate is open,
a writer closes it, holds the lock when the readers are out, and opens it again.
`ReadWriteMutex` implements it with `readers`, `gate` and `writing` read off `pc`.

`EarthActor` has the handlers of the library, `TestEarth` extends it with the
entry point and the game manager. Everything runs on the game manager's thread, so a
handler is one step. `Listeners` are the actors whose game registered them for
`INFO_MAP_LOADED` (as a game may with any actor); the library's own registration is commented out
(`earthactor.cpp:47`), so for the library alone the set is empty. What the game manager does is external:
that it makes no actor of a type that is not registered, and drops its actors before it unloads
their library, is assumed. That the library is there before the map that needs it is the order
of the statements of `OnStartup`, and no property restates it.

`TaskService` is the queue, its threads and the calls of the pool's owner, with
no clients. `add()` is five steps, because it looks at the size of the queue under
`_addMutex` and a thread takes from it under `_mutex`; `get()` and the insertion are
one each. `TaskThread::run` is one action per decision. `adjustThreadCount`
computes a difference and then starts or stops one thread per step (`adjust`),
between which the threads go on. The destructor is four steps.
`TaskClients` composes it with clients that follow `StreamingTile`
(`servicePendingImageRequests`, `serviceCompletedRequests`, cancelation) and an
owner that follows `StreamingTerrainNode`. `TaskPool` is what a client
may rely on for one request. `maxSize` is a variable that nothing changes, so that a run
takes each of `MaxSizes`: the terrain's services have no limit
(`engine_osgterrain/StreamingTerrainNode.cpp:256`), the visitors' have one. The counts of adds and runs
of a request start again when its client makes it idle, which lets clients go round for
ever with no bound on them. `ImagePriority` is the number `updateImagery` gives a tile's imagery.

`TileVisitor` extends the same `TaskService` with `run()` of the multithreaded and the
multiprocess visitor. A key is the path of its quadrants, so that levels, children
and ancestors are those of sequences; `processKey`'s recursion is the sequence
`pending` of the keys still to look at. `Wanted` says without any traversal what should be visited,
`Given` what was put into tasks. `TaskOrder` names the task objects as they are made and bounds
their number. All requests of a visitor have one priority: neither the tasks nor the pill are
given another than the default of `TaskRequest` (`TaskService:45`).
The external program a batch is given to is taken to do what it is told.

`TaskServiceManager` has one action per locked call, with `getOrAdd` in two.
Weights are thousandths; `reallocate`'s product is an exact fraction rounded down,
where the code computes in `float`.

`MapModel` has the application's thread `App`, which alone changes the map: what a call does
under the write lock is one action, taken when nobody copies, and the callbacks
that follow it without the lock are steps of their own; the one callback is the engine's,
which syncs the engine's frame. `sync` looks at the revisions first, then takes the read lock and
copies, in two steps for each part of the map (cleared, then filled). Readers are
the draw threads of a geometry, which share a frame under `_frameSyncMutex`
(`engine_mp/MPGeometry.cpp:73`), and pager threads with a frame of their own.
`Snapshots` is what a frame promises: a map that counts revisions and frames that take all
of it at one instant. `MapModel` implements it, with the frames that are not being copied.

`MPTiles` has `engine_mp`'s tiles; a key stands for the four tiles of a
quad, which are built, merged and expired together. The main thread changes the
map, invalidates regions, culls (which is when a `TileGroup` installs its update agent and
a `TilePagedLOD` asks for its quad), merges what was loaded and expires. Each call it makes on a
registry is locked by itself and is a step of its own, kept in `todo`, so that the pager and the
draw thread come in between; a `move` is a `remove` and then a `bury`. The pager looks up
the registry's revision and the parent, makes the tile, and adds it. The draw
thread empties the registry of the dead. OSG's pager and scene graph are
external.

`LRUCache` has one step per call, as each holds the mutex to its end. `Fraction` stands for the
code's 10 (`_buf = _max/10`). `RecencyCache` is a set of entries, each used at some
time; the time a key was used is its place in the list.

Operators marked "Mutant" in a module are one-line defects of the definition
that follows them; nothing refers to them in the specifications. They show that each property
can fail.

## Runs

| Run | Instance | Shows |
|---|---|---|
| `test_earth` | two actors, one a listener, two entries each | viewers accounted for through every start, exception, re-entry and shutdown |
| `rwmutex` | four threads, each free to read or write | exclusion, accounting, no lost wake-up, refinement of `RWLock`, and under fairness a writer in line gets the lock |
| `rwmutex_spurious` | two threads, conditions that may wake by themselves | a writer in the company of a reader (`ThreadingUtils:67` and `:234`) |
| `task_service` | one client, the imagery of a coarse and of a fine tile, each added and recycled for ever, a queue without limit or of one, pool asked for 0 or 2 threads, two threads ever | accounting, one run per add, lowest number first, pool size, bound, `TaskPool`, service of what is in the queue and not starved, end of the destructor |
| `tile_visitor` | three tiles to visit among ten keys, three threads, either visitor, batches of two or three | a finished run handled, counted and reported everything it should and nothing else; one pill ends all threads |
| `tile_visitor_canceled` | the same, two threads | a canceled `run()` may never return (`TileVisitor.cpp:258`) |
| `service_manager` | three ids, two callers, three services, weights below zero, 1 and 2 | counts, shares, one service per id |
| `map` | two image layers, one each of the other parts, two draw threads on one frame, the engine's frame | frames are snapshots, the engine's follows, refinement of `Snapshots`, every reader's sync ends |
| `mp_tiles` | a root quad and its child, six tiles at a time, one map change, one invalidation | the live registry is the scene with the map's revision, the dead are out of it, changes reach every tile |
| `mp_tiles_parent` | the same with a quad at the last level, no invalidation | a tile built without its parent's model may stay in the scene (`engine_mp/TileModelFactory:129`) |
| `lru_cache` | five keys, two values, sizes of two and four, evicting a half | list and map in step, refinement of `RecencyCache` |
| `lru_cache_small` | three keys, a size of two, evicting the code's tenth | a cache over its maximum (`MemCache:28`) |

Bounds. Four threads are a reader inside, a late one, a writer and the next
writer, which are all the roles the lock has. A queue of one is full after one
request, which is where `add()` waits; in a queue without limit both requests wait together, and the
finer tile's, which has the lower number, goes before the other's whenever it comes in again.
Two threads are one that is told to stop and
one that goes on, and the pool shrinks and grows over them (`MaxThreads` bounds the threads ever
made; how often a request is added is not bounded). Three
threads on three tiles let a pill be passed on twice; batches of two leave one
over and batches of three none, so that the last batch is empty; there is data above, below
and beside the tiles wanted. Three
services are one that gets the extra thread, one that is lifted to a thread and
one removed (`MaxServices` bounds those ever made). `MaxEntries` bounds entries of an actor.
Two image layers can be moved past each other, and the other parts need one layer each to
be added and removed; `MaxRevision` leaves room for three changes after the four first layers: one before a frame
looks, one between its look and its lock, one after its copy. In `mp_tiles` six tiles are a live one, a
successor and a dead one for each quad, and one change of the map against one
invalidation is a tile that is replaced twice. A cache of two evicts one and one of
four two, and five keys overfill either. Deadlock is not checked
where a system may really stop: a destroyed service, a finished run, a
game that has quit.

### Fairness

* Lock: weak fairness of each thread inside the lock's code and of a holder's
  unlock; holders are scoped blocks. Nothing makes an idle thread ask.
* Task service: weak fairness of each adder inside `add()`, each thread of the
  pool and of what the owner has begun. Nothing makes a client add or an owner resize,
  cancel or destroy. Weak fairness suffices for the mutexes here because a
  holder always leaves and no property claims a turn for a given adder. Nor has a queued
  request a turn: `RequestsServed` excepts one that stays in the queue because lower numbers
  come in again and again (`Starved`), as `get()` always takes the lowest. Without the exception
  TLC finds that starvation in this run.
* Visitor: `run()` and the pool's threads are scheduled; cancelation is never
  forced.
* Map: weak fairness of the application's thread inside a callback's sync and of each reader
  inside its own. Nothing makes the application change the map or a reader look.
* Tiles: weak fairness of the calls the main thread has begun, of merging and of the
  pager's build. Culling a quad that is in view and starting its load have strong
  fairness, which is an assumption on the surroundings: a group that asks again every
  frame is not passed over for good by OSG's pager. Nothing makes
  anybody change the map, expire or cancel.
* The manager, the cache and the application claim no liveness.

### Disagreements found

* A wake-up without a signal ends `Event::wait` (`rwmutex_spurious`). The passing runs and
  the proofs are of condition variables that wake only when signalled.
* After `cancelAll()` a thread may take the pill and drop it, and the others
  are not woken (`tile_visitor_canceled`).
* A tile that was built while its parent was between the registries has no parent
  model and is not discarded (`mp_tiles_parent`).
* A cache of fewer than ten entries has a tenth of zero, evicts nothing and grows over the size
  cap that `MemCache:28` speaks of (`lru_cache_small`); `MemCache.cpp:122` takes any size from one,
  and an earth file may ask for it (`TileSource.cpp:193`).

Two more are not runs of their own. The comments at
`engine_osgterrain/StreamingTile.cpp:448-458` say that lower levels of detail should come first in
sequential mode and the highest in preemptive mode. `updateImagery` gives the lower levels the
higher numbers in the first and the highest level the highest number in the second, and the
queue serves the lowest number, so that each mode does what is meant for the other. That the lowest
number goes first is checked and proved (`LowestNumberFirst`); the numbers are
`ImagePriority`'s. And the manager's `setNumThreads`, said to set a new target (`TaskService:240`),
leaves it as it is: `reallocate` ignores its argument. Nothing in the repository calls it.

Also seen and not stated as a property, as nothing in the repository says otherwise:
`add()` releases the add mutex while it waits, so that with several adders,
or a pill put back into a full queue, the bound on the queue may be passed (with one adder
it holds: `BoundKept`, which therefore says nothing about two). A tile group whose update came
back without its four children never asks again (`TileGroup.cpp:101`), which
`UpdatesReachTheScene` excepts. `get()` signals
`_addCond` without `_addMutex`, and a producer that has just seen a full queue may sleep
for good when the queue is emptied before its wait. `RequestsServed` therefore
starts when a request is in the queue.

## Proofs

`ReadWriteMutex_proof` proves, for every finite set of threads and from `ThreadsAssumption`
alone, that `LockInv` is inductive. `MutualExclusion` is not inductive by
itself: that a writer past its waits is alone needs that the gate it closed is
still closed (`Accounting`: the flag of `_noWriterEvent` is false exactly when
some writer has closed it), that one writer at a time closes it
(`GateDiscipline`, from the writer mutex), and that a set `_noReadersEvent` means
nobody is registered (`Accounting` again); a broadcast takes blocked threads past
their wait without a look at the flag, which is sound because `NoLostWakeup` says that they
block only while the flag is false. The counter is kept apart: one lemma per
change of the set of registered threads, with the finite-set theorems, and one
`FlagsInv` without cardinalities for the solver. `Refinement` maps each action to
a step of `RWLock` or to none under that invariant.

`TestEarth_proof` proves for any set of actors and any `MaxEntries` that the
viewers are accounted for. The invariant adds that an actor that was never made was never
told of a map (making it resets `mConfig`).

`MapModel_proof` proves, for any layers, readers and frames and any number of
changes, that a frame is a snapshot, that the engine's follows, and that the frames
implement `Snapshots`. What carries it is `CopyIsRight`: while a thread copies, the map
stands still, the parts it has done are the map's and the rest is in `left`; with `HeldIsPast` (no
frame has a revision the map has not had) and `OneSyncs` (a frame has one thread syncing it,
by `_frameSyncMutex` or because it is its own) the step that sets the frame's revision
makes it a snapshot.

`LRUCache_proof` proves that list and map agree for any sizes, and the refinement of
`RecencyCache` from the assumption, stated in the theorem, that every size has
at least the tenth that is evicted. The lemmas are about sequences without
repetition: a suffix, a key taken out, a key moved to the end.

`MPTiles_proof` proves, for any tree of keys and any bounds, type correctness (everything a
registry, the scene or a load refers to exists), that every live tile knows the registry's
revision, that the scene's inner tiles are the live ones, and that the dead are out of use. For the
revisions a tile on its way is the hard case: it was made with an older one and `add` must correct
it. For the scene it is the main thread, which works through calls locked one by one:
`SceneInv` says what the calls still in `todo` will do (`Plan`), so that the registry
after them is the scene although between them it is not, and that loads stand in line for
a key, only one of which can still be merged.

`TaskClients_proof` is about the service with any clients, requests, priorities and sizes. Its first
part, `ServiceInv`, is kept by every operation of `TaskService` whoever calls it, with or
without pills: a request has one place (`OnePlace`), its place and the program counter of
who has it tell its state (`StateKnown`), and a request that is still to run has run
less often than it was added since it was last idle (`RunsKnown`). `RequestsAccounted` counts places and needs all
three: without the state, a request that is added again while a thread holds it would
have two. `PillFree` (there are no pills among these clients) and `PoolInv` give
`PoolMatchesCount`: what `adjust` has still to do is the difference between the threads that go on
and the number asked for. The theorem about the bound says what the code needs for it: one
client that adds (`RoomKept`: from its look at the size to its insertion only threads come
between, and they take). `LowestNumberFirst` rests on `QueueOrdered`, which an insertion keeps because in
an ordered queue the requests that do not come after the new one are those before its place
(`PlaceDivides`, by counting). The refinement of `TaskPool` maps each step to one of the pool or to
none, by the place of the one request.

`TaskServiceManager_proof` first shows that every step keeps the services, makes one for
an id that has none, or drops one: no service is under two ids and none is
replaced while it is managed. The counts are sums over a set of services. The community modules
fold such a sum in an order that is a `CHOOSE`, so the proof shows that
the fold exists and unfolds by one element (`SumsExist`, `SumUnfolds`), then bounds it
(`PartsWithinTarget`: the rounded parts of a target stay within it, except for those lifted to
one). `ManagerInv` adds that the shares are always those of the weights and the target.

`TileVisitor_proof` uses `ServiceInv` as it is and adds what the visitor knows. About the
tree: the wanted keys at and below a key are the key itself, if it is handled, and those of
its four children, which are different ones (`ReachedSplits`); so one look of
`processKey` loses and doubles nothing (`OneKeyOn`). `Traversal` then says that every wanted key
is ahead, in the batch, or in one task; `PillLast` that the pill stays behind the tasks, which
needs their equal priorities (`InsertedLast`), and that who holds it leaves only
pills queued; `Counted` that the count is the number of keys in the tasks that ran. A finished run
that nobody canceled has every thread out by the pill, so the queue holds no task, and none of them
was dropped, as none was told to stop (`Uncanceled`). `PillComesLast` and type correctness hold
of canceled runs as well. The proof showed that a visitor with nothing to visit reports
nothing, which the property now says.

Each invariant was checked by TLC on the run's instance before it was proved.
The assumptions are those named in the modules (`TaskAssumptions`, `VisitorAssumptions` and so on),
which TLC evaluates in the runs, and the hypotheses written in two theorems: one producer for
`BoundKept`, sizes that have a tenth for the cache.

Induction over data. The library's induction theorems take an operator and cannot be used by the
installed provers. Where a proof needs induction it is made by hand over a set: the subset of `Nat` (or
the family of subsets) that has the property contains the first and with each the next, so it
is all (`NatInductionOnSet`, `SubsetInduction`, from the least element of the
well-founded orders). No module that is proved about has a recursive operator.

Only model-checked: the liveness properties `WriterGetsLock`, `LockIsGranted`, `RequestsServed`,
`DestructorReturns`, `UncanceledRunReturns`, `FramesCatchUp` and `UpdatesReachTheScene`, because
liveness under fairness and `ENABLED` are out of the prover's reach; and the four
disagreements, which are counterexamples.

## Not modelled

* Rendering, formats, geometry and I/O; logging, names and timers; memory that is
  never freed, except viewers; memory ordering of `volatile` and `ref_ptr`
  accesses below one read or write. Most of the repository is of this kind, and a state
  machine has nothing to say about it: drivers, features, symbology, annotation, Qt,
  coordinate systems and grids of numbers.
* Of the task service: requests that a tile replaces by new ones
  (`resetElevationRequests`, `updateImagery`); the manager's unlocked `setNumThreads` overlapping
  other calls, which would iterate a map another thread changes.
* Of the visitors: the sequential ones, the files of task lists, the estimate of the
  total; external programs that fail.
* Of the map: its name, profile, cache and user data, layer options,
  `setLayersFromMap`, heights; several threads that change one map, which nothing here does.
* Of `engine_mp`: geometry, shaders, terrain callbacks, a second pager thread, heights
  cached under key and revision; the registry's `take` and `run`, which nobody calls on live
  tiles.
* Around `LRUCache`: the memory, state-set and disk caches; the per-thread maps;
  `MultiEvent` and `Event::waitAndReset`.
* Of `engine_osgterrain`: tile families, levels of detail, tile generation.
* Callers that nest the lock.
