---------------------------- MODULE TaskService ----------------------------
(***************************************************************************)
(* osgEarth's TaskService: a TaskRequestQueue, a list of TaskThreads that  *)
(* take requests from it, and the calls that grow, shrink, cancel and      *)
(* destroy the pool (TaskService.cpp).                                     *)
(*                                                                         *)
(* Clients put requests in with add(); a thread that takes a PoisonPill    *)
(* puts it back with the same add(), so both are adders.  Inside add(), an *)
(* adder is at                                                             *)
(*                                                                         *)
(*   lock    the ScopedLock on _addMutex                                   *)
(*   full    it holds _addMutex and has seen the queue full                *)
(*   sleep   _addCond.wait(), which has released _addMutex                 *)
(*   woken   signalled, and waiting for _addMutex again                    *)
(*   insert  it holds _addMutex and is about to take _mutex and insert     *)
(*                                                                         *)
(* and a thread of the pool, running TaskThread::run, is at                *)
(*                                                                         *)
(*   loop      _request = 0; while( !_done )                               *)
(*   get       get(), before it has _mutex                                 *)
(*   wait      _cond.wait() in get()                                       *)
(*   got       get() has returned; if( _done ) break;                      *)
(*   handle    looks at what it got                                        *)
(*   pill      puts a PoisonPill back                                      *)
(*   run       _request->run()                                             *)
(*   complete  _request->setState( STATE_COMPLETED )                       *)
(*   exited    isRunning() is false                                        *)
(*                                                                         *)
(* The body of get() and the insertion hold _mutex and are one step each.  *)
(* add() reads the size of the queue with _addMutex only, so that a get()  *)
(* can come between its look and its wait.                                 *)
(***************************************************************************)
EXTENDS Integers, FiniteSets, SequencesExt

CONSTANTS
    Requests,       \* the TaskRequest objects
    Pills,          \* those that are PoisonPills
    Clients,        \* the threads outside the pool that add requests
    Owner,          \* the client each request belongs to
    Priority,       \* the priority of each request
    None,           \* no request, no thread
    MaxSizes,       \* what _maxSize of the queue may be, 0 for no limit
    FirstThreads,   \* the number of threads the service is made with
    MaxThreads      \* bound: TaskThreads ever made

ASSUME TaskAssumptions ==
    /\ Pills \subseteq Requests
    /\ Owner \in [Requests -> Clients]
    /\ Priority \in [Requests -> Int]
    /\ MaxSizes \subseteq Nat
    /\ MaxThreads \in Nat
    /\ FirstThreads \in 1 .. MaxThreads
    /\ None \notin Requests
    /\ None \notin Clients \union (1 .. MaxThreads)
    /\ Clients \intersect (1 .. MaxThreads) = {}

Workers == 1 .. MaxThreads
Adders == Clients \union Workers

VARIABLES
    state,          \* TaskRequest::_state of each request
    canceled,       \* its ProgressCallback's _canceled
    queue,          \* TaskRequestQueue::_requests, by priority, then by age
    maxSize,        \* its _maxSize
    queueDone,      \* TaskRequestQueue::_done
    addMutex,       \* the holder of _addMutex
    addPc, addArg,  \* where each adder is in add(), and with which request
    tpc,            \* where each thread is in TaskThread::run
    held,           \* its _request
    stop,           \* its _done
    threads,        \* TaskService::_threads; threads are numbered as they are made,
                    \* so that the order of the list is that of the numbers
    numThreads,     \* TaskService::_numThreads
    adjust,         \* what adjustThreadCount has still to add or to stop
    life,           \* "live", or the destructor's progress
    adds, runs      \* history: how often each request was added, and run,
                    \* since it was made or made idle again

requestVars == <<state, canceled, adds, runs>>
addVars == <<addMutex, addPc, addArg>>
threadVars == <<tpc, held, stop>>
serviceVars == <<maxSize, threads, numThreads, adjust, life>>
taskVars == <<requestVars, queue, queueDone, addVars, threadVars, serviceVars>>

States == {"IDLE", "PENDING", "IN_PROGRESS", "COMPLETED"}
AddPcs == {"out", "lock", "full", "sleep", "woken", "insert"}
ThreadPcs == {"unborn", "loop", "get", "wait", "got", "handle", "pill", "run",
              "complete", "exited"}

\* The constructor has started its threads.
ServiceInit ==
    /\ state = [r \in Requests |-> "IDLE"]
    /\ canceled = [r \in Requests |-> FALSE]
    /\ queue = <<>>
    /\ maxSize \in MaxSizes
    /\ queueDone = FALSE
    /\ addMutex = None
    /\ addPc = [a \in Adders |-> "out"]
    /\ addArg = [a \in Adders |-> None]
    /\ tpc = [w \in Workers |-> IF w <= FirstThreads THEN "loop" ELSE "unborn"]
    /\ held = [w \in Workers |-> None]
    /\ stop = [w \in Workers |-> FALSE]
    /\ threads = 1 .. FirstThreads
    /\ numThreads = FirstThreads
    /\ adjust = 0
    /\ life = "live"
    /\ adds = [r \in Requests |-> 0]
    /\ runs = [r \in Requests |-> 0]

-----------------------------------------------------------------------------
(* TaskRequestQueue                                                        *)

Waiting == {w \in Workers : tpc[w] = "wait"}
Sleeping == {a \in Adders : addPc[a] = "sleep"}

\* Mutant: in the order of arrival.
InsertByArrival(q, r) == Append(q, r)

\* Mutant: in front of the requests of the same priority.
InsertInFront(q, r) ==
    LET before == {i \in 1 .. Len(q) : Priority[q[i]] < Priority[r]}
    IN  InsertAt(q, Cardinality(before) + 1, r)

\* multimap::insert: behind every request of the same or a lower priority.
InsertByPriority(q, r) ==
    LET before == {i \in 1 .. Len(q) : Priority[q[i]] <= Priority[r]}
    IN  InsertAt(q, Cardinality(before) + 1, r)

\* _cond.signal(): one thread blocked in get(), if there is one, goes back to
\* the condition of its loop.  pcs are the other threads' next places.
SignalThread(pcs) ==
    IF Waiting = {} THEN tpc' = pcs
    ELSE \E w \in Waiting : tpc' = [pcs EXCEPT ![w] = "get"]

\* _addCond.signal(): one adder asleep in add() wakes up.
SignalAdder ==
    IF Sleeping = {} THEN UNCHANGED addPc
    ELSE \E a \in Sleeping : addPc' = [addPc EXCEPT ![a] = "woken"]

\* add() marks the request before it takes any lock.
AddBegin(a, r) ==
    /\ addPc[a] = "out"
    /\ addPc' = [addPc EXCEPT ![a] = "lock"]
    /\ addArg' = [addArg EXCEPT ![a] = r]
    /\ state' = [state EXCEPT ![r] = "PENDING"]
    /\ adds' = [adds EXCEPT ![r] = @ + 1]
    /\ UNCHANGED <<addMutex, canceled, runs>>

\* Mutant: add() does not look at the size of the queue.
AddLockUnbounded(a) ==
    /\ addPc[a] = "lock"
    /\ addMutex = None
    /\ addMutex' = a
    /\ addPc' = [addPc EXCEPT ![a] = "insert"]
    /\ UNCHANGED <<requestVars, queue, queueDone, addArg, threadVars, serviceVars>>

\* _addMutex, then one look at the size of the queue.
AddLock(a) ==
    /\ addPc[a] = "lock"
    /\ addMutex = None
    /\ addMutex' = a
    /\ addPc' = [addPc EXCEPT ![a] =
                   IF maxSize > 0 /\ Len(queue) = maxSize THEN "full" ELSE "insert"]
    /\ UNCHANGED <<requestVars, queue, queueDone, addArg, threadVars, serviceVars>>

\* _addCond.wait( &_addMutex )
AddWait(a) ==
    /\ addPc[a] = "full"
    /\ addMutex' = None
    /\ addPc' = [addPc EXCEPT ![a] = "sleep"]
    /\ UNCHANGED <<requestVars, queue, queueDone, addArg, threadVars, serviceVars>>

\* It does not look at the size again.
AddWakeUp(a) ==
    /\ addPc[a] = "woken"
    /\ addMutex = None
    /\ addMutex' = a
    /\ addPc' = [addPc EXCEPT ![a] = "insert"]
    /\ UNCHANGED <<requestVars, queue, queueDone, addArg, threadVars, serviceVars>>

\* Mutant: the insertion wakes no thread.
AddInsertSilent(a) ==
    /\ addPc[a] = "insert"
    /\ queue' = InsertByPriority(queue, addArg[a])
    /\ addMutex' = None
    /\ addPc' = [addPc EXCEPT ![a] = "out"]
    /\ addArg' = [addArg EXCEPT ![a] = None]
    /\ tpc' = IF a \in Workers THEN [tpc EXCEPT ![a] = "exited"] ELSE tpc
    /\ UNCHANGED <<requestVars, queueDone, held, stop, serviceVars>>

\* The insertion, and a signal to one thread.  A thread that has put a pill
\* back leaves its loop.
AddInsert(a) ==
    /\ addPc[a] = "insert"
    /\ queue' = InsertByPriority(queue, addArg[a])
    /\ addMutex' = None
    /\ addPc' = [addPc EXCEPT ![a] = "out"]
    /\ addArg' = [addArg EXCEPT ![a] = None]
    /\ SignalThread(IF a \in Workers THEN [tpc EXCEPT ![a] = "exited"] ELSE tpc)
    /\ UNCHANGED <<requestVars, queueDone, held, stop, serviceVars>>

AddStep(a) == AddLock(a) \/ AddWait(a) \/ AddWakeUp(a) \/ AddInsert(a)

\* Mutant: get() leaves the request in the queue.
GetKeeping(w) ==
    /\ tpc[w] = "get"
    /\ IF queueDone
       THEN /\ tpc' = [tpc EXCEPT ![w] = "got"]
            /\ held' = [held EXCEPT ![w] = None]
       ELSE IF queue = <<>>
       THEN tpc' = [tpc EXCEPT ![w] = "wait"] /\ UNCHANGED held
       ELSE /\ held' = [held EXCEPT ![w] = Head(queue)]
            /\ SignalThread([tpc EXCEPT ![w] = "got"])
    /\ UNCHANGED <<requestVars, queue, queueDone, addVars, stop, serviceVars>>

\* get(): nothing once the queue is done, otherwise the first request, with a
\* signal to the next thread and one to an adder.
Get(w) ==
    /\ tpc[w] = "get"
    /\ IF queueDone
       THEN /\ tpc' = [tpc EXCEPT ![w] = "got"]
            /\ held' = [held EXCEPT ![w] = None]
            /\ UNCHANGED <<queue, addPc>>
       ELSE IF queue = <<>>
       THEN /\ tpc' = [tpc EXCEPT ![w] = "wait"]
            /\ UNCHANGED <<queue, addPc, held>>
       ELSE /\ held' = [held EXCEPT ![w] = Head(queue)]
            /\ queue' = Tail(queue)
            /\ SignalThread([tpc EXCEPT ![w] = "got"])
            /\ SignalAdder
    /\ UNCHANGED <<requestVars, queueDone, addMutex, addArg, stop, serviceVars>>

-----------------------------------------------------------------------------
(* TaskThread::run                                                         *)

WorkerUnchanged == UNCHANGED <<queue, queueDone, addVars, stop, serviceVars>>

\* The request is let go of; only the destructor looks at _request.
Loop(w) ==
    /\ tpc[w] = "loop"
    /\ held' = [held EXCEPT ![w] = None]
    /\ tpc' = [tpc EXCEPT ![w] = IF stop[w] THEN "exited" ELSE "get"]
    /\ UNCHANGED requestVars /\ WorkerUnchanged

\* if( _done ) break;  What the thread has taken stays in its _request.
Got(w) ==
    /\ tpc[w] = "got"
    /\ tpc' = [tpc EXCEPT ![w] = IF stop[w] THEN "exited"
                                 ELSE IF held[w] = None THEN "loop"
                                 ELSE "handle"]
    /\ UNCHANGED <<requestVars, held>> /\ WorkerUnchanged

\* Mutant: the thread leaves with the pill.
HandlePillKeeping(w) ==
    /\ tpc[w] = "handle"
    /\ held[w] \in Pills
    /\ tpc' = [tpc EXCEPT ![w] = "exited"]
    /\ UNCHANGED <<requestVars, queue, queueDone, addVars, held, stop, serviceVars>>

\* A PoisonPill goes back into the queue: "you're all going down with me".
HandlePill(w) ==
    /\ tpc[w] = "handle"
    /\ held[w] \in Pills
    /\ tpc' = [tpc EXCEPT ![w] = "pill"]
    /\ AddBegin(w, held[w])
    /\ UNCHANGED <<queue, queueDone, held, stop, serviceVars>>

\* A request that is no longer pending is discarded, one that was canceled is
\* passed over, and any other is run.
HandleRequest(w) ==
    LET r == held[w] IN
    /\ tpc[w] = "handle"
    /\ r \notin Pills
    /\ IF state[r] # "PENDING"
       THEN /\ canceled' = [canceled EXCEPT ![r] = TRUE]
            /\ tpc' = [tpc EXCEPT ![w] = "complete"]
            /\ UNCHANGED state
       ELSE IF canceled[r]
       THEN /\ tpc' = [tpc EXCEPT ![w] = "complete"]
            /\ UNCHANGED <<state, canceled>>
       ELSE /\ state' = [state EXCEPT ![r] = "IN_PROGRESS"]
            /\ tpc' = [tpc EXCEPT ![w] = "run"]
            /\ UNCHANGED canceled
    /\ UNCHANGED <<adds, runs, held>> /\ WorkerUnchanged

\* TaskRequest::run looks at the state once more.
Run(w) ==
    LET r == held[w] IN
    /\ tpc[w] = "run"
    /\ tpc' = [tpc EXCEPT ![w] = "complete"]
    /\ IF state[r] = "IN_PROGRESS"
       THEN runs' = [runs EXCEPT ![r] = @ + 1] /\ UNCHANGED canceled
       ELSE canceled' = [canceled EXCEPT ![r] = TRUE] /\ UNCHANGED runs
    /\ UNCHANGED <<state, adds, held>> /\ WorkerUnchanged

Complete(w) ==
    /\ tpc[w] = "complete"
    /\ state' = [state EXCEPT ![held[w]] = "COMPLETED"]
    /\ tpc' = [tpc EXCEPT ![w] = "loop"]
    /\ UNCHANGED <<canceled, adds, runs, held>> /\ WorkerUnchanged

\* The steps of a thread; HandlePill joins them where there are pills.
ThreadStep(w) ==
    \/ Loop(w)
    \/ Get(w)
    \/ Got(w)
    \/ HandleRequest(w)
    \/ Run(w)
    \/ Complete(w)

-----------------------------------------------------------------------------
(* TaskService: one thread, the update traversal, makes these calls.       *)

Running(w) == tpc[w] \notin {"unborn", "exited"}

\* removeFinishedThreads: erased from the list, not deleted.
StillRunning == {w \in threads : Running(w)}

Active(list) == {w \in list : ~stop[w]}

\* The thread at the head of a list.
First(w, list) == w \in list /\ \A v \in list : w <= v

\* Mutant: the threads already told to stop count as active.
AdjustThreadCountByLength(n) ==
    /\ threads' = StillRunning
    /\ numThreads' = n
    /\ adjust' = n - Cardinality(StillRunning)
    /\ adjust' <= Cardinality({w \in Workers : tpc[w] = "unborn"})

\* Mutant: the number asked for is added to the old one.
AdjustThreadCountAdding(n) ==
    /\ threads' = StillRunning
    /\ numThreads' = numThreads + n
    /\ adjust' = n - Cardinality(Active(StillRunning))
    /\ adjust' <= Cardinality({w \in Workers : tpc[w] = "unborn"})

\* adjustThreadCount, up to the number of threads to add or to stop.  The last
\* conjunct is the bound MaxThreads.
AdjustThreadCount(n) ==
    /\ threads' = StillRunning
    /\ numThreads' = n
    /\ adjust' = n - Cardinality(Active(StillRunning))
    /\ adjust' <= Cardinality({w \in Workers : tpc[w] = "unborn"})

OwnerIdle == life = "live" /\ adjust = 0

OwnerUnchanged == UNCHANGED <<requestVars, queue, maxSize, addVars, held>>

SetNumThreads(n) ==
    /\ OwnerIdle
    /\ numThreads # n
    /\ AdjustThreadCount(IF n > 1 THEN n ELSE 1)
    /\ UNCHANGED <<queueDone, tpc, stop, life>> /\ OwnerUnchanged

CancelAll ==
    /\ OwnerIdle
    /\ numThreads > 0
    /\ AdjustThreadCount(0)
    /\ UNCHANGED <<queueDone, tpc, stop, life>> /\ OwnerUnchanged

\* A new TaskThread, the number of which is within the bound.
AddThread(w) ==
    /\ adjust > 0
    /\ tpc[w] = "unborn"
    /\ \A v \in 1 .. w - 1 : tpc[v] # "unborn"
    /\ tpc' = [tpc EXCEPT ![w] = "loop"]
    /\ threads' = threads \union {w}
    /\ adjust' = adjust - 1
    /\ UNCHANGED <<queueDone, stop, numThreads, life>> /\ OwnerUnchanged

\* The first thread of the list that has not been told yet is told to stop.
StopThread ==
    /\ adjust < 0
    /\ \E w \in Workers : /\ First(w, Active(threads))
                         /\ stop' = [stop EXCEPT ![w] = TRUE]
    /\ adjust' = adjust + 1
    /\ UNCHANGED <<queueDone, tpc, threads, numThreads, life>> /\ OwnerUnchanged

\* setStamp, every sixty frames.
SetStamp ==
    /\ OwnerIdle
    /\ threads # StillRunning
    /\ threads' = StillRunning
    /\ UNCHANGED <<queueDone, tpc, stop, numThreads, adjust, life>> /\ OwnerUnchanged

\* Mutant: setDone signals nobody.
DestroySilent ==
    /\ OwnerIdle
    /\ \A c \in Clients : addPc[c] = "out"
    /\ life' = "flags"
    /\ queueDone' = TRUE
    /\ UNCHANGED <<tpc, stop, threads, numThreads, adjust>> /\ OwnerUnchanged

\* ~TaskService, which only the last owner of the service can reach: no client
\* is inside add().  setDone signals often enough to wake every thread.
Destroy ==
    /\ OwnerIdle
    /\ \A c \in Clients : addPc[c] = "out"
    /\ life' = "flags"
    /\ queueDone' = TRUE
    /\ tpc' = [w \in Workers |-> IF tpc[w] = "wait" THEN "get" ELSE tpc[w]]
    /\ UNCHANGED <<stop, threads, numThreads, adjust>> /\ OwnerUnchanged

\* setDone( true ) on every thread of the list.
DestroyFlags ==
    /\ life = "flags"
    /\ life' = "cancel"
    /\ stop' = [w \in Workers |-> stop[w] \/ w \in threads]
    /\ UNCHANGED <<queueDone, tpc, threads, numThreads, adjust>> /\ OwnerUnchanged

\* TaskThread::cancel: a running thread's request is canceled.
DestroyCancel ==
    /\ life = "cancel"
    /\ life' = "join"
    /\ \E w \in Workers :
          /\ First(w, threads)
          /\ canceled' = IF Running(w) /\ held[w] # None
                         THEN [canceled EXCEPT ![held[w]] = TRUE] ELSE canceled
    /\ UNCHANGED <<state, adds, runs, queue, maxSize, queueDone, addVars, threadVars,
                   threads, numThreads, adjust>>

\* ... and waited for, and deleted.
DestroyJoin ==
    /\ life = "join"
    /\ \E w \in Workers : /\ First(w, threads)
                         /\ ~Running(w)
                         /\ threads' = threads \ {w}
    /\ life' = "cancel"
    /\ UNCHANGED <<queueDone, tpc, stop, numThreads, adjust>> /\ OwnerUnchanged

DestroyEnd ==
    /\ life = "cancel"
    /\ threads = {}
    /\ life' = "gone"
    /\ UNCHANGED <<queueDone, tpc, stop, threads, numThreads, adjust>> /\ OwnerUnchanged

\* What the owner has begun it goes on with.
OwnerStep ==
    \/ \E w \in Workers : AddThread(w)
    \/ StopThread
    \/ DestroyFlags \/ DestroyCancel \/ DestroyJoin \/ DestroyEnd

-----------------------------------------------------------------------------
(* Properties of the queue and its threads, whoever the clients are        *)

ServiceTypeOK ==
    /\ state \in [Requests -> States]
    /\ canceled \in [Requests -> BOOLEAN]
    /\ queue \in Seq(Requests)
    /\ maxSize \in MaxSizes
    /\ queueDone \in BOOLEAN
    /\ addMutex \in Adders \union {None}
    /\ addPc \in [Adders -> AddPcs]
    /\ addArg \in [Adders -> Requests \union {None}]
    /\ tpc \in [Workers -> ThreadPcs]
    /\ held \in [Workers -> Requests \union {None}]
    /\ stop \in [Workers -> BOOLEAN]
    /\ threads \subseteq Workers
    /\ numThreads \in 0 .. MaxThreads
    /\ adjust \in -MaxThreads .. MaxThreads
    /\ life \in {"live", "flags", "cancel", "join", "gone"}

InAdd(r) == \E a \in Adders : addArg[a] = r /\ addPc[a] # "out"
InQueue(r) == \E i \in 1 .. Len(queue) : queue[i] = r
TakenBy(w, r) == held[w] = r /\ tpc[w] \in {"got", "handle", "run", "complete"}

\* A thread that was told to stop between its while( !_done ) and its
\* if( _done ) leaves with the request it has taken in between.
DroppedBy(w, r) == held[w] = r /\ tpc[w] = "exited" /\ stop[w]
Dropped(r) == \E w \in Workers : DroppedBy(w, r)

\* A request that has been added and not completed is in exactly one place:
\* on its way in, in the queue, with one thread, or dropped by one that was
\* told to stop.  No signal, cancel or change of the pool loses it otherwise
\* or hands it to two threads.
RequestsAccounted ==
    \A r \in Requests \ Pills :
        state[r] \in {"PENDING", "IN_PROGRESS"} =>
            Cardinality({a \in Adders : addArg[a] = r}
                        \union {w \in Workers : TakenBy(w, r) \/ DroppedBy(w, r)})
            + Cardinality({i \in 1 .. Len(queue) : queue[i] = r}) = 1

\* Two threads never work on one request, and from one time its client makes it
\* idle to the next it runs at most as often as it was added.
RunOncePerAdd ==
    /\ \A r \in Requests : runs[r] <= adds[r]
    /\ \A r \in Requests \ Pills : \A v, w \in Workers :
          TakenBy(v, r) /\ TakenBy(w, r) => v = w

\* A thread that takes a request leaves none with a lower number behind.  The
\* lowest number goes first: the code that numbers a tile's imagery by its level
\* means it the other way round (StreamingTile.cpp:448-458).
LowestNumberFirst ==
    [][\A w \in Workers :
          tpc[w] = "get" /\ tpc'[w] = "got" /\ held'[w] # None =>
              \A r \in Requests : InQueue(r) => Priority[held'[w]] <= Priority[r]]_taskVars

\* When adjustThreadCount is through, as many threads are meant to go on as
\* the service was told.
PoolMatchesCount ==
    life = "live" /\ adjust = 0 => Cardinality(Active(threads)) = numThreads

\* A bounded queue with one producer never holds more than _maxSize.
BoundKept == maxSize > 0 => Len(queue) <= maxSize
=============================================================================
