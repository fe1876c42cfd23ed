---------------------------- MODULE TileVisitor ----------------------------
(***************************************************************************)
(* osgEarth's tile visitors that work in parallel.  run() makes a          *)
(* TaskService, adds a task for what TileVisitor::processKey finds in the  *)
(* quad-tree of the map's profile, then a PoisonPill, and waits until none *)
(* of the service's threads runs any more.  A MultithreadedTileVisitor     *)
(* makes a task of every tile, a MultiprocessTileVisitor one of every      *)
(* batch of tiles, and a last one of what is left, even if that is nothing.*)
(*                                                                         *)
(* A TileKey is its path from the root: <<1, 3>> is the last child of the  *)
(* second root key of the profile.                                         *)
(*                                                                         *)
(* The visitor's ProgressCallback may be canceled from outside or by a     *)
(* report of progress; it stops the traversal and, while run() waits,      *)
(* cancels the service.                                                    *)
(***************************************************************************)
EXTENDS TaskService

CONSTANTS visitor,              \* the thread in run()
          Visitors,             \* the visitors to run: "multithreaded", "multiprocess"
          TaskOrder,            \* bound: the task objects, in the order they are made
          RootKeys,             \* the profile's root keys, in order
          MinLevel, MaxLevel,   \* _minLevel, _maxLevel
          Data,                 \* the keys the handler has data for
          Extents,              \* the keys whose extent meets one of _extents
          BatchSizes            \* what _batchSize of the multiprocess visitor may be

ASSUME VisitorAssumptions ==
    /\ Clients = {visitor}
    /\ Visitors \subseteq {"multithreaded", "multiprocess"}
    /\ \E p \in Requests : Pills = {p}
    /\ \A r, s \in Requests : Priority[r] = Priority[s]
    /\ TaskOrder \in Seq(Requests \ Pills) /\ IsInjective(TaskOrder)
    /\ RootKeys \in Seq(Seq(Nat)) /\ IsInjective(RootKeys)
    /\ \A i \in 1 .. Len(RootKeys) : Len(RootKeys[i]) = 1
    /\ MinLevel \in Nat /\ MaxLevel \in Nat
    /\ BatchSizes \subseteq Nat \ {0}

VARIABLES
    kind,               \* which visitor it is
    vpc,                \* run(): "produce", "pill", "wait" or "finished"
    pending,            \* the keys processKey has still to look at, next one first
    batchSize,          \* _batchSize, 1 for the multithreaded visitor
    batch,              \* _batch
    made,               \* the number of tasks made
    keysOf,             \* the keys of each task
    progressCanceled,   \* _progress->isCanceled()
    processed,          \* _processed
    reports             \* history: the values reportProgress was called with

kindVars == <<kind, batchSize>>
traversalVars == <<kindVars, pending, batch, made, keysOf>>
visitorVars == <<traversalVars, vpc, progressCanceled, processed, reports>>
vars == <<taskVars, visitorVars>>

MadeTasks == {TaskOrder[i] : i \in 1 .. made}
Pill == CHOOSE p \in Pills : TRUE

Init ==
    /\ ServiceInit
    /\ kind \in Visitors
    /\ batchSize \in IF kind = "multiprocess" THEN BatchSizes ELSE {1}
    /\ vpc = "produce"
    /\ pending = RootKeys
    /\ batch = <<>>
    /\ made = 0
    /\ keysOf = [r \in Requests |-> <<>>]
    /\ progressCanceled = FALSE
    /\ processed = 0
    /\ reports = {}

-----------------------------------------------------------------------------
(* The traversal                                                           *)

Lod(k) == Len(k) - 1
Children(k) == [i \in 1 .. 4 |-> Append(k, i - 1)]

\* processKey only looks into keys with data that meet the extents,
Worthwhile(k) == k \in Data /\ k \in Extents

\* handles those from the least level on,
Handled(k) == Worthwhile(k) /\ Lod(k) >= MinLevel

\* and goes down to the last: handleTile of both visitors says to go on.
Below(k) == IF Worthwhile(k) /\ Lod(k) < MaxLevel THEN Children(k) ELSE <<>>

-----------------------------------------------------------------------------
(* run()                                                                   *)

Producing == vpc = "produce" /\ addPc[visitor] = "out"
TraversalOver == pending = <<>> \/ progressCanceled

\* The progress is looked at before every key.
NextKey == pending' = Below(Head(pending)) \o Tail(pending)

\* A new task for the keys ks goes to the service.
AddTask(ks) ==
    LET t == TaskOrder[made + 1]
    IN  /\ made < Len(TaskOrder)
        /\ AddBegin(visitor, t)
        /\ made' = made + 1
        /\ keysOf' = [keysOf EXCEPT ![t] = ks]

\* A key that is not handled itself.
PassKey ==
    /\ Producing
    /\ ~TraversalOver
    /\ ~Handled(Head(pending))
    /\ NextKey
    /\ UNCHANGED <<taskVars, kindVars, batch, made, keysOf>>
    /\ UNCHANGED <<vpc, progressCanceled, processed, reports>>

\* MultithreadedTileVisitor::handleTile
HandleTile ==
    /\ kind = "multithreaded"
    /\ Producing
    /\ ~TraversalOver
    /\ Handled(Head(pending))
    /\ AddTask(<<Head(pending)>>)
    /\ NextKey
    /\ UNCHANGED <<queue, queueDone, threadVars, serviceVars, kindVars, batch>>
    /\ UNCHANGED <<vpc, progressCanceled, processed, reports>>

\* MultiprocessTileVisitor::handleTile: a batch that is full becomes a task.
CollectTile ==
    /\ kind = "multiprocess"
    /\ Producing
    /\ ~TraversalOver
    /\ Handled(Head(pending))
    /\ LET b == Append(batch, Head(pending))
       IN  IF Len(b) = batchSize
           THEN AddTask(b) /\ batch' = <<>>
           ELSE batch' = b /\ UNCHANGED <<requestVars, addVars, made, keysOf>>
    /\ NextKey
    /\ UNCHANGED <<queue, queueDone, threadVars, serviceVars, kindVars>>
    /\ UNCHANGED <<vpc, progressCanceled, processed, reports>>

\* "Process any remaining tasks in the final batch", also when it is empty.
AddLastBatch ==
    /\ kind = "multiprocess"
    /\ Producing
    /\ TraversalOver
    /\ AddTask(batch)
    /\ batch' = <<>>
    /\ vpc' = "pill"
    /\ UNCHANGED <<queue, queueDone, threadVars, serviceVars, kindVars, pending>>
    /\ UNCHANGED <<progressCanceled, processed, reports>>

\* The poison pill follows the last task.
AddPill ==
    /\ \/ kind = "multithreaded" /\ vpc = "produce" /\ TraversalOver
       \/ vpc = "pill"
    /\ AddBegin(visitor, Pill)
    /\ vpc' = "wait"
    /\ UNCHANGED <<queue, queueDone, threadVars, serviceVars, traversalVars>>
    /\ UNCHANGED <<progressCanceled, processed, reports>>

Waits == vpc = "wait" /\ addPc[visitor] = "out" /\ OwnerIdle

\* Mutant: run() does not wait for the threads, only for the queue.
StopWaitingEarly ==
    /\ Waits
    /\ \A r \in MadeTasks : ~InQueue(r)
    /\ vpc' = "finished"
    /\ UNCHANGED <<taskVars, traversalVars>>
    /\ UNCHANGED <<progressCanceled, processed, reports>>

\* while( areThreadsRunning() )
StopWaiting ==
    /\ Waits
    /\ \A w \in threads : ~Running(w)
    /\ vpc' = "finished"
    /\ UNCHANGED <<taskVars, traversalVars>>
    /\ UNCHANGED <<progressCanceled, processed, reports>>

CancelService ==
    /\ Waits
    /\ progressCanceled
    /\ CancelAll
    /\ UNCHANGED visitorVars

-----------------------------------------------------------------------------
(* The tasks                                                               *)

\* HandleTileTask handles its tile, and an ExecuteTask the tiles of its batch;
\* either counts them with the mutex.
RunTile(w) ==
    /\ Run(w)
    /\ processed' = processed + Len(keysOf[held[w]])
    /\ UNCHANGED <<traversalVars, vpc, progressCanceled, reports>>

\* Mutant: a tile is counted here once more.
ReportTileCounting(w) ==
    /\ Complete(w)
    /\ processed' = processed + 1
    /\ reports' = reports \union {processed}
    /\ progressCanceled' \in {progressCanceled, TRUE}
    /\ UNCHANGED <<traversalVars, vpc>>

\* incrementProgress then reads the count again without the mutex and reports
\* it; the answer may cancel the visitor.  Nobody looks at the task's state
\* between this and its completion, which is the same step.
ReportTile(w) ==
    /\ Complete(w)
    /\ reports' = reports \union {processed}
    /\ progressCanceled' \in {progressCanceled, TRUE}
    /\ UNCHANGED <<traversalVars, vpc, processed>>

PassPillOn(w) == HandlePill(w) /\ UNCHANGED visitorVars

TaskThreadStep(w) ==
    \/ RunTile(w)
    \/ ReportTile(w)
    \/ PassPillOn(w)
    \/ /\ Loop(w) \/ Get(w) \/ Got(w) \/ HandleRequest(w)
       /\ UNCHANGED visitorVars

\* The user cancels.
Cancel ==
    /\ vpc # "finished"
    /\ ~progressCanceled
    /\ progressCanceled' = TRUE
    /\ UNCHANGED <<taskVars, traversalVars>>
    /\ UNCHANGED <<vpc, processed, reports>>

RunStep ==
    \/ PassKey \/ HandleTile \/ CollectTile \/ AddLastBatch \/ AddPill
    \/ StopWaiting \/ CancelService
    \/ OwnerStep /\ UNCHANGED visitorVars

AdderStep(a) == AddStep(a) /\ UNCHANGED visitorVars

Next ==
    \/ RunStep
    \/ Cancel
    \/ \E a \in Adders : AdderStep(a)
    \/ \E w \in Workers : TaskThreadStep(w)

\* run() and the threads of the pool are scheduled; nothing makes anybody
\* cancel.
Fairness ==
    /\ WF_vars(RunStep)
    /\ \A a \in Adders : WF_vars(AdderStep(a))
    /\ \A w \in Workers : WF_vars(TaskThreadStep(w))

Spec == Init /\ [][Next]_vars /\ Fairness

-----------------------------------------------------------------------------
(* Properties                                                              *)

\* What the traversal is for: the keys between the two levels that have data
\* and meet the extents, as do all the keys above them.
Wanted ==
    LET paths == {r \o p : r \in ToSet(RootKeys), p \in SeqOf(0 .. 3, MaxLevel)}
    IN  {k \in paths :
            /\ Lod(k) \in MinLevel .. MaxLevel
            /\ \A n \in 1 .. Len(k) : SubSeq(k, 1, n) \in Data \intersect Extents}

\* The keys given to tasks,
Given == UNION {ToSet(keysOf[r]) : r \in MadeTasks}

\* none of them twice.
GivenOnce ==
    \A r, s \in MadeTasks : \A m \in DOMAIN keysOf[r], n \in DOMAIN keysOf[s] :
        keysOf[r][m] = keysOf[s][n] => r = s /\ m = n

\* Type invariant.
TypeOK ==
    /\ ServiceTypeOK
    /\ kind \in Visitors
    /\ vpc \in {"produce", "pill", "wait", "finished"}
    /\ batchSize \in BatchSizes \union {1}
    /\ Len(batch) < batchSize
    /\ made \in 0 .. Len(TaskOrder)
    /\ progressCanceled \in BOOLEAN
    /\ processed \in 0 .. Cardinality(Given)
    /\ reports \subseteq 0 .. processed

\* A run that was not canceled returns only when every tile it was to visit,
\* and no other, has been given to one task, every task has run once, and the
\* full count has been reported: no batch is lost or visited twice, the pill
\* overtakes no task, and no thread leaves with one.
FinishedMeansHandled ==
    vpc = "finished" /\ ~progressCanceled =>
        /\ GivenOnce /\ Given = Wanted
        /\ \A r \in MadeTasks : runs[r] = 1 /\ state[r] = "COMPLETED"
        /\ processed = Cardinality(Wanted)
        /\ Wanted # {} => Cardinality(Wanted) \in reports

\* A thread takes the pill only when every task has been taken, so that none
\* is left behind by the threads that go down.
PillComesLast ==
    \A w \in Workers : held[w] = Pill => \A r \in MadeTasks : ~InQueue(r) /\ ~InAdd(r)

\* A run that nobody cancels returns: one pill stops every thread.
UncanceledRunReturns == <>(vpc = "finished" \/ progressCanceled)

\* "Wait for everything to finish, checking for cancellation while we wait so
\* we can kill all the existing tasks." (TileVisitor.cpp:258): run() returns,
\* canceled or not.
RunReturns == <>(vpc = "finished")
=============================================================================
