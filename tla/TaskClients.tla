---------------------------- MODULE TaskClients ----------------------------
(***************************************************************************)
(* A TaskService in use: clients that add, cancel and recycle requests the *)
(* way StreamingTile does in the update traversal, and an owner that       *)
(* resizes the pool, cancels it and in the end destroys it.                *)
(*                                                                         *)
(* A client adds a request only when it is idle, and makes it idle again   *)
(* only when it has completed without a result: if it was canceled it gets *)
(* a new progress callback, if it failed it is tried again as it is.  No   *)
(* tile adds a PoisonPill, and so no thread ever takes one.                *)
(***************************************************************************)
EXTENDS TaskService

CONSTANT PoolSizes      \* the numbers of threads the owner asks for

ASSUME ClientAssumptions == PoolSizes \subseteq Nat

\* The priority updateImagery gives the request of a tile of level lod, in
\* tenths.
ImagePriority(mode, lod) ==
    1 + (IF mode = "sequential" THEN -10 * lod ELSE 10 * lod)

ClientCalls(c) == life = "live" /\ addPc[c] = "out"

\* Mutant: a request is added again while it is on its way.
AddRequestAgain(c, r) ==
    /\ ClientCalls(c)
    /\ Owner[r] = c
    /\ AddBegin(c, r)
    /\ UNCHANGED <<queue, queueDone, threadVars, serviceVars>>

\* servicePendingImageRequests: if ( r->isIdle() ) ... add( r )
AddRequest(c, r) ==
    /\ ClientCalls(c)
    /\ Owner[r] = c
    /\ state[r] = "IDLE"
    /\ AddBegin(c, r)
    /\ UNCHANGED <<queue, queueDone, threadVars, serviceVars>>

ClientUnchanged ==
    UNCHANGED <<queue, queueDone, addVars, threadVars, serviceVars>>

\* Mutant: the request is made idle as soon as it is canceled.
RecycleRequestEarly(c, r) ==
    /\ ClientCalls(c)
    /\ Owner[r] = c
    /\ state[r] = "COMPLETED" \/ canceled[r]
    /\ state' = [state EXCEPT ![r] = "IDLE"]
    /\ canceled' = [canceled EXCEPT ![r] = FALSE]
    /\ adds' = [adds EXCEPT ![r] = 0]
    /\ runs' = [runs EXCEPT ![r] = 0]
    /\ ClientUnchanged

\* serviceCompletedRequests: a canceled request gets a new callback, which is
\* not canceled; one without a result is only reset.
RecycleRequest(c, r) ==
    /\ ClientCalls(c)
    /\ Owner[r] = c
    /\ state[r] = "COMPLETED"
    /\ state' = [state EXCEPT ![r] = "IDLE"]
    /\ canceled' = [canceled EXCEPT ![r] = FALSE]
    /\ adds' = [adds EXCEPT ![r] = 0]
    /\ runs' = [runs EXCEPT ![r] = 0]
    /\ ClientUnchanged

\* cancelActiveTasks: whatever state the request is in.
CancelRequest(c, r) ==
    /\ ClientCalls(c)
    /\ Owner[r] = c
    /\ ~canceled[r]
    /\ canceled' = [canceled EXCEPT ![r] = TRUE]
    /\ UNCHANGED <<state, adds, runs>>
    /\ ClientUnchanged

ClientStep(c) ==
    \E r \in Requests \ Pills : AddRequest(c, r) \/ RecycleRequest(c, r) \/ CancelRequest(c, r)

OwnerCall ==
    \/ \E n \in PoolSizes : SetNumThreads(n)
    \/ CancelAll
    \/ SetStamp
    \/ Destroy

ClientsNext ==
    \/ \E c \in Clients : ClientStep(c)
    \/ \E a \in Adders : AddStep(a)
    \/ \E w \in Workers : ThreadStep(w)
    \/ OwnerCall
    \/ OwnerStep

\* Whoever has begun a call goes on with it, and the threads of the pool are
\* scheduled; nothing makes a client add or the owner change anything.
ClientsFairness ==
    /\ \A a \in Adders : WF_taskVars(AddStep(a))
    /\ \A w \in Workers : WF_taskVars(ThreadStep(w))
    /\ WF_taskVars(OwnerStep)

ClientsSpec == ServiceInit /\ [][ClientsNext]_taskVars /\ ClientsFairness

-----------------------------------------------------------------------------
(* Properties                                                              *)

\* The life of each request as its client may rely on it.
Status(r) ==
    IF Dropped(r) THEN "dropped"
    ELSE CASE state[r] = "IDLE" -> "idle"
           [] state[r] = "PENDING" -> "submitted"
           [] state[r] = "IN_PROGRESS" -> "started"
           [] OTHER -> "done"

Pool == INSTANCE TaskPool WITH status <- [r \in Requests |-> Status(r)]

ImplementsPool == Pool!Spec

\* A request of a lower number is queued.
Overtaken(r) == \E s \in Requests : InQueue(s) /\ Priority[s] < Priority[r]

\* It stays in the queue because such requests come in again and again.
Starved(r) == <>[]InQueue(r) /\ []<>Overtaken(r)

\* What is in the queue is completed, unless requests of lower numbers come in
\* front of it for ever (get() takes the first of the multimap, and a queued
\* request never moves up), the service is told to cancel or goes away, or the
\* request is dropped by a thread that is told to stop.  An adder may sleep for
\* good before it gets there: see AddWait.
RequestsServed ==
    \A r \in Requests :
        \/ Starved(r)
        \/ InQueue(r) ~> \/ state[r] = "COMPLETED"
                         \/ Dropped(r)
                         \/ numThreads = 0
                         \/ life # "live"

\* The destructor gets every thread out of get(), of the queue and of its
\* task: its signals and flags leave none waiting.
DestructorReturns == life = "flags" ~> life = "gone"
=============================================================================
