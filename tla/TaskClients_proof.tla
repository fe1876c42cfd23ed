------------------------- MODULE TaskClients_proof -------------------------
(***************************************************************************)
(* A task service loses no request and hands none to two threads, has as   *)
(* many active threads as it was told, keeps the bound of its queue with   *)
(* one producer, serves the lowest number first, and implements TaskPool:  *)
(* for any requests, clients and priorities, and however often the pool is *)
(* resized.                                                                *)
(*                                                                         *)
(* The first parts say, operation by operation, that the service keeps     *)
(* ServiceInv whoever its clients are, with or without PoisonPills; the    *)
(* others are about the clients of TaskClients.                            *)
(***************************************************************************)
EXTENDS TaskClients, FiniteSetTheorems, SequenceTheorems, TLAPS

-----------------------------------------------------------------------------
(* The queue                                                               *)

\* Where multimap::insert puts a request.
Place(q, r) == Cardinality({i \in 1 .. Len(q) : Priority[q[i]] <= Priority[r]}) + 1

\* It puts one request in and moves those behind it up.
LEMMA InsertShape ==
    ASSUME NEW q \in Seq(Requests), NEW r \in Requests
    PROVE  /\ InsertByPriority(q, r) \in Seq(Requests)
           /\ Len(InsertByPriority(q, r)) = Len(q) + 1
           /\ Place(q, r) \in 1 .. Len(q) + 1
           /\ \A j \in 1 .. Len(q) + 1 :
                 InsertByPriority(q, r)[j] =
                     IF j < Place(q, r) THEN q[j]
                     ELSE IF j = Place(q, r) THEN r ELSE q[j - 1]
<1> DEFINE before == {i \in 1 .. Len(q) : Priority[q[i]] <= Priority[r]}
           n == Cardinality(before)
           a == SubSeq(q, 1, n)
           b == SubSeq(q, n + 1, Len(q))
<1>1. Len(q) \in Nat
  OBVIOUS
<1>2. n \in 0 .. Len(q)
  <2>1. IsFiniteSet(1 .. Len(q)) /\ Cardinality(1 .. Len(q)) = Len(q)
    BY <1>1, FS_Interval
  <2>2. before \subseteq 1 .. Len(q)
    OBVIOUS
  <2>3. IsFiniteSet(before) /\ Cardinality(before) <= Cardinality(1 .. Len(q))
    BY <2>1, <2>2, FS_Subset
  <2>4. Cardinality(before) \in Nat
    BY <2>3, FS_CardinalityType
  <2> QED
    BY <1>1, <2>1, <2>3, <2>4
<1>3. InsertByPriority(q, r) = (a \o <<r>>) \o b
  <2>1. InsertByPriority(q, r) = SubSeq(q, 1, (n + 1) - 1) \o <<r>> \o SubSeq(q, n + 1, Len(q))
    BY DEF InsertByPriority, InsertAt
  <2>2. (n + 1) - 1 = n
    BY <1>2
  <2> QED
    BY <2>1, <2>2
<1> HIDE DEF n
<1>4. /\ a \in Seq(Requests) /\ Len(a) = n
      /\ \A i \in 1 .. n : a[i] = q[i]
  BY <1>1, <1>2, SubSeqProperties
<1>5. /\ b \in Seq(Requests) /\ Len(b) = Len(q) - n
      /\ \A i \in 1 .. Len(q) - n : b[i] = q[n + i]
  BY <1>1, <1>2, SubSeqProperties
<1> HIDE DEF a, b
<1>6. <<r>> \in Seq(Requests) /\ Len(<<r>>) = 1 /\ <<r>>[1] = r
  OBVIOUS
<1>7. /\ a \o <<r>> \in Seq(Requests)
      /\ Len(a \o <<r>>) = n + 1
      /\ \A i \in 1 .. n + 1 : (a \o <<r>>)[i] = IF i <= n THEN a[i] ELSE <<r>>[i - n]
  BY <1>4, <1>6, ConcatProperties
<1> DEFINE c == a \o <<r>>
<1> HIDE DEF c
<1>8. /\ InsertByPriority(q, r) \in Seq(Requests)
      /\ Len(InsertByPriority(q, r)) = Len(q) + 1
      /\ \A i \in 1 .. Len(q) + 1 :
            InsertByPriority(q, r)[i] = IF i <= n + 1 THEN c[i] ELSE b[i - (n + 1)]
  <2>1. c \in Seq(Requests) /\ Len(c) = n + 1
    BY <1>7 DEF c
  <2>2. /\ c \o b \in Seq(Requests)
        /\ Len(c \o b) = Len(c) + Len(b)
        /\ \A i \in 1 .. Len(c) + Len(b) :
              (c \o b)[i] = IF i <= Len(c) THEN c[i] ELSE b[i - Len(c)]
    BY <1>5, <2>1, ConcatProperties
  <2>3. Len(c) + Len(b) = Len(q) + 1
    BY <1>1, <1>2, <1>5, <2>1
  <2>4. InsertByPriority(q, r) = c \o b
    BY <1>3 DEF c
  <2> QED
    BY <2>1, <2>2, <2>3, <2>4
<1>9. n + 1 \in 1 .. Len(q) + 1
  BY <1>1, <1>2
<1>10. \A j \in 1 .. Len(q) + 1 :
          InsertByPriority(q, r)[j] =
              IF j < n + 1 THEN q[j] ELSE IF j = n + 1 THEN r ELSE q[j - 1]
  <2> SUFFICES ASSUME NEW j \in 1 .. Len(q) + 1
               PROVE  InsertByPriority(q, r)[j] =
                        IF j < n + 1 THEN q[j] ELSE IF j = n + 1 THEN r ELSE q[j - 1]
    OBVIOUS
  <2>1. CASE j < n + 1
    BY <1>1, <1>2, <1>4, <1>7, <1>8, <2>1 DEF c
  <2>2. CASE j = n + 1
    <3>1. c[n + 1] = <<r>>[(n + 1) - n] /\ (n + 1) - n = 1
      BY <1>2, <1>7 DEF c
    <3>2. c[n + 1] = r
      BY <1>6, <3>1
    <3>3. InsertByPriority(q, r)[n + 1] = c[n + 1]
      BY <1>2, <1>8, <1>9
    <3> QED
      BY <1>1, <1>2, <2>2, <3>2, <3>3
  <2>3. CASE j > n + 1
    <3>1. j - (n + 1) \in 1 .. Len(q) - n /\ n + (j - (n + 1)) = j - 1
      BY <1>1, <1>2, <2>3
    <3>2. b[j - (n + 1)] = q[j - 1]
      BY <1>5, <3>1
    <3>3. InsertByPriority(q, r)[j] = b[j - (n + 1)]
      BY <1>1, <1>2, <1>8, <2>3
    <3> QED
      BY <1>1, <1>2, <2>3, <3>2, <3>3
  <2> QED
    BY <1>1, <1>2, <2>1, <2>2, <2>3
<1> QED
  BY <1>8, <1>9, <1>10 DEF n, Place

\* No request is in the queue twice, but a pill that was put back may be.
QueuedOnce ==
    \A i, j \in 1 .. Len(queue) :
        queue[i] = queue[j] /\ queue[i] \notin Pills => i = j

LEMMA Inserted ==
    ASSUME queue \in Seq(Requests), NEW r \in Requests,
           queue' = InsertByPriority(queue, r)
    PROVE  /\ queue' \in Seq(Requests)
           /\ Len(queue') = Len(queue) + 1
           /\ \A x : InQueue(x)' <=> InQueue(x) \/ x = r
           /\ QueuedOnce /\ (r \in Pills \/ ~InQueue(r)) => QueuedOnce'
<1>1. /\ queue' \in Seq(Requests)
      /\ Len(queue') = Len(queue) + 1
  BY InsertShape
<1>2. PICK k \in 1 .. Len(queue) + 1 : \A j \in 1 .. Len(queue) + 1 :
          queue'[j] = IF j < k THEN queue[j] ELSE IF j = k THEN r ELSE queue[j - 1]
  BY InsertShape
<1>3. Len(queue) \in Nat
  OBVIOUS
<1>4. ASSUME NEW x, InQueue(x)' PROVE InQueue(x) \/ x = r
  <2>1. PICK j \in 1 .. Len(queue) + 1 : queue'[j] = x
    BY <1>1, <1>4 DEF InQueue
  <2> QED
    BY <1>2, <1>3, <2>1 DEF InQueue
<1>5. ASSUME NEW x, InQueue(x) PROVE InQueue(x)'
  <2>1. PICK i \in 1 .. Len(queue) : queue[i] = x
    BY <1>5 DEF InQueue
  <2>2. CASE i < k
    BY <1>1, <1>2, <1>3, <2>1, <2>2 DEF InQueue
  <2>3. CASE i >= k
    <3>1. i + 1 \in 1 .. Len(queue) + 1 /\ ~(i + 1 < k) /\ i + 1 # k /\ (i + 1) - 1 = i
      BY <1>3, <2>3
    <3>2. queue'[i + 1] = x
      BY <1>2, <2>1, <3>1
    <3> QED
      BY <1>1, <3>1, <3>2 DEF InQueue
  <2> QED
    BY <1>3, <2>2, <2>3
<1>6. InQueue(r)'
  BY <1>1, <1>2 DEF InQueue
<1>7. ASSUME QueuedOnce, r \in Pills \/ ~InQueue(r) PROVE QueuedOnce'
  <2> SUFFICES ASSUME NEW i \in 1 .. Len(queue) + 1, NEW j \in 1 .. Len(queue) + 1,
                      queue'[i] = queue'[j], queue'[i] \notin Pills
               PROVE  i = j
    BY <1>1 DEF QueuedOnce
  <2> DEFINE Old(m) == IF m < k THEN m ELSE m - 1
  <2>1. \A m \in 1 .. Len(queue) + 1 :
           m # k => Old(m) \in 1 .. Len(queue) /\ queue'[m] = queue[Old(m)]
    BY <1>2, <1>3
  <2>2. CASE i = k /\ j = k
    BY <2>2
  <2>3. CASE i = k /\ j # k
    BY <1>2, <1>7, <2>1, <2>3 DEF InQueue
  <2>4. CASE i # k /\ j = k
    BY <1>2, <1>7, <2>1, <2>4 DEF InQueue
  <2>5. CASE i # k /\ j # k
    <3>1. Old(i) = Old(j)
      BY <1>7, <2>1, <2>5 DEF QueuedOnce
    <3> QED
      BY <1>3, <2>5, <3>1
  <2> QED
    BY <2>2, <2>3, <2>4, <2>5
<1> QED
  BY <1>1, <1>4, <1>5, <1>6, <1>7

LEMMA Taken ==
    ASSUME queue \in Seq(Requests), queue # <<>>, queue' = Tail(queue)
    PROVE  /\ Head(queue) \in Requests
           /\ InQueue(Head(queue))
           /\ queue' \in Seq(Requests)
           /\ Len(queue') = Len(queue) - 1
           /\ \A x : InQueue(x)' => InQueue(x)
           /\ \A x : InQueue(x) => InQueue(x)' \/ x = Head(queue)
           /\ QueuedOnce => QueuedOnce'
           /\ \A x : QueuedOnce /\ x = Head(queue) /\ x \notin Pills => ~InQueue(x)'
<1>1. /\ Len(queue) \in Nat \ {0}
      /\ Head(queue) \in Requests
      /\ Head(queue) = queue[1]
      /\ queue' \in Seq(Requests)
      /\ Len(queue') = Len(queue) - 1
      /\ \A i \in 1 .. Len(queue) - 1 : queue'[i] = queue[i + 1]
  BY HeadTailProperties
<1>2. InQueue(Head(queue))
  BY <1>1 DEF InQueue
<1>3. ASSUME NEW x, InQueue(x)' PROVE InQueue(x)
  <2>1. PICK i \in 1 .. Len(queue) - 1 : x = queue[i + 1]
    BY <1>1, <1>3 DEF InQueue
  <2> QED
    BY <1>1, <2>1 DEF InQueue
<1>4. ASSUME NEW x, InQueue(x), x # Head(queue) PROVE InQueue(x)'
  <2>1. PICK i \in 2 .. Len(queue) : x = queue[i]
    BY <1>1, <1>4 DEF InQueue
  <2>2. i - 1 \in 1 .. Len(queue) - 1 /\ (i - 1) + 1 = i
    BY <1>1
  <2> QED
    BY <1>1, <2>1, <2>2 DEF InQueue
<1>5. ASSUME QueuedOnce PROVE QueuedOnce'
  <2> SUFFICES ASSUME NEW i \in 1 .. Len(queue) - 1, NEW j \in 1 .. Len(queue) - 1,
                      queue'[i] = queue'[j], queue'[i] \notin Pills
               PROVE  i = j
    BY <1>1 DEF QueuedOnce
  <2>1. i + 1 = j + 1
    BY <1>1, <1>5 DEF QueuedOnce
  <2> QED
    BY <2>1
<1>6. ASSUME NEW x, x = Head(queue), QueuedOnce, x \notin Pills PROVE ~InQueue(x)'
  <2> SUFFICES ASSUME InQueue(x)' PROVE FALSE
    OBVIOUS
  <2>1. PICK i \in 1 .. Len(queue) - 1 : x = queue[i + 1]
    BY <1>1 DEF InQueue
  <2>2. 1 \in 1 .. Len(queue) /\ i + 1 \in 1 .. Len(queue)
    BY <1>1
  <2> QED
    BY <1>1, <1>6, <2>1, <2>2 DEF QueuedOnce
<1> QED
  BY <1>1, <1>2, <1>3, <1>4, <1>5, <1>6

-----------------------------------------------------------------------------
(* The inductive invariant of the service                                  *)

Jobs == Requests \ Pills

Typed ==
    /\ ServiceTypeOK
    /\ adds \in [Requests -> Nat]
    /\ runs \in [Requests -> Nat]

Holds(w, r) == TakenBy(w, r) \/ DroppedBy(w, r)

\* Who is inside add(), and with what: a thread of the pool only with a pill.
AddersKnown ==
    /\ \A a \in Adders : addArg[a] = None <=> addPc[a] = "out"
    /\ \A w \in Workers : addPc[w] # "out" <=> tpc[w] = "pill"
    /\ \A w \in Workers : addPc[w] # "out" => addArg[w] \in Pills

\* What a thread has in its _request.  It leaves of its own accord only after
\* a pill.
ThreadsKnown ==
    \A w \in Workers :
        /\ tpc[w] \in {"handle", "run", "complete", "pill"} => held[w] # None
        /\ tpc[w] \in {"unborn", "get", "wait"} => held[w] = None
        /\ tpc[w] \in {"run", "complete"} => held[w] \notin Pills
        /\ tpc[w] = "pill" => held[w] \in Pills
        /\ tpc[w] = "unborn" => ~stop[w] /\ w \notin threads
        /\ tpc[w] = "exited" /\ ~stop[w] => held[w] \in Pills

\* A request is with one adder, or in the queue, or with one thread.
OnePlace(r) ==
    /\ \A a, b \in Adders : addArg[a] = r /\ addArg[b] = r => a = b
    /\ \A v, w \in Workers : Holds(v, r) /\ Holds(w, r) => v = w
    /\ \A a \in Adders : addArg[a] = r => ~InQueue(r) /\ \A w \in Workers : ~Holds(w, r)
    /\ InQueue(r) => \A w \in Workers : ~Holds(w, r)

\* The place of a request tells its state, and its state whether it has one.
StateKnown(r) ==
    /\ \A a \in Adders : addArg[a] = r => state[r] = "PENDING"
    /\ InQueue(r) => state[r] = "PENDING"
    /\ \A w \in Workers : Holds(w, r) =>
          /\ tpc[w] \in {"got", "handle", "exited"} => state[r] = "PENDING"
          /\ tpc[w] = "run" => state[r] = "IN_PROGRESS"
          /\ tpc[w] = "complete" => state[r] \in {"PENDING", "IN_PROGRESS"}
    /\ state[r] \in {"PENDING", "IN_PROGRESS"} =>
          \/ \E a \in Adders : addArg[a] = r
          \/ InQueue(r)
          \/ \E w \in Workers : Holds(w, r)

\* A request that is still to run has run less often than it was added.
RunsKnown(r) ==
    /\ state[r] = "PENDING" => runs[r] < adds[r]
    /\ \A w \in Workers : Holds(w, r) /\ tpc[w] = "run" => runs[r] < adds[r]

Known(r) == OnePlace(r) /\ StateKnown(r) /\ RunsKnown(r)

NoExtraRuns == \A r \in Requests : runs[r] <= adds[r]

ServiceInv ==
    /\ Typed
    /\ AddersKnown
    /\ ThreadsKnown
    /\ QueuedOnce
    /\ \A r \in Jobs : Known(r)
    /\ NoExtraRuns

-----------------------------------------------------------------------------
(* Facts the steps share                                                   *)

LEMMA Names ==
    /\ Workers \subseteq Adders
    /\ Clients \subseteq Adders
    /\ \A c \in Clients : c \notin Workers
    /\ None \notin Adders
    /\ None \notin Requests
    /\ Pills \subseteq Requests
    /\ Jobs \subseteq Requests
  BY TaskAssumptions DEF Workers, Adders, Jobs

\* Where a request is does not change when none of this changes.
LEMMA KnownKept ==
    ASSUME NEW r \in Jobs, Known(r),
           state'[r] = state[r], adds'[r] = adds[r], runs'[r] = runs[r],
           \A a \in Adders : addArg'[a] = r <=> addArg[a] = r,
           InQueue(r)' <=> InQueue(r),
           \A w \in Workers : Holds(w, r)' <=> Holds(w, r),
           \A w \in Workers : Holds(w, r) =>
              \/ tpc'[w] = tpc[w]
              \/ /\ tpc[w] \in {"got", "handle", "exited"}
                 /\ tpc'[w] \in {"got", "handle", "exited"}
    PROVE  Known(r)'
<1>1. OnePlace(r)'
  BY DEF Known, OnePlace
<1>2. StateKnown(r)'
  BY DEF Known, StateKnown
<1>3. RunsKnown(r)'
  BY DEF Known, RunsKnown
<1> QED
  BY <1>1, <1>2, <1>3 DEF Known

\* A request that is neither pending nor in progress is nowhere.
LEMMA Nowhere ==
    ASSUME ServiceInv, NEW r \in Jobs, state[r] \notin {"PENDING", "IN_PROGRESS"}
    PROVE  /\ \A a \in Adders : addArg[a] # r
           /\ ~InQueue(r)
           /\ \A w \in Workers : ~Holds(w, r)
  BY DEF ServiceInv, Known, StateKnown, Holds, TakenBy, DroppedBy

\* What a thread is about to run, or has run, is a request with it alone.
LEMMA HeldIsJob ==
    ASSUME ServiceInv, NEW w \in Workers,
           \/ tpc[w] \in {"run", "complete"}
           \/ tpc[w] = "handle" /\ held[w] \notin Pills
    PROVE  /\ held[w] \in Jobs
           /\ held[w] \in Requests
           /\ held[w] # None
           /\ Known(held[w])
           /\ Holds(w, held[w])
<1>1. held[w] \in Requests /\ held[w] \notin Pills
  BY DEF ServiceInv, Typed, ServiceTypeOK, ThreadsKnown
<1>2. held[w] # None
  BY <1>1, Names
<1> QED
  BY <1>1, <1>2 DEF ServiceInv, Jobs, Holds, TakenBy

LEMMA ThreadSignalled ==
    ASSUME NEW pcs \in [Workers -> ThreadPcs], SignalThread(pcs),
           \A w \in Waiting : pcs[w] = "wait"
    PROVE  /\ tpc' \in [Workers -> ThreadPcs]
           /\ \A w \in Workers : \/ tpc'[w] = pcs[w]
                                 \/ pcs[w] = "wait" /\ tpc'[w] = "get"
<1>1. CASE Waiting = {}
  BY <1>1 DEF SignalThread
<1>2. CASE Waiting # {}
  <2>1. PICK v \in Waiting : tpc' = [pcs EXCEPT ![v] = "get"]
    BY <1>2 DEF SignalThread
  <2>2. v \in Workers /\ pcs[v] = "wait"
    BY <2>1 DEF Waiting
  <2> QED
    BY <2>1, <2>2 DEF ThreadPcs
<1> QED
  BY <1>1, <1>2

LEMMA AdderSignalled ==
    ASSUME addPc \in [Adders -> AddPcs], SignalAdder
    PROVE  /\ addPc' \in [Adders -> AddPcs]
           /\ \A a \in Adders : \/ addPc'[a] = addPc[a]
                                \/ addPc[a] = "sleep" /\ addPc'[a] = "woken"
<1>1. CASE Sleeping = {}
  BY <1>1 DEF SignalAdder
<1>2. CASE Sleeping # {}
  <2>1. PICK b \in Sleeping : addPc' = [addPc EXCEPT ![b] = "woken"]
    BY <1>2 DEF SignalAdder
  <2>2. b \in Adders /\ addPc[b] = "sleep"
    BY <2>1 DEF Sleeping
  <2> QED
    BY <2>1, <2>2 DEF AddPcs
<1> QED
  BY <1>1, <1>2

-----------------------------------------------------------------------------
(* TaskRequestQueue::add                                                   *)

\* The part of the service that add() and its callers leave alone.
LEMMA AddBeginKeeps ==
    ASSUME ServiceInv, NEW c \in Clients, NEW r \in Requests, AddBegin(c, r),
           r \in Pills \/ state[r] \notin {"PENDING", "IN_PROGRESS"},
           UNCHANGED <<queue, queueDone, threadVars, serviceVars>>
    PROVE  ServiceInv'
<1>1. /\ c \in Adders /\ c \notin Workers
      /\ addPc[c] = "out"
      /\ addPc' = [addPc EXCEPT ![c] = "lock"]
      /\ addArg' = [addArg EXCEPT ![c] = r]
      /\ state' = [state EXCEPT ![r] = "PENDING"]
      /\ adds' = [adds EXCEPT ![r] = @ + 1]
      /\ UNCHANGED <<addMutex, canceled, runs>>
      /\ UNCHANGED <<queue, queueDone, tpc, held, stop, maxSize, threads, numThreads, adjust, life>>
  BY Names DEF AddBegin, threadVars, serviceVars
<1>2. Typed /\ AddersKnown /\ ThreadsKnown /\ QueuedOnce /\ NoExtraRuns
  BY DEF ServiceInv
<1>3. Typed'
  BY <1>1, <1>2 DEF Typed, ServiceTypeOK, AddPcs, States
<1>4. AddersKnown'
  BY <1>1, <1>2, Names DEF AddersKnown, Typed, ServiceTypeOK
<1>5. ThreadsKnown' /\ QueuedOnce'
  BY <1>1, <1>2 DEF ThreadsKnown, QueuedOnce
<1>6. NoExtraRuns'
  BY <1>1, <1>2 DEF NoExtraRuns, Typed
<1>7. \A x : InQueue(x)' <=> InQueue(x)
  BY <1>1 DEF InQueue
<1>8. \A w, x : Holds(w, x)' <=> Holds(w, x)
  BY <1>1 DEF Holds, TakenBy, DroppedBy
<1>9. ASSUME NEW x \in Jobs PROVE Known(x)'
  <2>1. Known(x) /\ x \in Requests /\ x # None
    BY Names DEF ServiceInv
  <2>2. CASE x # r
    <3>1. state'[x] = state[x] /\ adds'[x] = adds[x] /\ runs'[x] = runs[x]
      BY <1>1, <1>2, <2>1, <2>2 DEF Typed, ServiceTypeOK
    <3>2. \A a \in Adders : addArg'[a] = x <=> addArg[a] = x
      BY <1>1, <1>2, <2>1, <2>2 DEF Typed, ServiceTypeOK, AddersKnown
    <3> QED
      BY <1>1, <1>7, <1>8, <2>1, <3>1, <3>2, KnownKept
  <2>3. CASE x = r
    <3>1. state[x] \notin {"PENDING", "IN_PROGRESS"}
      BY <2>3 DEF Jobs
    <3>2. /\ \A a \in Adders : addArg[a] # x
          /\ ~InQueue(x)
          /\ \A w \in Workers : ~Holds(w, x)
      BY <3>1, Nowhere
    <3>3. /\ \A a \in Adders : addArg'[a] = x <=> a = c
          /\ ~InQueue(x)'
          /\ \A w \in Workers : ~Holds(w, x)'
      BY <1>1, <1>2, <1>7, <1>8, <2>3, <3>2 DEF Typed, ServiceTypeOK
    <3>4. state'[x] = "PENDING"
      BY <1>1, <1>2, <2>1, <2>3 DEF Typed, ServiceTypeOK
    <3>5. runs'[x] < adds'[x]
      BY <1>1, <1>2, <2>1, <2>3 DEF NoExtraRuns, Typed
    <3>6. OnePlace(x)'
      BY <3>3 DEF OnePlace
    <3>7. StateKnown(x)'
      BY <1>1, <3>3, <3>4 DEF StateKnown
    <3>8. RunsKnown(x)'
      BY <3>5 DEF RunsKnown
    <3> QED
      BY <3>6, <3>7, <3>8 DEF Known
  <2> QED
    BY <2>2, <2>3
<1> QED
  BY <1>3, <1>4, <1>5, <1>6, <1>9 DEF ServiceInv

\* The steps to and from the two locks.
LEMMA AddLockKeeps ==
    ASSUME ServiceInv, NEW a \in Adders, AddLock(a) \/ AddWait(a) \/ AddWakeUp(a)
    PROVE  ServiceInv'
<1>1. /\ addPc[a] # "out"
      /\ \E pc \in AddPcs \ {"out"} : addPc' = [addPc EXCEPT ![a] = pc]
      /\ addMutex' \in {a, None}
      /\ UNCHANGED <<state, canceled, adds, runs, queue, queueDone, addArg>>
      /\ UNCHANGED <<tpc, held, stop, maxSize, threads, numThreads, adjust, life>>
  BY DEF AddLock, AddWait, AddWakeUp, AddPcs, requestVars, threadVars, serviceVars
<1>2. Typed /\ AddersKnown /\ ThreadsKnown /\ QueuedOnce /\ NoExtraRuns
  BY DEF ServiceInv
<1>3. Typed'
  BY <1>1, <1>2 DEF Typed, ServiceTypeOK
<1>4. \A b \in Adders : addPc'[b] = "out" <=> addPc[b] = "out"
  BY <1>1, <1>2 DEF Typed, ServiceTypeOK
<1>5. AddersKnown'
  BY <1>1, <1>2, <1>4, Names DEF AddersKnown
<1>6. ThreadsKnown' /\ QueuedOnce' /\ NoExtraRuns'
  BY <1>1, <1>2 DEF ThreadsKnown, QueuedOnce, NoExtraRuns
<1>7. \A x : InQueue(x)' <=> InQueue(x)
  BY <1>1 DEF InQueue
<1>8. \A w, x : Holds(w, x)' <=> Holds(w, x)
  BY <1>1 DEF Holds, TakenBy, DroppedBy
<1>9. ASSUME NEW x \in Jobs PROVE Known(x)'
  <2>1. Known(x)
    BY DEF ServiceInv
  <2> QED
    BY <1>1, <1>7, <1>8, <2>1, KnownKept
<1> QED
  BY <1>3, <1>5, <1>6, <1>9 DEF ServiceInv

\* What is inserted was nowhere else, and leaves its adder.
LEMMA AddInsertKeeps ==
    ASSUME ServiceInv, NEW a \in Adders, AddInsert(a)
    PROVE  ServiceInv'
<1> DEFINE r == addArg[a]
           pcs == IF a \in Workers THEN [tpc EXCEPT ![a] = "exited"] ELSE tpc
<1>1. /\ addPc[a] = "insert"
      /\ queue' = InsertByPriority(queue, r)
      /\ addMutex' = None
      /\ addPc' = [addPc EXCEPT ![a] = "out"]
      /\ addArg' = [addArg EXCEPT ![a] = None]
      /\ SignalThread(pcs)
      /\ UNCHANGED <<state, canceled, adds, runs, queueDone>>
      /\ UNCHANGED <<held, stop, maxSize, threads, numThreads, adjust, life>>
  BY DEF AddInsert, requestVars, serviceVars
<1>2. Typed /\ AddersKnown /\ ThreadsKnown /\ QueuedOnce /\ NoExtraRuns
  BY DEF ServiceInv
<1>3. /\ addPc \in [Adders -> AddPcs]
      /\ addArg \in [Adders -> Requests \union {None}]
      /\ tpc \in [Workers -> ThreadPcs]
      /\ held \in [Workers -> Requests \union {None}]
  BY <1>2 DEF Typed, ServiceTypeOK
<1>4. /\ r \in Requests /\ r # None
      /\ a \in Workers => tpc[a] = "pill" /\ held[a] \in Pills /\ r \in Pills
  <2>1. r # None
    BY <1>1, <1>2 DEF AddersKnown
  <2> QED
    BY <1>1, <1>2, <1>3, <2>1 DEF AddersKnown, ThreadsKnown
<1>5. r \in Pills \/ ~InQueue(r)
  BY <1>4 DEF ServiceInv, Jobs, Known, OnePlace
<1>6. /\ queue' \in Seq(Requests)
      /\ \A x : InQueue(x)' <=> InQueue(x) \/ x = r
      /\ QueuedOnce'
  BY <1>1, <1>2, <1>4, <1>5, Inserted DEF Typed, ServiceTypeOK
<1>7. /\ pcs \in [Workers -> ThreadPcs]
      /\ \A w \in Workers : pcs[w] = tpc[w] \/ (w = a /\ pcs[w] = "exited")
      /\ \A w \in Waiting : pcs[w] = "wait"
  <2>1. "exited" \in ThreadPcs
    BY DEF ThreadPcs
  <2>2. pcs \in [Workers -> ThreadPcs]
    BY <1>3, <2>1
  <2>3. \A w \in Workers : pcs[w] = tpc[w] \/ (w = a /\ pcs[w] = "exited")
    BY <1>3
  <2>4. a \in Workers => tpc[a] = "pill"
    BY <1>4
  <2> HIDE DEF pcs
  <2>5. \A w \in Waiting : pcs[w] = "wait"
    BY <2>3, <2>4 DEF Waiting
  <2> QED
    BY <2>2, <2>3, <2>5
<1>8. /\ tpc' \in [Workers -> ThreadPcs]
      /\ \A w \in Workers : \/ tpc'[w] = pcs[w]
                            \/ pcs[w] = "wait" /\ tpc'[w] = "get"
  BY <1>1, <1>7, ThreadSignalled
<1>9. \A w \in Workers :
         \/ w # a /\ tpc'[w] = tpc[w]
         \/ w # a /\ tpc[w] = "wait" /\ tpc'[w] = "get"
         \/ w = a /\ tpc[w] = "pill" /\ tpc'[w] = "exited"
  BY <1>3, <1>4, <1>7, <1>8
<1> HIDE DEF pcs, r
<1>10. Typed'
  BY <1>1, <1>2, <1>6, <1>8 DEF Typed, ServiceTypeOK, AddPcs
<1>11. AddersKnown'
  <2>1. \A b \in Adders : addPc'[b] = (IF b = a THEN "out" ELSE addPc[b])
    BY <1>1, <1>3
  <2>2. \A b \in Adders : addArg'[b] = (IF b = a THEN None ELSE addArg[b])
    BY <1>1, <1>3
  <2> QED
    BY <1>2, <1>9, <2>1, <2>2, Names DEF AddersKnown
<1>12. ThreadsKnown'
  <2> SUFFICES ASSUME NEW w \in Workers
               PROVE  /\ tpc'[w] \in {"handle", "run", "complete", "pill"} => held[w] # None
                      /\ tpc'[w] \in {"unborn", "get", "wait"} => held[w] = None
                      /\ tpc'[w] \in {"run", "complete"} => held[w] \notin Pills
                      /\ tpc'[w] = "pill" => held[w] \in Pills
                      /\ tpc'[w] = "unborn" => ~stop[w] /\ w \notin threads
                      /\ tpc'[w] = "exited" /\ ~stop[w] => held[w] \in Pills
    BY <1>1 DEF ThreadsKnown
  <2> QED
    BY <1>2, <1>4, <1>9 DEF ThreadsKnown
<1>13. NoExtraRuns'
  BY <1>1, <1>2 DEF NoExtraRuns
<1>14. ASSUME NEW x \in Jobs PROVE Known(x)'
  <2>1. Known(x) /\ x \in Requests /\ x # None /\ x \notin Pills
    BY Names DEF ServiceInv, Jobs
  <2>2. \A w \in Workers : Holds(w, x)' <=> Holds(w, x)
    BY <1>1, <1>2, <1>4, <1>9, <2>1 DEF Holds, TakenBy, DroppedBy, ThreadsKnown
  <2>3. \A w \in Workers : Holds(w, x) => tpc'[w] = tpc[w]
    BY <1>9 DEF Holds, TakenBy, DroppedBy
  <2>4. CASE x # r
    <3>1. \A b \in Adders : addArg'[b] = x <=> addArg[b] = x
      BY <1>1, <1>3, <2>1, <2>4 DEF r
    <3> QED
      BY <1>1, <1>6, <2>1, <2>2, <2>3, <2>4, <3>1, KnownKept
  <2>5. CASE x = r
    <3>1. /\ state[x] = "PENDING"
          /\ \A b \in Adders : addArg[b] = x => b = a
          /\ \A w \in Workers : ~Holds(w, x)
      BY <2>1, <2>5 DEF r, Known, OnePlace, StateKnown
    <3>2. \A b \in Adders : addArg'[b] # x
      BY <1>1, <1>3, <2>1, <3>1
    <3>3. OnePlace(x)'
      BY <2>2, <3>1, <3>2 DEF OnePlace
    <3>4. StateKnown(x)'
      BY <1>1, <1>6, <2>2, <2>5, <3>1, <3>2 DEF StateKnown
    <3>5. RunsKnown(x)'
      BY <1>1, <2>1, <2>2, <3>1 DEF Known, RunsKnown
    <3> QED
      BY <3>3, <3>4, <3>5 DEF Known
  <2> QED
    BY <2>4, <2>5
<1> QED
  BY <1>6, <1>10, <1>11, <1>12, <1>13, <1>14 DEF ServiceInv

-----------------------------------------------------------------------------
(* TaskRequestQueue::get and TaskThread::run                               *)

\* What is taken leaves the queue for the thread that takes it.
LEMMA GetKeeps ==
    ASSUME ServiceInv, NEW w \in Workers, Get(w)
    PROVE  ServiceInv'
<1>1. /\ tpc[w] = "get"
      /\ UNCHANGED <<state, canceled, adds, runs, queueDone, addMutex, addArg>>
      /\ UNCHANGED <<stop, maxSize, threads, numThreads, adjust, life>>
  BY DEF Get, requestVars, serviceVars
<1>2. Typed /\ AddersKnown /\ ThreadsKnown /\ QueuedOnce /\ NoExtraRuns
  BY DEF ServiceInv
<1>3. /\ addPc \in [Adders -> AddPcs]
      /\ addArg \in [Adders -> Requests \union {None}]
      /\ tpc \in [Workers -> ThreadPcs]
      /\ held \in [Workers -> Requests \union {None}]
      /\ queue \in Seq(Requests)
      /\ held[w] = None
  BY <1>1, <1>2 DEF Typed, ServiceTypeOK, ThreadsKnown
<1>4. NoExtraRuns'
  BY <1>1, <1>2 DEF NoExtraRuns
<1>5. CASE queueDone \/ queue = <<>>
  <2>1. /\ \E pc \in {"got", "wait"} : tpc' = [tpc EXCEPT ![w] = pc]
        /\ held' = held
        /\ UNCHANGED <<queue, addPc>>
    BY <1>3, <1>5 DEF Get
  <2>2. \A v \in Workers : \/ v # w /\ tpc'[v] = tpc[v]
                           \/ v = w /\ tpc'[v] \in {"got", "wait"}
    <3>1. PICK pc \in {"got", "wait"} : tpc' = [tpc EXCEPT ![w] = pc]
      BY <2>1
    <3> QED
      BY <1>3, <3>1
  <2>3. Typed'
    BY <1>1, <1>2, <2>1 DEF Typed, ServiceTypeOK, ThreadPcs
  <2>4. AddersKnown'
    BY <1>1, <1>2, <2>1, <2>2 DEF AddersKnown
  <2>5. ThreadsKnown'
    BY <1>1, <1>2, <1>3, <2>1, <2>2 DEF ThreadsKnown
  <2>6. QueuedOnce'
    BY <1>2, <2>1 DEF QueuedOnce
  <2>7. ASSUME NEW x \in Jobs PROVE Known(x)'
    <3>1. Known(x) /\ x # None
      BY Names DEF ServiceInv
    <3>2. InQueue(x)' <=> InQueue(x)
      BY <2>1 DEF InQueue
    <3>3. \A v \in Workers : Holds(v, x)' <=> Holds(v, x)
      BY <1>1, <1>3, <2>1, <2>2, <3>1 DEF Holds, TakenBy, DroppedBy
    <3>4. \A v \in Workers : Holds(v, x) => tpc'[v] = tpc[v]
      BY <1>1, <1>3, <2>2, <3>1 DEF Holds, TakenBy, DroppedBy
    <3> QED
      BY <1>1, <3>1, <3>2, <3>3, <3>4, KnownKept
  <2> QED
    BY <1>4, <2>3, <2>4, <2>5, <2>6, <2>7 DEF ServiceInv
<1>6. CASE ~queueDone /\ queue # <<>>
  <2> DEFINE r == Head(queue)
             pcs == [tpc EXCEPT ![w] = "got"]
  <2>1. /\ held' = [held EXCEPT ![w] = r]
        /\ queue' = Tail(queue)
        /\ SignalThread(pcs)
        /\ SignalAdder
    BY <1>6 DEF Get
  <2>2. /\ r \in Requests
        /\ InQueue(r)
        /\ queue' \in Seq(Requests)
        /\ \A x : InQueue(x)' => InQueue(x)
        /\ \A x : InQueue(x) => InQueue(x)' \/ x = r
        /\ QueuedOnce'
        /\ \A x : x = r /\ x \notin Pills => ~InQueue(x)'
    BY <1>2, <1>3, <1>6, <2>1, Taken
  <2>3. /\ pcs \in [Workers -> ThreadPcs]
        /\ \A v \in Workers : (v # w /\ pcs[v] = tpc[v]) \/ (v = w /\ pcs[v] = "got")
        /\ \A v \in Waiting : pcs[v] = "wait"
    <3>1. "got" \in ThreadPcs
      BY DEF ThreadPcs
    <3>2. pcs \in [Workers -> ThreadPcs]
      BY <1>3, <3>1
    <3>3. \A v \in Workers : (v # w /\ pcs[v] = tpc[v]) \/ (v = w /\ pcs[v] = "got")
      BY <1>3
    <3> HIDE DEF pcs
    <3>4. \A v \in Waiting : pcs[v] = "wait"
      BY <1>1, <3>3 DEF Waiting
    <3> QED
      BY <3>2, <3>3, <3>4
  <2>4. /\ tpc' \in [Workers -> ThreadPcs]
        /\ \A v \in Workers : \/ tpc'[v] = pcs[v]
                              \/ pcs[v] = "wait" /\ tpc'[v] = "get"
    BY <2>1, <2>3, ThreadSignalled
  <2>5. \A v \in Workers : \/ v # w /\ tpc'[v] = tpc[v]
                           \/ v # w /\ tpc[v] = "wait" /\ tpc'[v] = "get"
                           \/ v = w /\ tpc'[v] = "got"
    BY <2>3, <2>4
  <2>6. /\ addPc' \in [Adders -> AddPcs]
        /\ \A a \in Adders : addPc'[a] = "out" <=> addPc[a] = "out"
    BY <1>3, <2>1, AdderSignalled
  <2> HIDE DEF r, pcs
  <2>7. \A v \in Workers : held'[v] = IF v = w THEN r ELSE held[v]
    BY <1>3, <2>1
  <2>8. Typed'
    BY <1>1, <1>2, <2>1, <2>2, <2>4, <2>6 DEF Typed, ServiceTypeOK
  <2>9. AddersKnown'
    BY <1>1, <1>2, <2>5, <2>6, Names DEF AddersKnown
  <2>10. ThreadsKnown'
    <3> SUFFICES ASSUME NEW v \in Workers
                 PROVE  /\ tpc'[v] \in {"handle", "run", "complete", "pill"} => held'[v] # None
                        /\ tpc'[v] \in {"unborn", "get", "wait"} => held'[v] = None
                        /\ tpc'[v] \in {"run", "complete"} => held'[v] \notin Pills
                        /\ tpc'[v] = "pill" => held'[v] \in Pills
                        /\ tpc'[v] = "unborn" => ~stop[v] /\ v \notin threads
                        /\ tpc'[v] = "exited" /\ ~stop[v] => held'[v] \in Pills
      BY <1>1 DEF ThreadsKnown
    <3> QED
      BY <1>2, <2>5, <2>7 DEF ThreadsKnown
  <2>11. ASSUME NEW x \in Jobs PROVE Known(x)'
    <3>1. Known(x) /\ x # None /\ x \notin Pills
      BY Names DEF ServiceInv, Jobs
    <3>2. CASE x # r
      <4>1. InQueue(x)' <=> InQueue(x)
        BY <2>2, <3>2
      <4>2. \A v \in Workers : Holds(v, x)' <=> Holds(v, x)
        BY <1>1, <2>5, <2>7, <3>2 DEF Holds, TakenBy, DroppedBy
      <4>3. \A v \in Workers : Holds(v, x) => tpc'[v] = tpc[v]
        BY <1>1, <2>5 DEF Holds, TakenBy, DroppedBy
      <4> QED
        BY <1>1, <3>1, <4>1, <4>2, <4>3, KnownKept
    <3>3. CASE x = r
      <4>1. /\ state[x] = "PENDING"
            /\ \A a \in Adders : addArg[a] # x
            /\ \A v \in Workers : ~Holds(v, x)
        BY <2>2, <3>1, <3>3 DEF Known, OnePlace, StateKnown
      <4>2. ~InQueue(x)'
        BY <2>2, <3>1, <3>3
      <4>3. \A v \in Workers : Holds(v, x)' <=> v = w
        BY <1>1, <2>5, <2>7, <3>3, <4>1 DEF Holds, TakenBy, DroppedBy
      <4>4. OnePlace(x)'
        BY <1>1, <4>1, <4>2, <4>3 DEF OnePlace
      <4>5. StateKnown(x)'
        BY <1>1, <2>5, <4>1, <4>2, <4>3 DEF StateKnown
      <4>6. RunsKnown(x)'
        BY <1>1, <2>5, <3>1, <4>1, <4>3 DEF Known, RunsKnown
      <4> QED
        BY <4>4, <4>5, <4>6 DEF Known
    <3> QED
      BY <3>2, <3>3
  <2> QED
    BY <1>4, <2>2, <2>8, <2>9, <2>10, <2>11 DEF ServiceInv
<1> QED
  BY <1>5, <1>6

\* A step that only moves one thread keeps what is known of each thread when
\* it keeps it of that one.
LEMMA OneThreadMoves ==
    ASSUME ServiceInv, NEW w \in Workers, NEW pc \in ThreadPcs,
           tpc[w] # "pill", pc # "pill",
           tpc' = [tpc EXCEPT ![w] = pc],
           held' \in [Workers -> Requests \union {None}],
           \A v \in Workers : v # w => held'[v] = held[v],
           /\ pc \in {"handle", "run", "complete"} => held'[w] # None
           /\ pc # "unborn"
           /\ pc \in {"get", "wait"} => held'[w] = None
           /\ pc \in {"run", "complete"} => held'[w] \notin Pills
           /\ pc = "exited" => stop[w],
           UNCHANGED <<queue, queueDone, addVars, stop, maxSize, threads, numThreads, adjust, life>>,
           state' \in [Requests -> States],
           canceled' \in [Requests -> BOOLEAN],
           adds' = adds,
           runs' \in [Requests -> Nat],
           \A r \in Requests : runs'[r] <= adds[r],
           \A r \in Jobs : Known(r)'
    PROVE  ServiceInv'
<1>1. Typed /\ AddersKnown /\ ThreadsKnown /\ QueuedOnce
  BY DEF ServiceInv
<1>2. UNCHANGED <<addMutex, addPc, addArg>>
  BY DEF addVars
<1>3. /\ tpc' \in [Workers -> ThreadPcs]
      /\ \A v \in Workers : (v # w /\ tpc'[v] = tpc[v]) \/ (v = w /\ tpc'[v] = pc)
  BY <1>1 DEF Typed, ServiceTypeOK
<1>4. Typed'
  BY <1>1, <1>2, <1>3 DEF Typed, ServiceTypeOK
<1>5. AddersKnown'
  BY <1>1, <1>2, <1>3 DEF AddersKnown
<1>6. ThreadsKnown'
  BY <1>1, <1>3 DEF ThreadsKnown
<1>7. QueuedOnce' /\ NoExtraRuns'
  BY <1>1 DEF QueuedOnce, NoExtraRuns
<1> QED
  BY <1>4, <1>5, <1>6, <1>7 DEF ServiceInv

LEMMA LoopKeeps ==
    ASSUME ServiceInv, NEW w \in Workers, Loop(w)
    PROVE  ServiceInv'
<1>1. /\ tpc[w] = "loop"
      /\ held' = [held EXCEPT ![w] = None]
      /\ tpc' = [tpc EXCEPT ![w] = IF stop[w] THEN "exited" ELSE "get"]
      /\ UNCHANGED <<state, canceled, adds, runs, addArg>>
      /\ UNCHANGED <<queue, queueDone, addVars, stop, maxSize, threads, numThreads, adjust, life>>
  BY DEF Loop, WorkerUnchanged, requestVars, serviceVars, addVars
<1>2. /\ tpc \in [Workers -> ThreadPcs]
      /\ held \in [Workers -> Requests \union {None}]
      /\ stop \in [Workers -> BOOLEAN]
      /\ state \in [Requests -> States]
      /\ canceled \in [Requests -> BOOLEAN]
      /\ runs \in [Requests -> Nat]
      /\ NoExtraRuns
  BY DEF ServiceInv, Typed, ServiceTypeOK
<1>3. ASSUME NEW r \in Jobs PROVE Known(r)'
  <2>1. Known(r) /\ r # None
    BY Names DEF ServiceInv
  <2>2. InQueue(r)' <=> InQueue(r)
    BY <1>1 DEF InQueue
  <2>3. \A v \in Workers : Holds(v, r)' <=> Holds(v, r)
    BY <1>1, <1>2, <2>1 DEF Holds, TakenBy, DroppedBy
  <2>4. \A v \in Workers : Holds(v, r) => tpc'[v] = tpc[v]
    BY <1>1, <1>2 DEF Holds, TakenBy, DroppedBy
  <2> QED
    BY <1>1, <2>1, <2>2, <2>3, <2>4, KnownKept
<1> DEFINE pc == IF stop[w] THEN "exited" ELSE "get"
<1>4. /\ pc \in ThreadPcs
      /\ pc = "exited" => stop[w]
      /\ pc \in {"exited", "get"}
      /\ tpc' = [tpc EXCEPT ![w] = pc]
  BY <1>1 DEF ThreadPcs
<1> HIDE DEF pc
<1>5. /\ held' \in [Workers -> Requests \union {None}]
      /\ \A v \in Workers : v # w => held'[v] = held[v]
      /\ held'[w] = None
  BY <1>1, <1>2
<1> QED
  BY <1>1, <1>2, <1>3, <1>4, <1>5, OneThreadMoves DEF NoExtraRuns

LEMMA GotKeeps ==
    ASSUME ServiceInv, NEW w \in Workers, Got(w)
    PROVE  ServiceInv'
<1> DEFINE pc == IF stop[w] THEN "exited" ELSE IF held[w] = None THEN "loop" ELSE "handle"
<1>1. /\ tpc[w] = "got"
      /\ tpc' = [tpc EXCEPT ![w] = pc]
      /\ UNCHANGED <<state, canceled, adds, runs, held, addArg>>
      /\ UNCHANGED <<queue, queueDone, addVars, stop, maxSize, threads, numThreads, adjust, life>>
  BY DEF Got, WorkerUnchanged, requestVars, serviceVars, addVars
<1>2. /\ tpc \in [Workers -> ThreadPcs]
      /\ held \in [Workers -> Requests \union {None}]
      /\ stop \in [Workers -> BOOLEAN]
      /\ state \in [Requests -> States]
      /\ canceled \in [Requests -> BOOLEAN]
      /\ runs \in [Requests -> Nat]
      /\ NoExtraRuns
  BY DEF ServiceInv, Typed, ServiceTypeOK
<1>3. /\ pc \in ThreadPcs
      /\ pc \in {"exited", "loop", "handle"}
      /\ pc = "exited" => stop[w]
      /\ pc = "loop" => held[w] = None
      /\ pc = "handle" => held[w] # None
  BY DEF ThreadPcs
<1> HIDE DEF pc
<1>4. ASSUME NEW r \in Jobs PROVE Known(r)'
  <2>1. Known(r) /\ r # None
    BY Names DEF ServiceInv
  <2>2. InQueue(r)' <=> InQueue(r)
    BY <1>1 DEF InQueue
  <2>3. \A v \in Workers : tpc'[v] = IF v = w THEN pc ELSE tpc[v]
    BY <1>1, <1>2
  <2>4. \A v \in Workers : Holds(v, r)' <=> Holds(v, r)
    BY <1>1, <1>3, <2>1, <2>3 DEF Holds, TakenBy, DroppedBy
  <2>5. \A v \in Workers : Holds(v, r) =>
           \/ tpc'[v] = tpc[v]
           \/ tpc[v] = "got" /\ tpc'[v] \in {"exited", "handle"}
    BY <1>1, <1>3, <2>1, <2>3 DEF Holds, TakenBy, DroppedBy
  <2> QED
    BY <1>1, <2>1, <2>2, <2>4, <2>5, KnownKept
<1> QED
  BY <1>1, <1>2, <1>3, <1>4, OneThreadMoves DEF NoExtraRuns

\* A pill goes from the thread's hands into add().
LEMMA HandlePillKeeps ==
    ASSUME ServiceInv, NEW w \in Workers, HandlePill(w)
    PROVE  ServiceInv'
<1> DEFINE p == held[w]
<1>1. /\ tpc[w] = "handle"
      /\ p \in Pills
      /\ tpc' = [tpc EXCEPT ![w] = "pill"]
      /\ addPc[w] = "out"
      /\ addPc' = [addPc EXCEPT ![w] = "lock"]
      /\ addArg' = [addArg EXCEPT ![w] = p]
      /\ state' = [state EXCEPT ![p] = "PENDING"]
      /\ adds' = [adds EXCEPT ![p] = @ + 1]
      /\ UNCHANGED <<addMutex, canceled, runs>>
      /\ UNCHANGED <<queue, queueDone, held, stop, maxSize, threads, numThreads, adjust, life>>
  BY DEF HandlePill, AddBegin, serviceVars
<1>2. Typed /\ AddersKnown /\ ThreadsKnown /\ QueuedOnce /\ NoExtraRuns
  BY DEF ServiceInv
<1>3. p \in Requests /\ w \in Adders /\ p # None
  BY <1>1, Names
<1>4. \A v \in Workers : (v # w /\ tpc'[v] = tpc[v]) \/ (v = w /\ tpc'[v] = "pill")
  BY <1>1, <1>2 DEF Typed, ServiceTypeOK
<1>5. \A a \in Adders : /\ addPc'[a] = IF a = w THEN "lock" ELSE addPc[a]
                        /\ addArg'[a] = IF a = w THEN p ELSE addArg[a]
  BY <1>1, <1>2 DEF Typed, ServiceTypeOK
<1> HIDE DEF p
<1>6. Typed'
  BY <1>1, <1>2, <1>3 DEF Typed, ServiceTypeOK, AddPcs, States, ThreadPcs
<1>7. AddersKnown'
  BY <1>1, <1>2, <1>3, <1>4, <1>5, Names DEF AddersKnown
<1>8. ThreadsKnown'
  BY <1>1, <1>2, <1>3, <1>4 DEF ThreadsKnown, p
<1>9. QueuedOnce'
  BY <1>1, <1>2 DEF QueuedOnce
<1>10. NoExtraRuns'
  BY <1>1, <1>2 DEF NoExtraRuns, Typed
<1>11. ASSUME NEW r \in Jobs PROVE Known(r)'
  <2>1. Known(r) /\ r \in Requests /\ r # p /\ r # None
    BY <1>1, Names DEF ServiceInv, Jobs
  <2>2. state'[r] = state[r] /\ adds'[r] = adds[r] /\ runs'[r] = runs[r]
    BY <1>1, <1>2, <2>1 DEF Typed, ServiceTypeOK
  <2>3. InQueue(r)' <=> InQueue(r)
    BY <1>1 DEF InQueue
  <2>4. \A a \in Adders : addArg'[a] = r <=> addArg[a] = r
    BY <1>1, <1>2, <1>3, <1>5, <2>1 DEF AddersKnown
  <2>5. \A v \in Workers : Holds(v, r)' <=> Holds(v, r)
    BY <1>1, <1>4, <2>1 DEF Holds, TakenBy, DroppedBy, p
  <2>6. \A v \in Workers : Holds(v, r) => tpc'[v] = tpc[v]
    BY <1>1, <1>4, <2>1 DEF Holds, TakenBy, DroppedBy, p
  <2> QED
    BY <2>1, <2>2, <2>3, <2>4, <2>5, <2>6, KnownKept
<1> QED
  BY <1>6, <1>7, <1>8, <1>9, <1>10, <1>11 DEF ServiceInv

\* What a thread does with a request of its own changes no other request.
LEMMA OneRequestHandled ==
    ASSUME ServiceInv, NEW w \in Workers, NEW pc \in ThreadPcs \ {"exited"},
           Holds(w, held[w]), held[w] \in Jobs,
           tpc' = [tpc EXCEPT ![w] = pc],
           UNCHANGED <<queue, addArg, held, stop>>,
           \A x \in Requests : x # held[w] =>
               state'[x] = state[x] /\ adds'[x] = adds[x] /\ runs'[x] = runs[x],
           Known(held[w])'
    PROVE  \A x \in Jobs : Known(x)'
<1> SUFFICES ASSUME NEW x \in Jobs PROVE Known(x)'
  OBVIOUS
<1>1. Known(x) /\ x \in Requests
  BY Names DEF ServiceInv
<1>2. CASE x # held[w]
  <2>1. \A v \in Workers : tpc'[v] = IF v = w THEN pc ELSE tpc[v]
    BY DEF ServiceInv, Typed, ServiceTypeOK
  <2>2. InQueue(x)' <=> InQueue(x)
    BY DEF InQueue
  <2>3. \A v \in Workers : Holds(v, x)' <=> Holds(v, x)
    BY <1>2, <2>1 DEF Holds, TakenBy, DroppedBy
  <2>4. \A v \in Workers : Holds(v, x) => tpc'[v] = tpc[v]
    BY <1>2, <2>1 DEF Holds, TakenBy, DroppedBy
  <2> QED
    BY <1>1, <1>2, <2>2, <2>3, <2>4, KnownKept
<1>3. CASE x = held[w]
  <2>1. x = held'[w]
    BY <1>3
  <2> QED
    BY <1>3
<1> QED
  BY <1>2, <1>3

\* It is started unless it was canceled; it cannot be anything but pending.
LEMMA HandleRequestKeeps ==
    ASSUME ServiceInv, NEW w \in Workers, HandleRequest(w)
    PROVE  ServiceInv'
<1> DEFINE r == held[w]
<1>1. /\ tpc[w] = "handle"
      /\ r \notin Pills
      /\ UNCHANGED <<adds, runs, held, addArg>>
      /\ UNCHANGED <<queue, queueDone, addVars, stop, maxSize, threads, numThreads, adjust, life>>
  BY DEF HandleRequest, WorkerUnchanged, serviceVars, addVars
<1>2. /\ tpc \in [Workers -> ThreadPcs]
      /\ held \in [Workers -> Requests \union {None}]
      /\ state \in [Requests -> States]
      /\ canceled \in [Requests -> BOOLEAN]
      /\ runs \in [Requests -> Nat]
      /\ NoExtraRuns
  BY DEF ServiceInv, Typed, ServiceTypeOK
<1>3. r \in Jobs /\ r \in Requests /\ r # None /\ Known(r) /\ Holds(w, r)
  BY <1>1, HeldIsJob
<1>4. state[r] = "PENDING"
  BY <1>1, <1>3 DEF Known, StateKnown
<1>5. \E pc \in {"complete", "run"} :
         /\ tpc' = [tpc EXCEPT ![w] = pc]
         /\ canceled' = canceled
         /\ pc = "run" => state' = [state EXCEPT ![r] = "IN_PROGRESS"]
         /\ pc = "complete" => state' = state
  BY <1>4 DEF HandleRequest
<1>6. PICK pc \in {"complete", "run"} :
         /\ tpc' = [tpc EXCEPT ![w] = pc]
         /\ canceled' = canceled
         /\ pc = "run" => state' = [state EXCEPT ![r] = "IN_PROGRESS"]
         /\ pc = "complete" => state' = state
  BY <1>5
<1> HIDE DEF r
<1>7. /\ state' \in [Requests -> States]
      /\ \A x \in Requests : x # r => state'[x] = state[x]
      /\ pc = "run" => state'[r] = "IN_PROGRESS"
      /\ pc = "complete" => state'[r] = "PENDING"
  BY <1>2, <1>3, <1>4, <1>6 DEF States
<1>8. \A v \in Workers : tpc'[v] = IF v = w THEN pc ELSE tpc[v]
  BY <1>2, <1>6
<1>9. Known(r)'
  <2>1. InQueue(r)' <=> InQueue(r)
    BY <1>1 DEF InQueue, r
  <2>2. \A v \in Workers : Holds(v, r)' <=> Holds(v, r)
    BY <1>1, <1>3, <1>8 DEF Holds, TakenBy, DroppedBy, r
  <2>3. OnePlace(r)'
    BY <1>1, <1>3, <2>1, <2>2 DEF Known, OnePlace, r
  <2>4. /\ \A a \in Adders : addArg[a] # r
        /\ ~InQueue(r)
        /\ \A v \in Workers : Holds(v, r) => v = w
    BY <1>3 DEF Known, OnePlace
  <2>5. StateKnown(r)'
    BY <1>1, <1>3, <1>7, <1>8, <2>1, <2>2, <2>4 DEF StateKnown, r
  <2>6. RunsKnown(r)'
    BY <1>1, <1>3, <1>4, <1>7, <1>8, <2>2, <2>4 DEF Known, RunsKnown, r
  <2> QED
    BY <2>3, <2>5, <2>6 DEF Known, r
<1>10. ASSUME NEW x \in Jobs PROVE Known(x)'
  BY <1>1, <1>3, <1>6, <1>7, <1>9, OneRequestHandled DEF ThreadPcs, r
<1>11. pc \in ThreadPcs
  BY DEF ThreadPcs
<1> QED
  BY <1>1, <1>2, <1>3, <1>6, <1>7, <1>10, <1>11, OneThreadMoves DEF NoExtraRuns, r

\* A run takes away the chance to run that the last add() gave.
LEMMA RunKeeps ==
    ASSUME ServiceInv, NEW w \in Workers, Run(w)
    PROVE  ServiceInv'
<1> DEFINE r == held[w]
<1>1. /\ tpc[w] = "run"
      /\ tpc' = [tpc EXCEPT ![w] = "complete"]
      /\ UNCHANGED <<state, adds, held, addArg>>
      /\ UNCHANGED <<queue, queueDone, addVars, stop, maxSize, threads, numThreads, adjust, life>>
  BY DEF Run, WorkerUnchanged, serviceVars, addVars
<1>2. /\ tpc \in [Workers -> ThreadPcs]
      /\ held \in [Workers -> Requests \union {None}]
      /\ state \in [Requests -> States]
      /\ canceled \in [Requests -> BOOLEAN]
      /\ runs \in [Requests -> Nat]
      /\ adds \in [Requests -> Nat]
      /\ NoExtraRuns
  BY DEF ServiceInv, Typed, ServiceTypeOK
<1>3. r \in Jobs /\ r \in Requests /\ r # None /\ Known(r) /\ Holds(w, r) /\ r \notin Pills
  BY <1>1, HeldIsJob DEF Jobs
<1>4. /\ state[r] = "IN_PROGRESS"
      /\ runs[r] < adds[r]
  BY <1>1, <1>3 DEF Known, StateKnown, RunsKnown
<1>5. /\ runs' = [runs EXCEPT ![r] = @ + 1]
      /\ canceled' = canceled
  BY <1>4 DEF Run
<1> HIDE DEF r
<1>6. /\ runs' \in [Requests -> Nat]
      /\ \A x \in Requests : x # r => runs'[x] = runs[x]
      /\ \A x \in Requests : runs'[x] <= adds[x]
  BY <1>2, <1>3, <1>4, <1>5 DEF NoExtraRuns
<1>7. \A v \in Workers : tpc'[v] = IF v = w THEN "complete" ELSE tpc[v]
  BY <1>1, <1>2
<1>8. Known(r)'
  <2>1. InQueue(r)' <=> InQueue(r)
    BY <1>1 DEF InQueue, r
  <2>2. \A v \in Workers : Holds(v, r)' <=> Holds(v, r)
    BY <1>1, <1>3, <1>7 DEF Holds, TakenBy, DroppedBy, r
  <2>3. OnePlace(r)'
    BY <1>1, <1>3, <2>1, <2>2 DEF Known, OnePlace, r
  <2>4. /\ \A a \in Adders : addArg[a] # r
        /\ ~InQueue(r)
        /\ \A v \in Workers : Holds(v, r) => v = w
    BY <1>3 DEF Known, OnePlace
  <2>5. StateKnown(r)'
    BY <1>1, <1>3, <1>4, <1>7, <2>1, <2>2, <2>4 DEF StateKnown, r
  <2>6. RunsKnown(r)'
    BY <1>1, <1>3, <1>4, <1>7, <2>2, <2>4 DEF RunsKnown, r
  <2> QED
    BY <2>3, <2>5, <2>6 DEF Known, r
<1>9. ASSUME NEW x \in Jobs PROVE Known(x)'
  BY <1>1, <1>3, <1>6, <1>8, OneRequestHandled DEF ThreadPcs, r
<1>10. "complete" \in ThreadPcs
  BY DEF ThreadPcs
<1> QED
  BY <1>1, <1>2, <1>3, <1>5, <1>6, <1>9, <1>10, OneThreadMoves DEF r

LEMMA CompleteKeeps ==
    ASSUME ServiceInv, NEW w \in Workers, Complete(w)
    PROVE  ServiceInv'
<1> DEFINE r == held[w]
<1>1. /\ tpc[w] = "complete"
      /\ state' = [state EXCEPT ![r] = "COMPLETED"]
      /\ tpc' = [tpc EXCEPT ![w] = "loop"]
      /\ UNCHANGED <<canceled, adds, runs, held, addArg>>
      /\ UNCHANGED <<queue, queueDone, addVars, stop, maxSize, threads, numThreads, adjust, life>>
  BY DEF Complete, WorkerUnchanged, serviceVars, addVars
<1>2. /\ tpc \in [Workers -> ThreadPcs]
      /\ held \in [Workers -> Requests \union {None}]
      /\ state \in [Requests -> States]
      /\ canceled \in [Requests -> BOOLEAN]
      /\ runs \in [Requests -> Nat]
      /\ NoExtraRuns
  BY DEF ServiceInv, Typed, ServiceTypeOK
<1>3. r \in Jobs /\ r \in Requests /\ r # None /\ Known(r) /\ Holds(w, r)
  BY <1>1, HeldIsJob
<1> HIDE DEF r
<1>4. /\ state' \in [Requests -> States]
      /\ \A x \in Requests : x # r => state'[x] = state[x]
      /\ state'[r] = "COMPLETED"
  BY <1>1, <1>2, <1>3 DEF States
<1>5. \A v \in Workers : tpc'[v] = IF v = w THEN "loop" ELSE tpc[v]
  BY <1>1, <1>2
<1>6. Known(r)'
  <2>1. /\ \A a \in Adders : addArg[a] # r
        /\ ~InQueue(r)
        /\ \A v \in Workers : Holds(v, r) => v = w
    BY <1>3 DEF Known, OnePlace
  <2>2. ~InQueue(r)'
    BY <1>1, <2>1 DEF InQueue, r
  <2>3. \A v \in Workers : ~Holds(v, r)'
    BY <1>1, <1>5, <2>1 DEF Holds, TakenBy, DroppedBy, r
  <2>4. OnePlace(r)'
    BY <1>1, <2>1, <2>2, <2>3 DEF OnePlace, r
  <2>5. StateKnown(r)'
    BY <1>1, <1>4, <2>1, <2>2, <2>3 DEF StateKnown, r
  <2>6. RunsKnown(r)'
    BY <1>1, <1>4, <2>3 DEF RunsKnown, r
  <2> QED
    BY <2>4, <2>5, <2>6 DEF Known, r
<1>7. ASSUME NEW x \in Jobs PROVE Known(x)'
  BY <1>1, <1>3, <1>4, <1>6, OneRequestHandled DEF ThreadPcs, r
<1>8. "loop" \in ThreadPcs
  BY DEF ThreadPcs
<1> QED
  BY <1>1, <1>2, <1>4, <1>7, <1>8, OneThreadMoves DEF NoExtraRuns

-----------------------------------------------------------------------------
(* The pool                                                                *)

\* The owner, and a client that only cancels, move no request.
LEMMA OwnerMovesNothing ==
    ASSUME ServiceInv, ServiceTypeOK',
           UNCHANGED <<state, adds, runs, queue, addPc, addArg, held>>,
           \A w \in Workers : \/ tpc'[w] = tpc[w]
                              \/ tpc[w] = "unborn" /\ tpc'[w] = "loop"
                              \/ tpc[w] = "wait" /\ tpc'[w] = "get",
           \A w \in Workers : \/ stop'[w] = stop[w]
                              \/ stop'[w] /\ tpc[w] # "unborn",
           \A w \in threads' : w \in threads \/ tpc'[w] # "unborn"
    PROVE  ServiceInv'
<1>1. Typed /\ AddersKnown /\ ThreadsKnown /\ QueuedOnce /\ NoExtraRuns
  BY DEF ServiceInv
<1>2. Typed' /\ NoExtraRuns' /\ QueuedOnce'
  BY <1>1 DEF Typed, NoExtraRuns, QueuedOnce
<1>3. AddersKnown'
  BY <1>1 DEF AddersKnown
<1>4. ThreadsKnown'
  <2> SUFFICES ASSUME NEW w \in Workers
               PROVE  /\ tpc'[w] \in {"handle", "run", "complete", "pill"} => held[w] # None
                      /\ tpc'[w] \in {"unborn", "get", "wait"} => held[w] = None
                      /\ tpc'[w] \in {"run", "complete"} => held[w] \notin Pills
                      /\ tpc'[w] = "pill" => held[w] \in Pills
                      /\ tpc'[w] = "unborn" => ~stop'[w] /\ w \notin threads'
                      /\ tpc'[w] = "exited" /\ ~stop'[w] => held[w] \in Pills
    BY DEF ThreadsKnown
  <2>1. tpc'[w] = "unborn" => tpc[w] = "unborn"
    OBVIOUS
  <2>2. \/ tpc'[w] = tpc[w]
        \/ tpc'[w] \notin {"handle", "run", "complete", "pill", "unborn", "exited", "wait"}
    OBVIOUS
  <2> QED
    BY <1>1, <2>1, <2>2 DEF ThreadsKnown
<1>5. ASSUME NEW x \in Jobs PROVE Known(x)'
  <2>1. Known(x) /\ x # None /\ x \notin Pills
    BY Names DEF ServiceInv, Jobs
  <2>2. InQueue(x)' <=> InQueue(x)
    BY DEF InQueue
  <2>3. \A w \in Workers : Holds(w, x)' <=> Holds(w, x)
    BY <1>1, <2>1 DEF Holds, TakenBy, DroppedBy, ThreadsKnown
  <2>4. \A w \in Workers : Holds(w, x) => tpc'[w] = tpc[w]
    BY DEF Holds, TakenBy, DroppedBy
  <2> QED
    BY <2>1, <2>2, <2>3, <2>4, KnownKept
<1> QED
  BY <1>2, <1>3, <1>4, <1>5 DEF ServiceInv

\* Workers that run, and are to go on, are none of those still to be made.
LEMMA Adjusted ==
    ASSUME Typed, NEW n \in Nat, AdjustThreadCount(n)
    PROVE  /\ threads' = StillRunning
           /\ threads' \subseteq threads
           /\ numThreads' = n
           /\ n \in 0 .. MaxThreads
           /\ adjust' = n - Cardinality(Active(StillRunning))
           /\ adjust' \in -MaxThreads .. MaxThreads
<1> DEFINE A == Active(StillRunning)
           U == {w \in Workers : tpc[w] = "unborn"}
<1>1. /\ IsFiniteSet(Workers) /\ Cardinality(Workers) = MaxThreads /\ MaxThreads \in Nat
  BY TaskAssumptions, FS_Interval DEF Workers
<1>2. A \subseteq Workers /\ U \subseteq Workers /\ A \intersect U = {}
  BY DEF Active, StillRunning, Running, Typed, ServiceTypeOK
<1>3. /\ threads' = StillRunning
      /\ numThreads' = n
      /\ adjust' = n - Cardinality(A)
      /\ adjust' <= Cardinality(U)
  BY DEF AdjustThreadCount
<1>4. StillRunning \subseteq threads
  BY DEF StillRunning
<1> HIDE DEF A, U
<1>5. /\ IsFiniteSet(A) /\ IsFiniteSet(U)
      /\ Cardinality(A) \in Nat /\ Cardinality(U) \in Nat
  BY <1>1, <1>2, FS_Subset, FS_CardinalityType
<1>6. Cardinality(A \union U) = Cardinality(A) + Cardinality(U)
  <2>1. Cardinality(A \union U)
            = Cardinality(A) + Cardinality(U) - Cardinality(A \intersect U)
    BY <1>5, FS_Union
  <2>2. Cardinality(A \intersect U) = 0
    BY <1>2, FS_EmptySet
  <2> QED
    BY <1>5, <2>1, <2>2
<1>7. Cardinality(A \union U) <= MaxThreads
  BY <1>1, <1>2, FS_Subset
<1> QED
  BY <1>1, <1>3, <1>4, <1>5, <1>6, <1>7 DEF A

LEMMA OwnerCallKeeps ==
    ASSUME ServiceInv,
           \/ \E n \in Nat : SetNumThreads(n)
           \/ CancelAll
           \/ SetStamp
    PROVE  ServiceInv'
<1>1. Typed /\ ServiceTypeOK
  BY DEF ServiceInv, Typed
<1>2. /\ threads' \subseteq threads
      /\ numThreads' \in 0 .. MaxThreads
      /\ adjust' \in -MaxThreads .. MaxThreads
  <2>1. CASE \E n \in Nat : SetNumThreads(n)
    <3>1. PICK n \in Nat : SetNumThreads(n)
      BY <2>1
    <3>2. PICK m \in Nat : AdjustThreadCount(m)
      BY <3>1 DEF SetNumThreads
    <3> QED
      BY <1>1, <3>2, Adjusted
  <2>2. CASE CancelAll
    BY <1>1, <2>2, Adjusted DEF CancelAll
  <2>3. CASE SetStamp
    BY <1>1, <2>3 DEF SetStamp, StillRunning, ServiceTypeOK
  <2> QED
    BY <2>1, <2>2, <2>3
<1>3. /\ UNCHANGED <<state, canceled, adds, runs, queue, maxSize, addMutex, addPc, addArg, held>>
      /\ UNCHANGED <<queueDone, tpc, stop, life>>
  BY DEF SetNumThreads, CancelAll, SetStamp, OwnerUnchanged, requestVars, addVars
<1>4. ServiceTypeOK'
  BY <1>1, <1>2, <1>3 DEF ServiceTypeOK
<1> QED
  BY <1>2, <1>3, <1>4, OwnerMovesNothing

LEMMA DestroyKeeps ==
    ASSUME ServiceInv, Destroy
    PROVE  ServiceInv'
<1>1. ServiceTypeOK
  BY DEF ServiceInv, Typed
<1>2. /\ UNCHANGED <<state, canceled, adds, runs, queue, maxSize, addMutex, addPc, addArg, held>>
      /\ UNCHANGED <<stop, threads, numThreads, adjust>>
      /\ life' = "flags" /\ queueDone' = TRUE
      /\ tpc' = [w \in Workers |-> IF tpc[w] = "wait" THEN "get" ELSE tpc[w]]
  BY DEF Destroy, OwnerUnchanged, requestVars, addVars
<1>3. ServiceTypeOK'
  BY <1>1, <1>2 DEF ServiceTypeOK, ThreadPcs
<1> QED
  BY <1>2, <1>3, OwnerMovesNothing

LEMMA OwnerStepKeeps ==
    ASSUME ServiceInv, OwnerStep
    PROVE  ServiceInv'
<1>1. ServiceTypeOK /\ ThreadsKnown /\ MaxThreads \in Nat
  BY TaskAssumptions DEF ServiceInv, Typed
<1>2. ASSUME NEW w \in Workers, AddThread(w) PROVE ServiceInv'
  <2>1. /\ adjust > 0 /\ adjust' = adjust - 1
        /\ tpc[w] = "unborn"
        /\ tpc' = [tpc EXCEPT ![w] = "loop"]
        /\ threads' = threads \union {w}
        /\ UNCHANGED <<state, canceled, adds, runs, queue, maxSize, addMutex, addPc, addArg, held>>
        /\ UNCHANGED <<queueDone, stop, numThreads, life>>
    BY <1>2 DEF AddThread, OwnerUnchanged, requestVars, addVars
  <2>2. adjust' \in -MaxThreads .. MaxThreads
    BY <1>1, <2>1 DEF ServiceTypeOK
  <2>3. ServiceTypeOK'
    BY <1>1, <2>1, <2>2 DEF ServiceTypeOK, ThreadPcs
  <2>4. \A v \in Workers : tpc'[v] = IF v = w THEN "loop" ELSE tpc[v]
    BY <1>1, <2>1 DEF ServiceTypeOK
  <2> QED
    BY <2>1, <2>3, <2>4, OwnerMovesNothing
<1>3. CASE StopThread
  <2>1. PICK w \in Workers : First(w, Active(threads)) /\ stop' = [stop EXCEPT ![w] = TRUE]
    BY <1>3 DEF StopThread
  <2>2. /\ adjust < 0 /\ adjust' = adjust + 1
        /\ UNCHANGED <<state, canceled, adds, runs, queue, maxSize, addMutex, addPc, addArg, held>>
        /\ UNCHANGED <<queueDone, tpc, threads, numThreads, life>>
    BY <1>3 DEF StopThread, OwnerUnchanged, requestVars, addVars
  <2>3. adjust' \in -MaxThreads .. MaxThreads
    BY <1>1, <2>2 DEF ServiceTypeOK
  <2>4. tpc[w] # "unborn"
    BY <1>1, <2>1 DEF First, Active, ThreadsKnown
  <2>5. ServiceTypeOK'
    BY <1>1, <2>1, <2>2, <2>3 DEF ServiceTypeOK
  <2>6. \A v \in Workers : stop'[v] = IF v = w THEN TRUE ELSE stop[v]
    BY <1>1, <2>1 DEF ServiceTypeOK
  <2> QED
    BY <2>2, <2>4, <2>5, <2>6, OwnerMovesNothing
<1>4. CASE DestroyFlags
  <2>1. /\ life' = "cancel"
        /\ stop' = [w \in Workers |-> stop[w] \/ w \in threads]
        /\ UNCHANGED <<state, canceled, adds, runs, queue, maxSize, addMutex, addPc, addArg, held>>
        /\ UNCHANGED <<queueDone, tpc, threads, numThreads, adjust>>
    BY <1>4 DEF DestroyFlags, OwnerUnchanged, requestVars, addVars
  <2>2. ServiceTypeOK'
    BY <1>1, <2>1 DEF ServiceTypeOK
  <2>3. \A w \in Workers : stop'[w] = stop[w] \/ (stop'[w] /\ tpc[w] # "unborn")
    BY <1>1, <2>1 DEF ServiceTypeOK, ThreadsKnown
  <2> QED
    BY <2>1, <2>2, <2>3, OwnerMovesNothing
<1>5. CASE DestroyCancel
  <2>1. /\ life' = "join"
        /\ UNCHANGED <<state, adds, runs, queue, maxSize, addMutex, addPc, addArg, held>>
        /\ UNCHANGED <<queueDone, tpc, stop, threads, numThreads, adjust>>
    BY <1>5 DEF DestroyCancel, addVars, threadVars
  <2>2. canceled' \in [Requests -> BOOLEAN]
    BY <1>1, <1>5 DEF DestroyCancel, ServiceTypeOK
  <2>3. ServiceTypeOK'
    BY <1>1, <2>1, <2>2 DEF ServiceTypeOK
  <2> QED
    BY <2>1, <2>3, OwnerMovesNothing
<1>6. CASE DestroyJoin \/ DestroyEnd
  <2>1. /\ threads' \subseteq threads
        /\ life' \in {"cancel", "gone"}
        /\ UNCHANGED <<state, canceled, adds, runs, queue, maxSize, addMutex, addPc, addArg, held>>
        /\ UNCHANGED <<queueDone, tpc, stop, numThreads, adjust>>
    BY <1>6 DEF DestroyJoin, DestroyEnd, OwnerUnchanged, requestVars, addVars
  <2>2. ServiceTypeOK'
    BY <1>1, <2>1 DEF ServiceTypeOK
  <2> QED
    BY <2>1, <2>2, OwnerMovesNothing
<1> QED
  BY <1>2, <1>3, <1>4, <1>5, <1>6 DEF OwnerStep

-----------------------------------------------------------------------------
(* The service as a whole                                                  *)

LEMMA ServiceStarts == ServiceInit => ServiceInv
<1> SUFFICES ASSUME ServiceInit PROVE ServiceInv
  OBVIOUS
<1>1. FirstThreads \in 1 .. MaxThreads /\ MaxThreads \in Nat
  BY TaskAssumptions
<1>2. Len(queue) = 0 /\ 1 .. Len(queue) = {}
  BY DEF ServiceInit
<1>3. Typed
  <2>1. threads \subseteq Workers
    BY <1>1 DEF ServiceInit, Workers
  <2>2. tpc \in [Workers -> ThreadPcs]
    BY DEF ServiceInit, ThreadPcs
  <2>3. numThreads \in 0 .. MaxThreads /\ adjust \in -MaxThreads .. MaxThreads
    BY <1>1 DEF ServiceInit
  <2>4. queue \in Seq(Requests)
    BY DEF ServiceInit
  <2> QED
    BY <2>1, <2>2, <2>3, <2>4 DEF ServiceInit, Typed, ServiceTypeOK, States, AddPcs
<1>4. AddersKnown
  BY Names DEF ServiceInit, AddersKnown
<1>5. ThreadsKnown
  BY <1>1 DEF ServiceInit, ThreadsKnown, Workers
<1>6. QueuedOnce
  BY <1>2 DEF QueuedOnce
<1>7. NoExtraRuns
  BY DEF ServiceInit, NoExtraRuns
<1>8. ASSUME NEW r \in Jobs PROVE Known(r)
  <2>1. /\ \A a \in Adders : addArg[a] # r
        /\ ~InQueue(r)
        /\ \A w \in Workers : ~Holds(w, r)
        /\ state[r] = "IDLE"
    BY <1>2, Names DEF ServiceInit, InQueue, Holds, TakenBy, DroppedBy
  <2> QED
    BY <2>1 DEF Known, OnePlace, StateKnown, RunsKnown
<1> QED
  BY <1>3, <1>4, <1>5, <1>6, <1>7, <1>8 DEF ServiceInv

LEMMA AddStepKeeps ==
    ASSUME ServiceInv, NEW a \in Adders, AddStep(a)
    PROVE  ServiceInv'
  BY AddLockKeeps, AddInsertKeeps DEF AddStep

LEMMA ThreadStepKeeps ==
    ASSUME ServiceInv, NEW w \in Workers, ThreadStep(w)
    PROVE  ServiceInv'
  BY LoopKeeps, GetKeeps, GotKeeps, HandleRequestKeeps, RunKeeps, CompleteKeeps DEF ThreadStep

-----------------------------------------------------------------------------
(* The clients of TaskClients                                              *)

LEMMA RecycleKeeps ==
    ASSUME ServiceInv, NEW c \in Clients, NEW r \in Jobs, RecycleRequest(c, r)
    PROVE  ServiceInv'
<1>1. /\ state[r] = "COMPLETED"
      /\ state' = [state EXCEPT ![r] = "IDLE"]
      /\ canceled' = [canceled EXCEPT ![r] = FALSE]
      /\ adds' = [adds EXCEPT ![r] = 0]
      /\ runs' = [runs EXCEPT ![r] = 0]
      /\ UNCHANGED <<queue, queueDone, addMutex, addPc, addArg>>
      /\ UNCHANGED <<tpc, held, stop, maxSize, threads, numThreads, adjust, life>>
  BY DEF RecycleRequest, ClientUnchanged, addVars, threadVars, serviceVars
<1>2. Typed /\ AddersKnown /\ ThreadsKnown /\ QueuedOnce /\ NoExtraRuns /\ r \in Requests
  BY Names DEF ServiceInv
<1>3. Typed'
  BY <1>1, <1>2 DEF Typed, ServiceTypeOK, States
<1>4. AddersKnown' /\ ThreadsKnown' /\ QueuedOnce'
  BY <1>1, <1>2 DEF AddersKnown, ThreadsKnown, QueuedOnce
<1>5. \A x \in Requests : /\ adds'[x] = IF x = r THEN 0 ELSE adds[x]
                          /\ runs'[x] = IF x = r THEN 0 ELSE runs[x]
  BY <1>1, <1>2 DEF Typed
<1>6. NoExtraRuns'
  BY <1>2, <1>5 DEF NoExtraRuns
<1>7. ASSUME NEW x \in Jobs PROVE Known(x)'
  <2>1. Known(x) /\ x \in Requests
    BY Names DEF ServiceInv
  <2>2. InQueue(x)' <=> InQueue(x)
    BY <1>1 DEF InQueue
  <2>3. \A w \in Workers : Holds(w, x)' <=> Holds(w, x)
    BY <1>1 DEF Holds, TakenBy, DroppedBy
  <2>4. state'[x] = IF x = r THEN "IDLE" ELSE state[x]
    BY <1>1, <1>2, <2>1 DEF Typed, ServiceTypeOK
  <2>5. CASE x # r
    BY <1>1, <1>5, <2>1, <2>2, <2>3, <2>4, <2>5, KnownKept
  <2>6. CASE x = r
    <3>1. /\ \A a \in Adders : addArg[a] # x
          /\ ~InQueue(x)
          /\ \A w \in Workers : ~Holds(w, x)
      BY <1>1, <2>6, Nowhere
    <3> QED
      BY <1>1, <2>2, <2>3, <2>4, <2>6, <3>1 DEF Known, OnePlace, StateKnown, RunsKnown
  <2> QED
    BY <2>5, <2>6
<1> QED
  BY <1>3, <1>4, <1>7, <1>6 DEF ServiceInv

LEMMA CancelRequestKeeps ==
    ASSUME ServiceInv, NEW c \in Clients, NEW r \in Jobs, CancelRequest(c, r)
    PROVE  ServiceInv'
<1>1. /\ canceled' = [canceled EXCEPT ![r] = TRUE]
      /\ UNCHANGED <<state, adds, runs, queue, queueDone, addMutex, addPc, addArg>>
      /\ UNCHANGED <<tpc, held, stop, maxSize, threads, numThreads, adjust, life>>
  BY DEF CancelRequest, ClientUnchanged, addVars, threadVars, serviceVars
<1>2. ServiceTypeOK
  BY DEF ServiceInv, Typed
<1>3. ServiceTypeOK'
  BY <1>1, <1>2 DEF ServiceTypeOK
<1> QED
  BY <1>1, <1>3, OwnerMovesNothing

LEMMA ClientStepKeeps ==
    ASSUME ServiceInv, NEW c \in Clients, ClientStep(c)
    PROVE  ServiceInv'
<1>1. PICK r \in Jobs : AddRequest(c, r) \/ RecycleRequest(c, r) \/ CancelRequest(c, r)
  BY DEF ClientStep, Jobs
<1>2. CASE AddRequest(c, r)
  <2>1. /\ AddBegin(c, r)
        /\ state[r] = "IDLE"
        /\ UNCHANGED <<queue, queueDone, threadVars, serviceVars>>
        /\ r \in Requests
    BY <1>2, Names DEF AddRequest
  <2> QED
    BY <2>1, AddBeginKeeps
<1> QED
  BY <1>1, <1>2, RecycleKeeps, CancelRequestKeeps

LEMMA StutterKeeps ==
    ASSUME ServiceInv, UNCHANGED taskVars
    PROVE  ServiceInv'
<1>1. /\ UNCHANGED <<state, canceled, adds, runs, queue, queueDone>>
      /\ UNCHANGED <<addMutex, addPc, addArg, tpc, held, stop>>
      /\ UNCHANGED <<maxSize, threads, numThreads, adjust, life>>
  BY DEF taskVars, requestVars, addVars, threadVars, serviceVars
<1>2. ServiceTypeOK'
  BY <1>1 DEF ServiceInv, Typed, ServiceTypeOK
<1> QED
  BY <1>1, <1>2, OwnerMovesNothing

LEMMA ClientsKeepService == ServiceInv /\ [ClientsNext]_taskVars => ServiceInv'
<1> SUFFICES ASSUME ServiceInv, [ClientsNext]_taskVars PROVE ServiceInv'
  OBVIOUS
<1>1. CASE OwnerCall
  <2>1. CASE \E n \in PoolSizes : SetNumThreads(n)
    BY <2>1, OwnerCallKeeps, ClientAssumptions
  <2> QED
    BY <1>1, <2>1, OwnerCallKeeps, DestroyKeeps DEF OwnerCall
<1> QED
  BY <1>1, ClientStepKeeps, AddStepKeeps, ThreadStepKeeps, OwnerStepKeeps, StutterKeeps
  DEF ClientsNext

LEMMA AlwaysServiceInv == ClientsSpec => []ServiceInv
  BY ServiceStarts, ClientsKeepService, PTL DEF ClientsSpec

\* Every variable of a service in use keeps its type.
THEOREM ServiceTypeHolds == ClientsSpec => []ServiceTypeOK
<1>1. ServiceInv => ServiceTypeOK
  BY DEF ServiceInv, Typed
<1> QED
  BY <1>1, AlwaysServiceInv, PTL

\* No two threads work on one request, and none runs it more often than it was
\* added, however the pool is resized, canceled and destroyed meanwhile.
THEOREM RunOncePerAddHolds == ClientsSpec => []RunOncePerAdd
<1>1. ServiceInv => RunOncePerAdd
  BY DEF ServiceInv, RunOncePerAdd, NoExtraRuns, Known, OnePlace, Holds, Jobs
<1> QED
  BY <1>1, AlwaysServiceInv, PTL

LEMMA Accounted == ServiceInv => RequestsAccounted
<1> SUFFICES ASSUME ServiceInv, NEW r \in Jobs, state[r] \in {"PENDING", "IN_PROGRESS"}
             PROVE  Cardinality({a \in Adders : addArg[a] = r}
                                \union {w \in Workers : TakenBy(w, r) \/ DroppedBy(w, r)})
                    + Cardinality({i \in 1 .. Len(queue) : queue[i] = r}) = 1
  BY DEF RequestsAccounted, Jobs
<1> DEFINE A == {a \in Adders : addArg[a] = r}
           H == {w \in Workers : TakenBy(w, r) \/ DroppedBy(w, r)}
           Q == {i \in 1 .. Len(queue) : queue[i] = r}
<1>1. /\ OnePlace(r)
      /\ \/ \E a \in Adders : addArg[a] = r
         \/ InQueue(r)
         \/ \E w \in Workers : Holds(w, r)
      /\ QueuedOnce
      /\ r \notin Pills
  BY DEF ServiceInv, Known, StateKnown, Jobs
<1>2. Cardinality({}) = 0
  BY FS_EmptySet
<1>3. CASE InQueue(r)
  <2>1. A = {} /\ H = {}
    BY <1>1, <1>3 DEF OnePlace, Holds
  <2>2. PICK i \in 1 .. Len(queue) : queue[i] = r
    BY <1>3 DEF InQueue
  <2>3. Q = {i}
    BY <1>1, <2>2 DEF QueuedOnce
  <2>4. Cardinality(Q) = 1
    BY <2>3, FS_Singleton
  <2>5. A \union H = {}
    BY <2>1
  <2> HIDE DEF A, H, Q
  <2>6. Cardinality(A \union H) = 0
    BY <1>2, <2>5, Zenon
  <2>7. Cardinality(A \union H) + Cardinality(Q) = 1
    BY <2>4, <2>6
  <2> QED
    BY <2>7 DEF A, H, Q
<1>4. CASE ~InQueue(r)
  <2>1. Q = {}
    BY <1>4 DEF InQueue
  <2>2. \E x : A \union H = {x}
    <3>1. CASE \E a \in Adders : addArg[a] = r
      <4>1. PICK a \in Adders : addArg[a] = r
        BY <3>1
      <4>2. A = {a} /\ H = {}
        BY <1>1, <4>1 DEF OnePlace, Holds
      <4> QED
        BY <4>2
    <3>2. CASE ~\E a \in Adders : addArg[a] = r
      <4>1. PICK w \in Workers : Holds(w, r)
        BY <1>1, <1>4, <3>2
      <4>2. H = {w} /\ A = {}
        BY <1>1, <3>2, <4>1 DEF OnePlace, Holds
      <4> QED
        BY <4>2
    <3> QED
      BY <3>1, <3>2
  <2>3. Cardinality(A \union H) = 1
    BY <2>2, FS_Singleton
  <2> HIDE DEF A, H, Q
  <2>4. Cardinality(Q) = 0
    BY <1>2, <2>1, Zenon
  <2>5. Cardinality(A \union H) + Cardinality(Q) = 1
    BY <2>3, <2>4
  <2> QED
    BY <2>5 DEF A, H, Q
<1> QED
  BY <1>3, <1>4

\* What was added and is not completed is in one place only: no signal, no
\* cancel and no change of the pool loses a request or doubles it.
THEOREM RequestsAccountedHolds == ClientsSpec => []RequestsAccounted
  BY Accounted, AlwaysServiceInv, PTL

-----------------------------------------------------------------------------
(* No pill comes in                                                        *)

\* Clients add none, and so no thread puts one back or leaves because of one.
PillFree ==
    \A p \in Pills : /\ ~InQueue(p)
                     /\ \A a \in Adders : addArg[a] # p
                     /\ \A w \in Workers : held[w] # p

\* A step that takes nothing from the queue and brings nothing new.
LEMMA PillFreeKept ==
    ASSUME PillFree, queue' = queue,
           \A a \in Adders : addArg'[a] = addArg[a] \/ addArg'[a] \notin Pills,
           \A w \in Workers : held'[w] = held[w] \/ held'[w] = None
    PROVE  PillFree'
<1>1. \A p : InQueue(p)' <=> InQueue(p)
  BY DEF InQueue
<1> QED
  BY <1>1, Names DEF PillFree

LEMMA ClientsKeepPillFree ==
    ServiceInv /\ PillFree /\ [ClientsNext]_taskVars => PillFree'
<1> SUFFICES ASSUME ServiceInv, PillFree, [ClientsNext]_taskVars PROVE PillFree'
  OBVIOUS
<1>1. /\ queue \in Seq(Requests)
      /\ addArg \in [Adders -> Requests \union {None}]
      /\ held \in [Workers -> Requests \union {None}]
  BY DEF ServiceInv, Typed, ServiceTypeOK
<1>2. ASSUME NEW c \in Clients, ClientStep(c) PROVE PillFree'
  <2>1. PICK r \in Jobs : AddRequest(c, r) \/ RecycleRequest(c, r) \/ CancelRequest(c, r)
    BY <1>2 DEF ClientStep, Jobs
  <2>2. /\ addArg' = addArg \/ addArg' = [addArg EXCEPT ![c] = r]
        /\ queue' = queue /\ held' = held
    BY <2>1 DEF AddRequest, AddBegin, RecycleRequest, CancelRequest, ClientUnchanged,
                threadVars, addVars
  <2>3. \A a \in Adders : addArg'[a] = addArg[a] \/ addArg'[a] \notin Pills
    BY <1>1, <2>2 DEF Jobs
  <2> QED
    BY <2>2, <2>3, PillFreeKept
<1>3. ASSUME NEW a \in Adders, AddStep(a) PROVE PillFree'
  <2>1. CASE AddInsert(a)
    <3>1. /\ queue' = InsertByPriority(queue, addArg[a])
          /\ addArg' = [addArg EXCEPT ![a] = None]
          /\ held' = held
          /\ addPc[a] = "insert"
      BY <2>1 DEF AddInsert
    <3>2. addArg[a] \in Requests
      BY <1>1, <3>1 DEF ServiceInv, AddersKnown
    <3>3. \A x : InQueue(x)' <=> InQueue(x) \/ x = addArg[a]
      BY <1>1, <3>1, <3>2, Inserted
    <3> QED
      BY <1>1, <3>1, <3>3, Names DEF PillFree
  <2>2. CASE AddLock(a) \/ AddWait(a) \/ AddWakeUp(a)
    <3>1. queue' = queue /\ addArg' = addArg /\ held' = held
      BY <2>2 DEF AddLock, AddWait, AddWakeUp, threadVars
    <3> QED
      BY <3>1, PillFreeKept
  <2> QED
    BY <1>3, <2>1, <2>2 DEF AddStep
<1>4. ASSUME NEW w \in Workers, ThreadStep(w) PROVE PillFree'
  <2>1. CASE Get(w) /\ ~queueDone /\ queue # <<>>
    <3>1. /\ queue' = Tail(queue)
          /\ held' = [held EXCEPT ![w] = Head(queue)]
          /\ addArg' = addArg
      BY <2>1 DEF Get
    <3>2. InQueue(Head(queue)) /\ \A x : InQueue(x)' => InQueue(x)
      BY <1>1, <2>1, <3>1, Taken
    <3>3. \A v \in Workers : held'[v] = held[v] \/ held'[v] = Head(queue)
      BY <1>1, <3>1
    <3> QED
      BY <3>1, <3>2, <3>3 DEF PillFree
  <2>2. CASE ~(Get(w) /\ ~queueDone /\ queue # <<>>)
    <3>1. /\ queue' = queue /\ addArg' = addArg
          /\ held' = held \/ held' = [held EXCEPT ![w] = None]
      BY <1>4, <2>2 DEF ThreadStep, Loop, Get, Got, HandleRequest, Run, Complete,
                        WorkerUnchanged, addVars
    <3>2. \A v \in Workers : held'[v] = held[v] \/ held'[v] = None
      BY <1>1, <3>1
    <3> QED
      BY <3>1, <3>2, PillFreeKept
  <2> QED
    BY <2>1, <2>2
<1>5. ASSUME OwnerCall \/ OwnerStep \/ UNCHANGED taskVars PROVE PillFree'
  <2>1. queue' = queue /\ addArg' = addArg /\ held' = held
    BY <1>5 DEF OwnerCall, OwnerStep, SetNumThreads, CancelAll, SetStamp, Destroy,
                AddThread, StopThread, DestroyFlags, DestroyCancel, DestroyJoin, DestroyEnd,
                OwnerUnchanged, taskVars, addVars, threadVars
  <2> QED
    BY <2>1, PillFreeKept
<1> QED
  BY <1>2, <1>3, <1>4, <1>5 DEF ClientsNext

LEMMA PillFreeStarts == ServiceInit => PillFree
<1> SUFFICES ASSUME ServiceInit PROVE PillFree
  OBVIOUS
<1>1. 1 .. Len(queue) = {}
  BY DEF ServiceInit
<1> QED
  BY <1>1, Names DEF ServiceInit, PillFree, InQueue

LEMMA AlwaysPillFree == ClientsSpec => [](ServiceInv /\ PillFree)
  BY AlwaysServiceInv, PillFreeStarts, ClientsKeepPillFree, PTL DEF ClientsSpec

-----------------------------------------------------------------------------
(* The number of threads                                                   *)

\* The active threads, and those adjustThreadCount has still to add or to
\* stop, are as many as the service was told; the destructor comes later.
PoolInv ==
    /\ life = "live" => Cardinality(Active(threads)) + adjust = numThreads
    /\ adjust # 0 => life = "live"

LEMMA ActiveIsFinite ==
    ServiceInv => IsFiniteSet(Active(threads)) /\ Cardinality(Active(threads)) \in Nat
<1> SUFFICES ASSUME ServiceInv
             PROVE  IsFiniteSet(Active(threads)) /\ Cardinality(Active(threads)) \in Nat
  OBVIOUS
<1>1. IsFiniteSet(Workers)
  BY TaskAssumptions, FS_Interval DEF Workers
<1>2. Active(threads) \subseteq Workers
  BY DEF ServiceInv, Typed, ServiceTypeOK, Active
<1> QED
  BY <1>1, <1>2, FS_Subset, FS_CardinalityType

LEMMA ClientsKeepPool ==
    ServiceInv /\ PillFree /\ PoolInv /\ [ClientsNext]_taskVars => PoolInv'
<1> SUFFICES ASSUME ServiceInv, PillFree, PoolInv, [ClientsNext]_taskVars PROVE PoolInv'
  OBVIOUS
<1>1. /\ Typed /\ ThreadsKnown
      /\ threads \subseteq Workers
      /\ stop \in [Workers -> BOOLEAN]
      /\ adjust \in Int
  BY TaskAssumptions DEF ServiceInv, Typed, ServiceTypeOK
<1>2. /\ IsFiniteSet(Active(threads))
      /\ Cardinality(Active(threads)) \in Nat
  BY ActiveIsFinite
<1>3. ASSUME UNCHANGED <<stop, threads, numThreads, adjust, life>> PROVE PoolInv'
  BY <1>3 DEF PoolInv, Active
<1>4. ASSUME UNCHANGED stop, UNCHANGED life, life = "live",
             NEW n \in Nat, AdjustThreadCount(n)
      PROVE  PoolInv'
  <2>1. /\ threads' = StillRunning
        /\ numThreads' = n
        /\ adjust' = n - Cardinality(Active(StillRunning))
    BY <1>4 DEF AdjustThreadCount
  <2>2. Active(threads)' = Active(StillRunning)
    BY <1>4, <2>1 DEF Active
  <2>3. Cardinality(Active(StillRunning)) \in Nat
    <3>1. Active(StillRunning) \subseteq Active(threads)
      BY DEF Active, StillRunning
    <3> QED
      BY <1>2, <3>1, FS_Subset, FS_CardinalityType
  <2>4. Cardinality(Active(threads))' = Cardinality(Active(StillRunning))
    BY <2>2
  <2> QED
    BY <1>4, <2>1, <2>3, <2>4 DEF PoolInv
<1>5. CASE OwnerCall
  <2>1. CASE \E n \in PoolSizes : SetNumThreads(n)
    <3>1. PICK n \in Nat : SetNumThreads(n)
      BY <2>1, ClientAssumptions
    <3>2. PICK m \in Nat : AdjustThreadCount(m)
      BY <3>1 DEF SetNumThreads
    <3>3. UNCHANGED stop /\ UNCHANGED life /\ life = "live"
      BY <3>1 DEF SetNumThreads, OwnerIdle
    <3> QED
      BY <1>4, <3>2, <3>3
  <2>2. CASE CancelAll
    <3>1. AdjustThreadCount(0) /\ UNCHANGED stop /\ UNCHANGED life /\ life = "live"
      BY <2>2 DEF CancelAll, OwnerIdle
    <3> QED
      BY <1>4, <3>1
  <2>3. CASE SetStamp
    <3>1. /\ threads' = StillRunning
          /\ UNCHANGED <<tpc, stop, numThreads, adjust, life>>
      BY <2>3 DEF SetStamp
    <3>2. \A w \in threads : ~stop[w] => Running(w)
      BY <1>1 DEF ThreadsKnown, PillFree, Running
    <3>3. Active(threads)' = Active(threads)
      BY <3>1, <3>2 DEF Active, StillRunning
    <3> QED
      BY <3>1, <3>3 DEF PoolInv
  <2>4. CASE Destroy
    BY <2>4 DEF Destroy, OwnerIdle, PoolInv
  <2> QED
    BY <1>5, <2>1, <2>2, <2>3, <2>4 DEF OwnerCall
<1>6. CASE OwnerStep
  <2>1. ASSUME NEW w \in Workers, AddThread(w) PROVE PoolInv'
    <3>1. /\ adjust > 0 /\ adjust' = adjust - 1
          /\ tpc[w] = "unborn"
          /\ threads' = threads \union {w}
          /\ UNCHANGED <<stop, numThreads, life>>
      BY <2>1 DEF AddThread
    <3>2. ~stop[w] /\ w \notin threads /\ life = "live"
      BY <1>1, <3>1 DEF ThreadsKnown, PoolInv
    <3>3. Active(threads)' = Active(threads) \union {w} /\ w \notin Active(threads)
      BY <3>1, <3>2 DEF Active
    <3>4. Cardinality(Active(threads) \union {w}) = Cardinality(Active(threads)) + 1
      BY <1>2, <3>3, FS_AddElement
    <3>5. Cardinality(Active(threads))' = Cardinality(Active(threads)) + 1
      BY <3>3, <3>4
    <3> QED
      BY <1>1, <1>2, <3>1, <3>2, <3>5 DEF PoolInv
  <2>2. CASE StopThread
    <3>1. PICK w \in Workers : First(w, Active(threads)) /\ stop' = [stop EXCEPT ![w] = TRUE]
      BY <2>2 DEF StopThread
    <3>2. /\ adjust < 0 /\ adjust' = adjust + 1
          /\ UNCHANGED <<threads, numThreads, life>>
      BY <2>2 DEF StopThread
    <3>3. w \in Active(threads) /\ life = "live"
      BY <1>1, <3>1, <3>2 DEF First, PoolInv
    <3>4. Active(threads)' = Active(threads) \ {w}
      BY <1>1, <3>1, <3>2 DEF Active
    <3>5. Cardinality(Active(threads) \ {w}) = Cardinality(Active(threads)) - 1
      BY <1>2, <3>3, FS_RemoveElement
    <3>6. Cardinality(Active(threads))' = Cardinality(Active(threads)) - 1
      BY <3>4, <3>5
    <3> QED
      BY <1>1, <1>2, <3>2, <3>3, <3>6 DEF PoolInv
  <2>3. CASE DestroyFlags \/ DestroyCancel \/ DestroyJoin \/ DestroyEnd
    <3>1. life # "live" /\ life' # "live" /\ adjust' = adjust
      BY <2>3 DEF DestroyFlags, DestroyCancel, DestroyJoin, DestroyEnd
    <3> QED
      BY <3>1 DEF PoolInv
  <2> QED
    BY <1>6, <2>1, <2>2, <2>3 DEF OwnerStep
<1>7. ASSUME NEW c \in Clients, ClientStep(c) PROVE PoolInv'
  BY <1>3, <1>7 DEF ClientStep, AddRequest, RecycleRequest, CancelRequest, ClientUnchanged,
                    threadVars, serviceVars
<1>8. ASSUME NEW a \in Adders, AddStep(a) PROVE PoolInv'
  BY <1>3, <1>8 DEF AddStep, AddLock, AddWait, AddWakeUp, AddInsert, threadVars, serviceVars
<1>9. ASSUME NEW w \in Workers, ThreadStep(w) PROVE PoolInv'
  BY <1>3, <1>9 DEF ThreadStep, Loop, Get, Got, HandleRequest, Run, Complete,
                    WorkerUnchanged, serviceVars
<1>10. CASE UNCHANGED taskVars
  BY <1>3, <1>10 DEF taskVars, threadVars, serviceVars
<1> QED
  BY <1>5, <1>6, <1>7, <1>8, <1>9, <1>10 DEF ClientsNext

LEMMA PoolStarts == ServiceInit => PoolInv
<1> SUFFICES ASSUME ServiceInit PROVE PoolInv
  OBVIOUS
<1>1. FirstThreads \in Nat /\ 1 .. FirstThreads \subseteq Workers
  BY TaskAssumptions DEF Workers
<1>2. Active(threads) = 1 .. FirstThreads
  BY <1>1 DEF ServiceInit, Active
<1>3. Cardinality(1 .. FirstThreads) = FirstThreads
  BY <1>1, FS_Interval
<1> QED
  BY <1>1, <1>2, <1>3 DEF ServiceInit, PoolInv

\* Growing, shrinking, canceling and clearing out in any order leaves as many
\* active threads as the service was last told, however many have left since.
THEOREM PoolMatchesCountHolds == ClientsSpec => []PoolMatchesCount
<1>1. ServiceInv /\ PoolInv => PoolMatchesCount
  <2> SUFFICES ASSUME ServiceInv, PoolInv, life = "live", adjust = 0
               PROVE  Cardinality(Active(threads)) = numThreads
    BY DEF PoolMatchesCount
  <2> QED
    BY ActiveIsFinite DEF PoolInv
<1>2. ClientsSpec => []PoolInv
  BY AlwaysPillFree, PoolStarts, ClientsKeepPool, PTL DEF ClientsSpec
<1> QED
  BY <1>1, <1>2, AlwaysServiceInv, PTL

-----------------------------------------------------------------------------
(* The bound of the queue                                                  *)

\* An adder that will insert without another look at the size has room.
RoomKept ==
    maxSize > 0 => /\ Len(queue) <= maxSize
                   /\ \A c \in Clients :
                         addPc[c] \in {"insert", "woken"} => Len(queue) < maxSize

\* The limit is given with the queue.
LEMMA LimitStays == [ClientsNext]_taskVars => maxSize' = maxSize
  BY DEF ClientsNext, ClientStep, AddRequest, RecycleRequest, CancelRequest, ClientUnchanged,
         AddStep, AddLock, AddWait, AddWakeUp, AddInsert,
         ThreadStep, Loop, Get, Got, HandleRequest, Run, Complete, WorkerUnchanged,
         OwnerCall, OwnerStep, SetNumThreads, CancelAll, SetStamp, Destroy,
         AddThread, StopThread, DestroyFlags, DestroyCancel, DestroyJoin, DestroyEnd,
         OwnerUnchanged, serviceVars, taskVars

\* With two producers this is not so: both may have seen the same room, one in
\* its look and one in its sleep.
LEMMA OneClientKeepsRoom ==
    ASSUME NEW producer, Clients = {producer}
    PROVE  ServiceInv /\ PillFree /\ RoomKept /\ [ClientsNext]_taskVars => RoomKept'
<1> SUFFICES ASSUME ServiceInv, PillFree, RoomKept, [ClientsNext]_taskVars PROVE RoomKept'
  OBVIOUS
<1>1. /\ queue \in Seq(Requests)
      /\ Len(queue) \in Nat
      /\ addPc \in [Adders -> AddPcs]
      /\ addArg \in [Adders -> Requests \union {None}]
      /\ maxSize \in Nat
      /\ maxSize' = maxSize
  BY TaskAssumptions, LimitStays DEF ServiceInv, Typed, ServiceTypeOK
<1>2. ASSUME queue' = queue,
             \A c \in Clients : addPc'[c] \in {"insert", "woken"} => addPc'[c] = addPc[c]
      PROVE  RoomKept'
  BY <1>1, <1>2 DEF RoomKept
<1>3. ASSUME NEW c \in Clients, ClientStep(c) PROVE RoomKept'
  <2>1. /\ queue' = queue
        /\ addPc' = addPc \/ addPc' = [addPc EXCEPT ![c] = "lock"]
    BY <1>3 DEF ClientStep, AddRequest, AddBegin, RecycleRequest, CancelRequest,
                ClientUnchanged, addVars
  <2> QED
    BY <1>1, <1>2, <2>1, Names
<1>4. ASSUME NEW a \in Adders, AddStep(a) PROVE RoomKept'
  <2>0. a = producer /\ producer \in Clients /\ producer \in Adders
    <3>1. addPc[a] # "out"
      BY <1>4 DEF AddStep, AddLock, AddWait, AddWakeUp, AddInsert
    <3>2. a \notin Workers
      BY <3>1 DEF PillFree, ServiceInv, AddersKnown
    <3> QED
      BY <3>2, Names DEF Adders
  <2>1. CASE AddLock(a)
    <3>1. /\ queue' = queue
          /\ addPc' = [addPc EXCEPT ![a] =
                         IF maxSize > 0 /\ Len(queue) = maxSize THEN "full" ELSE "insert"]
      BY <2>1 DEF AddLock
    <3> QED
      BY <1>1, <2>0, <3>1 DEF RoomKept
  <2>2. CASE AddWait(a)
    BY <1>1, <1>2, <2>0, <2>2 DEF AddWait
  <2>3. CASE AddWakeUp(a)
    BY <1>1, <2>0, <2>3 DEF AddWakeUp, RoomKept
  <2>4. CASE AddInsert(a)
    <3>1. /\ addPc[a] = "insert"
          /\ queue' = InsertByPriority(queue, addArg[a])
          /\ addPc' = [addPc EXCEPT ![a] = "out"]
      BY <2>4 DEF AddInsert
    <3>2. addArg[a] \in Requests
      BY <1>1, <2>0, <3>1 DEF ServiceInv, AddersKnown
    <3>3. Len(queue') = Len(queue) + 1
      BY <1>1, <3>1, <3>2, Inserted
    <3> QED
      BY <1>1, <2>0, <3>1, <3>3 DEF RoomKept
  <2> QED
    BY <1>4, <2>1, <2>2, <2>3, <2>4 DEF AddStep
<1>5. ASSUME NEW w \in Workers, ThreadStep(w) PROVE RoomKept'
  <2>1. CASE Get(w) /\ ~queueDone /\ queue # <<>>
    <3>1. queue' = Tail(queue)
      BY <2>1 DEF Get
    <3>2. Len(queue') = Len(queue) - 1
      BY <1>1, <2>1, <3>1, Taken
    <3> QED
      BY <1>1, <3>2 DEF RoomKept
  <2>2. CASE ~(Get(w) /\ ~queueDone /\ queue # <<>>)
    <3>1. queue' = queue /\ addPc' = addPc
      BY <1>5, <2>2 DEF ThreadStep, Loop, Get, Got, HandleRequest, Run, Complete,
                        WorkerUnchanged, addVars
    <3> QED
      BY <1>2, <3>1
  <2> QED
    BY <2>1, <2>2
<1>6. ASSUME OwnerCall \/ OwnerStep \/ UNCHANGED taskVars PROVE RoomKept'
  <2>1. queue' = queue /\ addPc' = addPc
    BY <1>6 DEF OwnerCall, OwnerStep, SetNumThreads, CancelAll, SetStamp, Destroy,
                AddThread, StopThread, DestroyFlags, DestroyCancel, DestroyJoin, DestroyEnd,
                OwnerUnchanged, taskVars, addVars
  <2> QED
    BY <1>2, <2>1
<1> QED
  BY <1>3, <1>4, <1>5, <1>6 DEF ClientsNext

\* The one producer's single look at the size is enough to keep _maxSize,
\* though it does not look again after it has slept.
THEOREM BoundKeptHolds ==
    ASSUME NEW producer, Clients = {producer}
    PROVE  ClientsSpec => []BoundKept
<1>1. ServiceInit => RoomKept
  BY TaskAssumptions, Names DEF ServiceInit, RoomKept
<1>2. ServiceInv /\ PillFree /\ RoomKept /\ [ClientsNext]_taskVars => RoomKept'
  BY OneClientKeepsRoom
<1>3. RoomKept => BoundKept
  BY DEF RoomKept, BoundKept
<1> QED
  BY <1>1, <1>2, <1>3, AlwaysPillFree, PTL DEF ClientsSpec

-----------------------------------------------------------------------------
(* The order of the queue                                                  *)

QueueOrdered ==
    \A i, j \in 1 .. Len(queue) : i <= j => Priority[queue[i]] <= Priority[queue[j]]

\* In an ordered queue the requests of the same or a lower number are those
\* before the place of the new one.
LEMMA PlaceDivides ==
    ASSUME queue \in Seq(Requests), QueueOrdered, NEW r \in Requests,
           NEW i \in 1 .. Len(queue)
    PROVE  i < Place(queue, r) <=> Priority[queue[i]] <= Priority[r]
<1> DEFINE before == {m \in 1 .. Len(queue) : Priority[queue[m]] <= Priority[r]}
           n == Cardinality(before)
<1>1. /\ Len(queue) \in Nat
      /\ Priority \in [Requests -> Int]
      /\ \A m \in 1 .. Len(queue) : queue[m] \in Requests
  BY TaskAssumptions
<1>2. IsFiniteSet(before)
  <2>1. IsFiniteSet(1 .. Len(queue))
    BY <1>1, FS_Interval
  <2> QED
    BY <2>1, FS_Subset
<1>3. n \in Nat
  BY <1>2, FS_CardinalityType
<1>4. ASSUME Priority[queue[i]] <= Priority[r] PROVE i <= n
  <2>1. 1 .. i \subseteq before
    <3> SUFFICES ASSUME NEW m \in 1 .. i PROVE m \in before
      OBVIOUS
    <3>1. m \in 1 .. Len(queue) /\ m <= i
      BY <1>1
    <3>2. Priority[queue[m]] <= Priority[queue[i]]
      BY <3>1 DEF QueueOrdered
    <3>3. /\ Priority[queue[m]] \in Int /\ Priority[queue[i]] \in Int
          /\ Priority[r] \in Int
      BY <1>1, <3>1
    <3> QED
      BY <1>4, <3>1, <3>2, <3>3
  <2> HIDE DEF before
  <2>2. Cardinality(1 .. i) = i
    BY FS_Interval
  <2>3. Cardinality(1 .. i) <= Cardinality(before)
    BY <1>2, <2>1, FS_Subset
  <2> QED
    BY <2>2, <2>3
<1>5. ASSUME ~(Priority[queue[i]] <= Priority[r]) PROVE n <= i - 1
  <2>1. before \subseteq 1 .. i - 1
    <3> SUFFICES ASSUME NEW m \in 1 .. Len(queue), Priority[queue[m]] <= Priority[r]
                 PROVE  m < i
      BY <1>1
    <3>1. i <= m => Priority[queue[i]] <= Priority[queue[m]]
      BY DEF QueueOrdered
    <3>2. /\ Priority[queue[m]] \in Int /\ Priority[queue[i]] \in Int
          /\ Priority[r] \in Int
      BY <1>1
    <3> QED
      BY <1>1, <1>5, <3>1, <3>2
  <2> HIDE DEF before
  <2>2. i \in Nat \ {0} /\ i - 1 \in Int
    BY <1>1
  <2>3. /\ IsFiniteSet(1 .. i - 1)
        /\ Cardinality(1 .. i - 1) = IF 1 > i - 1 THEN 0 ELSE (i - 1) - 1 + 1
    BY <2>2, FS_Interval
  <2>4. Cardinality(1 .. i - 1) = i - 1
    BY <2>2, <2>3
  <2>5. Cardinality(before) <= Cardinality(1 .. i - 1)
    BY <2>1, <2>3, FS_Subset
  <2> QED
    BY <2>4, <2>5
<1> HIDE DEF n
<1>6. i < n + 1 <=> Priority[queue[i]] <= Priority[r]
  BY <1>1, <1>3, <1>4, <1>5
<1> QED
  BY <1>6 DEF n, Place

LEMMA InsertKeepsOrder ==
    ASSUME queue \in Seq(Requests), QueueOrdered, NEW r \in Requests,
           queue' = InsertByPriority(queue, r)
    PROVE  QueueOrdered'
<1> DEFINE k == Place(queue, r)
<1>1. /\ Len(queue) \in Nat
      /\ Len(queue') = Len(queue) + 1
      /\ k \in 1 .. Len(queue) + 1
      /\ \A j \in 1 .. Len(queue) + 1 :
            queue'[j] = IF j < k THEN queue[j] ELSE IF j = k THEN r ELSE queue[j - 1]
  <2>1. Len(queue) \in Nat
    OBVIOUS
  <2> QED
    BY <2>1, InsertShape
<1>2. \A m \in 1 .. Len(queue) : m < k <=> Priority[queue[m]] <= Priority[r]
  BY PlaceDivides
<1>3. Priority[r] \in Int /\ \A m \in 1 .. Len(queue) : Priority[queue[m]] \in Int
  BY TaskAssumptions
<1> HIDE DEF k
<1> SUFFICES ASSUME NEW i \in 1 .. Len(queue) + 1, NEW j \in 1 .. Len(queue) + 1, i < j
             PROVE  Priority[queue'[i]] <= Priority[queue'[j]]
  <2>1. ASSUME NEW m \in 1 .. Len(queue) + 1 PROVE Priority[queue'[m]] \in Int
    <3>1. CASE m < k
      BY <1>1, <1>3, <3>1
    <3>2. CASE m = k
      BY <1>1, <1>3, <3>2
    <3>3. CASE m > k
      <4>1. m - 1 \in 1 .. Len(queue) /\ queue'[m] = queue[m - 1]
        BY <1>1, <3>3
      <4> QED
        BY <1>3, <4>1
    <3> QED
      BY <1>1, <3>1, <3>2, <3>3
  <2> QED
    BY <1>1, <2>1 DEF QueueOrdered
<1>4. CASE j < k
  BY <1>1, <1>4 DEF QueueOrdered
<1>5. CASE j = k
  <2>1. i \in 1 .. Len(queue) /\ queue'[i] = queue[i] /\ queue'[j] = r
    BY <1>1, <1>5
  <2> QED
    BY <1>2, <1>5, <2>1
<1>6. CASE j > k
  <2>1. j - 1 \in 1 .. Len(queue) /\ queue'[j] = queue[j - 1]
    BY <1>1, <1>6
  <2>2. CASE i < k
    <3>1. i \in 1 .. Len(queue) /\ i <= j - 1 /\ queue'[i] = queue[i]
      BY <1>1, <2>2
    <3> QED
      BY <2>1, <3>1 DEF QueueOrdered
  <2>3. CASE i = k
    <3>1. queue'[i] = r /\ ~(j - 1 < k)
      BY <1>1, <1>6, <2>3
    <3>2. ~(Priority[queue[j - 1]] <= Priority[r])
      BY <1>2, <2>1, <3>1
    <3> QED
      BY <1>3, <2>1, <3>1, <3>2
  <2>4. CASE i > k
    <3>1. i - 1 \in 1 .. Len(queue) /\ i - 1 <= j - 1 /\ queue'[i] = queue[i - 1]
      BY <1>1, <2>4
    <3> QED
      BY <2>1, <3>1 DEF QueueOrdered
  <2> QED
    BY <1>1, <2>2, <2>3, <2>4
<1> QED
  BY <1>1, <1>4, <1>5, <1>6

LEMMA ClientsKeepOrder ==
    ServiceInv /\ QueueOrdered /\ [ClientsNext]_taskVars => QueueOrdered'
<1> SUFFICES ASSUME ServiceInv, QueueOrdered, [ClientsNext]_taskVars PROVE QueueOrdered'
  OBVIOUS
<1>1. /\ queue \in Seq(Requests)
      /\ addArg \in [Adders -> Requests \union {None}]
  BY DEF ServiceInv, Typed, ServiceTypeOK
<1>2. CASE queue' = queue
  BY <1>2 DEF QueueOrdered
<1>3. ASSUME NEW a \in Adders, AddInsert(a) PROVE QueueOrdered'
  <2>1. addPc[a] = "insert" /\ queue' = InsertByPriority(queue, addArg[a])
    BY <1>3 DEF AddInsert
  <2>2. addArg[a] \in Requests
    BY <1>1, <2>1 DEF ServiceInv, AddersKnown
  <2> QED
    BY <1>1, <2>1, <2>2, InsertKeepsOrder
<1>4. ASSUME queue # <<>>, queue' = Tail(queue) PROVE QueueOrdered'
  <2>1. /\ Len(queue) \in Nat \ {0}
        /\ Len(queue') = Len(queue) - 1
        /\ \A i \in 1 .. Len(queue) - 1 : queue'[i] = queue[i + 1]
    BY <1>1, <1>4, HeadTailProperties
  <2> SUFFICES ASSUME NEW i \in 1 .. Len(queue) - 1, NEW j \in 1 .. Len(queue) - 1, i <= j
               PROVE  Priority[queue'[i]] <= Priority[queue'[j]]
    BY <2>1 DEF QueueOrdered
  <2>2. /\ i + 1 \in 1 .. Len(queue) /\ j + 1 \in 1 .. Len(queue) /\ i + 1 <= j + 1
        /\ queue'[i] = queue[i + 1] /\ queue'[j] = queue[j + 1]
    BY <2>1
  <2> QED
    BY <2>2 DEF QueueOrdered
<1>5. \/ queue' = queue
      \/ \E a \in Adders : AddInsert(a)
      \/ queue # <<>> /\ queue' = Tail(queue)
  BY DEF ClientsNext, ClientStep, AddRequest, RecycleRequest, CancelRequest, ClientUnchanged,
         AddStep, AddLock, AddWait, AddWakeUp,
         ThreadStep, Loop, Get, Got, HandleRequest, Run, Complete, WorkerUnchanged,
         OwnerCall, OwnerStep, SetNumThreads, CancelAll, SetStamp, Destroy,
         AddThread, StopThread, DestroyFlags, DestroyCancel, DestroyJoin, DestroyEnd,
         OwnerUnchanged, taskVars
<1> QED
  BY <1>2, <1>3, <1>4, <1>5

\* A thread comes out of get() in no step but its own.
LEMMA OnlyGetTakes ==
    ASSUME ServiceInv, [ClientsNext]_taskVars, NEW w \in Workers,
           tpc[w] = "get", tpc'[w] = "got"
    PROVE  Get(w)
<1>1. tpc \in [Workers -> ThreadPcs]
  BY DEF ServiceInv, Typed, ServiceTypeOK
<1>2. ASSUME NEW pcs, SignalThread(pcs), pcs \in [Workers -> ThreadPcs], pcs[w] # "got"
      PROVE  FALSE
  BY <1>2 DEF SignalThread
<1>3. ASSUME NEW a \in Adders, AddStep(a) PROVE FALSE
  <2>1. CASE AddInsert(a)
    <3> DEFINE pcs == IF a \in Workers THEN [tpc EXCEPT ![a] = "exited"] ELSE tpc
    <3>1. SignalThread(pcs)
      BY <2>1 DEF AddInsert
    <3>2. "exited" \in ThreadPcs
      BY DEF ThreadPcs
    <3>3. pcs \in [Workers -> ThreadPcs] /\ pcs[w] # "got"
      BY <1>1, <3>2
    <3> HIDE DEF pcs
    <3> QED
      BY <1>2, <3>1, <3>3
  <2>2. CASE AddLock(a) \/ AddWait(a) \/ AddWakeUp(a)
    BY <2>2 DEF AddLock, AddWait, AddWakeUp, threadVars
  <2> QED
    BY <1>3, <2>1, <2>2 DEF AddStep
<1>4. ASSUME NEW v \in Workers, ThreadStep(v), v # w PROVE FALSE
  <2>1. CASE Get(v) /\ ~queueDone /\ queue # <<>>
    <3> DEFINE pcs == [tpc EXCEPT ![v] = "got"]
    <3>1. SignalThread(pcs)
      BY <2>1 DEF Get
    <3>2. "got" \in ThreadPcs
      BY DEF ThreadPcs
    <3>3. pcs \in [Workers -> ThreadPcs] /\ pcs[w] # "got"
      BY <1>1, <1>4, <3>2
    <3> HIDE DEF pcs
    <3> QED
      BY <1>2, <3>1, <3>3
  <2>2. CASE ~(Get(v) /\ ~queueDone /\ queue # <<>>)
    <3>1. \E pc : tpc' = [tpc EXCEPT ![v] = pc]
      BY <1>4, <2>2 DEF ThreadStep, Loop, Get, Got, HandleRequest, Run, Complete
    <3> QED
      BY <1>1, <1>4, <3>1
  <2> QED
    BY <2>1, <2>2
<1>5. ASSUME ThreadStep(w), ~Get(w) PROVE FALSE
  BY <1>5 DEF ThreadStep, Loop, Got, HandleRequest, Run, Complete
<1>6. ASSUME NEW c \in Clients, ClientStep(c) PROVE FALSE
  BY <1>6 DEF ClientStep, AddRequest, RecycleRequest, CancelRequest, ClientUnchanged, threadVars
<1>7. ASSUME OwnerCall \/ OwnerStep \/ UNCHANGED taskVars PROVE FALSE
  <2>1. ASSUME NEW v \in Workers, AddThread(v) PROVE FALSE
    BY <1>1, <2>1 DEF AddThread
  <2>2. CASE Destroy
    BY <2>2 DEF Destroy
  <2>3. CASE \/ \E n \in PoolSizes : SetNumThreads(n)
             \/ CancelAll \/ SetStamp \/ StopThread
             \/ DestroyFlags \/ DestroyCancel \/ DestroyJoin \/ DestroyEnd
             \/ UNCHANGED taskVars
    BY <2>3 DEF SetNumThreads, CancelAll, SetStamp, StopThread,
                DestroyFlags, DestroyCancel, DestroyJoin, DestroyEnd, taskVars, threadVars
  <2> QED
    BY <1>7, <2>1, <2>2, <2>3 DEF OwnerCall, OwnerStep
<1> QED
  BY <1>3, <1>4, <1>5, <1>6, <1>7 DEF ClientsNext

\* However requests come in, none of a lower number is left behind by a thread
\* that takes one: the queue is in the order of its numbers all the time.
THEOREM LowestNumberFirstHolds == ClientsSpec => LowestNumberFirst
<1> DEFINE Lowest ==
        \A w \in Workers :
            tpc[w] = "get" /\ tpc'[w] = "got" /\ held'[w] # None =>
                \A r \in Requests : InQueue(r) => Priority[held'[w]] <= Priority[r]
<1>1. ServiceInit => QueueOrdered
  <2> SUFFICES ASSUME ServiceInit PROVE QueueOrdered
    OBVIOUS
  <2>1. 1 .. Len(queue) = {}
    BY DEF ServiceInit
  <2> QED
    BY <2>1 DEF QueueOrdered
<1>2. ServiceInv /\ QueueOrdered /\ [ClientsNext]_taskVars => Lowest
  <2> SUFFICES ASSUME ServiceInv, QueueOrdered, [ClientsNext]_taskVars,
                      NEW w \in Workers,
                      tpc[w] = "get", tpc'[w] = "got", held'[w] # None,
                      NEW r \in Requests, InQueue(r)
               PROVE  Priority[held'[w]] <= Priority[r]
    OBVIOUS
  <2>1. Get(w) /\ held \in [Workers -> Requests \union {None}] /\ queue \in Seq(Requests)
    BY OnlyGetTakes DEF ServiceInv, Typed, ServiceTypeOK
  <2>2. PICK i \in 1 .. Len(queue) : queue[i] = r
    BY DEF InQueue
  <2>3. queue # <<>>
    BY <2>2
  <2>4. ~queueDone
    BY <2>1, <2>3 DEF Get
  <2>5. held'[w] = Head(queue)
    BY <2>1, <2>3, <2>4 DEF Get
  <2>6. Head(queue) = queue[1] /\ 1 \in 1 .. Len(queue) /\ 1 <= i
    BY <2>1, <2>3, HeadTailProperties
  <2> QED
    BY <2>2, <2>5, <2>6 DEF QueueOrdered
<1> HIDE DEF Lowest
<1>3. ServiceInv /\ QueueOrdered /\ [ClientsNext]_taskVars => [Lowest]_taskVars
  BY <1>2
<1>4. ClientsSpec => []QueueOrdered
  BY <1>1, AlwaysServiceInv, ClientsKeepOrder, PTL DEF ClientsSpec
<1>5. ClientsSpec => [][Lowest]_taskVars
  BY <1>3, <1>4, AlwaysServiceInv, PTL DEF ClientsSpec
<1> QED
  BY <1>5 DEF LowestNumberFirst, Lowest

-----------------------------------------------------------------------------
(* TaskPool                                                                *)

LEMMA StatusMoves ==
    ASSUME NEW r \in Requests, NEW from, NEW to,
           Status(r) = from, Status(r)' = to,
           \A x \in Requests : x # r => Status(x)' = Status(x)
    PROVE  Pool!Move(r, from, to)
  BY DEF Pool!Move

LEMMA StatusStays ==
    ASSUME UNCHANGED <<state>>, \A r \in Requests : Dropped(r)' <=> Dropped(r)
    PROVE  UNCHANGED [r \in Requests |-> Status(r)]
  BY DEF Status

\* Without pills a thread leaves only when it was told to, and from then on
\* nothing changes what it has dropped.
LEMMA DroppedStays ==
    ASSUME ServiceInv, PillFree,
           \A w \in Workers :
              \/ tpc[w] # "exited" /\ tpc'[w] # "exited"
              \/ tpc[w] # "exited" /\ held'[w] = None
              \/ /\ tpc[w] = "exited" /\ tpc'[w] = "exited"
                 /\ held'[w] = held[w]
                 /\ stop[w] => stop'[w]
    PROVE  \A r \in Requests : Dropped(r)' <=> Dropped(r)
<1>1. \A w \in Workers : tpc[w] = "exited" => stop[w]
  BY DEF ServiceInv, ThreadsKnown, PillFree
<1>2. ASSUME NEW r \in Requests, NEW w \in Workers PROVE DroppedBy(w, r)' <=> DroppedBy(w, r)
  <2>1. r # None
    BY Names
  <2> QED
    BY <1>1, <2>1 DEF DroppedBy
<1> QED
  BY <1>2 DEF Dropped

\* A request that a thread has in hand has not been dropped.
LEMMA InHandIsNotDropped ==
    ASSUME ServiceInv, PillFree, NEW w \in Workers, TakenBy(w, held[w]), held[w] # None
    PROVE  /\ held[w] \in Jobs
           /\ held[w] \in Requests
           /\ Known(held[w])
           /\ ~Dropped(held[w])
<1>1. held[w] \in Requests
  BY DEF ServiceInv, Typed, ServiceTypeOK
<1>2. held[w] \in Jobs
  BY <1>1 DEF PillFree, Jobs
<1>3. Known(held[w])
  BY <1>2 DEF ServiceInv
<1>4. ASSUME NEW v \in Workers, DroppedBy(v, held[w]) PROVE FALSE
  <2>1. v = w
    BY <1>3, <1>4 DEF Known, OnePlace, Holds
  <2> QED
    BY <1>4, <2>1 DEF TakenBy, DroppedBy
<1> QED
  BY <1>1, <1>2, <1>3, <1>4 DEF Dropped

PoolStatus == [r \in Requests |-> Status(r)]

\* A step that neither changes a state nor drops a request is none of the pool.
LEMMA PoolStutters ==
    ASSUME UNCHANGED state, \A r \in Requests : Dropped(r)' <=> Dropped(r)
    PROVE  UNCHANGED PoolStatus
  BY StatusStays DEF PoolStatus

\* One that moves one request is the pool's.
LEMMA PoolMoves ==
    ASSUME NEW r \in Requests, NEW from, NEW to,
           Status(r) = from, Status(r)' = to,
           state' \in [Requests -> States],
           \A x \in Requests : x # r => state'[x] = state[x] /\ (Dropped(x)' <=> Dropped(x)),
           <<from, to>> \in {<<"idle", "submitted">>, <<"submitted", "started">>,
                             <<"started", "done">>, <<"submitted", "done">>,
                             <<"done", "idle">>, <<"submitted", "dropped">>}
    PROVE  Pool!Next
<1>1. \A x \in Requests : x # r => Status(x)' = Status(x)
  BY DEF Status
<1>2. Pool!Move(r, from, to)
  BY <1>1, StatusMoves
<1> QED
  BY <1>2 DEF Pool!Next, Pool!Submit, Pool!Start, Pool!Finish, Pool!Skip, Pool!Recycle,
              Pool!Drop

LEMMA ClientStepInPool ==
    ASSUME ServiceInv, PillFree, ServiceInv', NEW c \in Clients, ClientStep(c)
    PROVE  Pool!Next \/ UNCHANGED PoolStatus
<1>1. PICK r \in Jobs : AddRequest(c, r) \/ RecycleRequest(c, r) \/ CancelRequest(c, r)
  BY DEF ClientStep, Jobs
<1>2. UNCHANGED <<tpc, held, stop>>
  BY <1>1 DEF AddRequest, RecycleRequest, CancelRequest, ClientUnchanged, threadVars
<1>3. \A x \in Requests : Dropped(x)' <=> Dropped(x)
  BY <1>2 DEF Dropped, DroppedBy
<1>4. /\ state \in [Requests -> States] /\ state' \in [Requests -> States]
      /\ r \in Requests
  BY Names DEF ServiceInv, Typed, ServiceTypeOK
<1>5. state[r] \notin {"PENDING", "IN_PROGRESS"} => ~Dropped(r)
  BY Nowhere DEF Dropped, Holds
<1>6. CASE AddRequest(c, r)
  <2>1. state[r] = "IDLE" /\ state' = [state EXCEPT ![r] = "PENDING"]
    BY <1>6 DEF AddRequest, AddBegin
  <2>2. Status(r) = "idle" /\ Status(r)' = "submitted"
    BY <1>3, <1>4, <1>5, <2>1 DEF Status
  <2> QED
    BY <1>3, <1>4, <2>1, <2>2, PoolMoves
<1>7. CASE RecycleRequest(c, r)
  <2>1. state[r] = "COMPLETED" /\ state' = [state EXCEPT ![r] = "IDLE"]
    BY <1>7 DEF RecycleRequest
  <2>2. Status(r) = "done" /\ Status(r)' = "idle"
    BY <1>3, <1>4, <1>5, <2>1 DEF Status
  <2> QED
    BY <1>3, <1>4, <2>1, <2>2, PoolMoves
<1>8. CASE CancelRequest(c, r)
  BY <1>3, <1>8, PoolStutters DEF CancelRequest
<1> QED
  BY <1>1, <1>6, <1>7, <1>8

LEMMA AddStepInPool ==
    ASSUME ServiceInv, PillFree, NEW a \in Adders, AddStep(a)
    PROVE  UNCHANGED PoolStatus
<1>1. UNCHANGED <<state, held, stop>>
  BY DEF AddStep, AddLock, AddWait, AddWakeUp, AddInsert, requestVars, threadVars
<1>2. \A w \in Workers : tpc'[w] = tpc[w] \/ (tpc[w] = "wait" /\ tpc'[w] = "get")
  <2>1. CASE AddInsert(a)
    <3>1. a \notin Workers
      BY <2>1 DEF AddInsert, PillFree, ServiceInv, AddersKnown
    <3>2. SignalThread(tpc)
      BY <2>1, <3>1 DEF AddInsert
    <3>3. tpc \in [Workers -> ThreadPcs] /\ \A w \in Waiting : tpc[w] = "wait"
      BY DEF ServiceInv, Typed, ServiceTypeOK, Waiting
    <3> QED
      BY <3>2, <3>3, ThreadSignalled
  <2>2. CASE AddLock(a) \/ AddWait(a) \/ AddWakeUp(a)
    BY <2>2 DEF AddLock, AddWait, AddWakeUp, threadVars
  <2> QED
    BY <2>1, <2>2 DEF AddStep
<1>3. \A r \in Requests : Dropped(r)' <=> Dropped(r)
  BY <1>1, <1>2, DroppedStays
<1> QED
  BY <1>1, <1>3, PoolStutters

LEMMA OwnerInPool ==
    ASSUME ServiceInv, PillFree, OwnerCall \/ OwnerStep \/ UNCHANGED taskVars
    PROVE  UNCHANGED PoolStatus
<1>1. ServiceTypeOK
  BY DEF ServiceInv, Typed
<1>2. UNCHANGED <<state, held>>
  BY DEF OwnerCall, OwnerStep, SetNumThreads, CancelAll, SetStamp, Destroy,
         AddThread, StopThread, DestroyFlags, DestroyCancel, DestroyJoin, DestroyEnd,
         OwnerUnchanged, taskVars, requestVars, threadVars
<1>3. \A w \in Workers : /\ tpc'[w] = tpc[w] \/ {tpc[w], tpc'[w]} \subseteq {"unborn", "loop", "wait", "get"}
                         /\ stop[w] => stop'[w]
  <2>1. ASSUME NEW w \in Workers, AddThread(w)
        PROVE  stop' = stop /\ tpc[w] = "unborn" /\ tpc' = [tpc EXCEPT ![w] = "loop"]
    BY <2>1 DEF AddThread
  <2>2. CASE StopThread
    <3>1. tpc' = tpc /\ \E w \in Workers : stop' = [stop EXCEPT ![w] = TRUE]
      BY <2>2 DEF StopThread
    <3> QED
      BY <1>1, <3>1 DEF ServiceTypeOK
  <2>3. CASE DestroyFlags
    BY <2>3 DEF DestroyFlags
  <2>4. CASE Destroy
    BY <2>4 DEF Destroy
  <2>5. CASE \/ \E n \in PoolSizes : SetNumThreads(n)
             \/ CancelAll \/ SetStamp \/ DestroyCancel \/ DestroyJoin \/ DestroyEnd
             \/ UNCHANGED taskVars
    <3>1. tpc' = tpc /\ stop' = stop
      BY <2>5 DEF SetNumThreads, CancelAll, SetStamp, DestroyCancel, DestroyJoin, DestroyEnd,
                  taskVars, threadVars
    <3> QED
      BY <3>1
  <2>6. CASE \E w \in Workers : AddThread(w)
    BY <1>1, <2>1, <2>6 DEF ServiceTypeOK
  <2> QED
    BY <2>2, <2>3, <2>4, <2>5, <2>6 DEF OwnerCall, OwnerStep
<1>4. \A r \in Requests : Dropped(r)' <=> Dropped(r)
  BY <1>2, <1>3, DroppedStays
<1> QED
  BY <1>2, <1>4, PoolStutters

LEMMA ThreadStepInPool ==
    ASSUME ServiceInv, PillFree, ServiceInv', NEW w \in Workers, ThreadStep(w)
    PROVE  Pool!Next \/ UNCHANGED PoolStatus
<1>1. /\ tpc \in [Workers -> ThreadPcs]
      /\ held \in [Workers -> Requests \union {None}]
      /\ state \in [Requests -> States] /\ state' \in [Requests -> States]
  BY DEF ServiceInv, Typed, ServiceTypeOK
<1>2. CASE Loop(w)
  <2>1. /\ UNCHANGED <<state, stop>>
        /\ tpc[w] = "loop"
        /\ \E pc : tpc' = [tpc EXCEPT ![w] = pc]
        /\ held' = [held EXCEPT ![w] = None]
    BY <1>2 DEF Loop, requestVars, WorkerUnchanged
  <2>2. \A v \in Workers : v # w => tpc'[v] = tpc[v] /\ held'[v] = held[v]
    BY <1>1, <2>1
  <2>3. held'[w] = None
    BY <1>1, <2>1
  <2>4. \A r \in Requests : Dropped(r)' <=> Dropped(r)
    BY <2>1, <2>2, <2>3, DroppedStays
  <2> QED
    BY <2>1, <2>4, PoolStutters
<1>3. CASE Get(w)
  <2>1. UNCHANGED <<state, stop>> /\ tpc[w] = "get"
    BY <1>3 DEF Get, requestVars
  <2>2. \A v \in Workers :
           /\ v # w => held'[v] = held[v]
           /\ v # w => tpc'[v] = tpc[v] \/ (tpc[v] = "wait" /\ tpc'[v] = "get")
           /\ v = w => tpc'[v] \in {"got", "wait"}
    <3>1. CASE queueDone \/ queue = <<>>
      <4>1. /\ \E pc \in {"got", "wait"} : tpc' = [tpc EXCEPT ![w] = pc]
            /\ held' = held \/ held' = [held EXCEPT ![w] = None]
        BY <1>3, <3>1 DEF Get
      <4> QED
        BY <1>1, <4>1
    <3>2. CASE ~queueDone /\ queue # <<>>
      <4> DEFINE pcs == [tpc EXCEPT ![w] = "got"]
      <4>1. held' = [held EXCEPT ![w] = Head(queue)] /\ SignalThread(pcs)
        BY <1>3, <3>2 DEF Get
      <4>2. "got" \in ThreadPcs
        BY DEF ThreadPcs
      <4>3. /\ pcs \in [Workers -> ThreadPcs]
            /\ \A v \in Workers : pcs[v] = IF v = w THEN "got" ELSE tpc[v]
        BY <1>1, <4>2
      <4> HIDE DEF pcs
      <4>4. \A v \in Waiting : pcs[v] = "wait"
        BY <2>1, <4>3 DEF Waiting
      <4>5. \A v \in Workers : tpc'[v] = pcs[v] \/ (pcs[v] = "wait" /\ tpc'[v] = "get")
        BY <4>1, <4>3, <4>4, ThreadSignalled
      <4> QED
        BY <1>1, <4>1, <4>3, <4>5
    <3> QED
      BY <3>1, <3>2
  <2>3. \A r \in Requests : Dropped(r)' <=> Dropped(r)
    BY <2>1, <2>2, DroppedStays
  <2> QED
    BY <2>1, <2>3, PoolStutters
<1>4. CASE Got(w)
  <2> DEFINE r == held[w]
  <2>1. /\ UNCHANGED <<state, held, stop>>
        /\ tpc[w] = "got"
        /\ tpc' = [tpc EXCEPT ![w] = IF stop[w] THEN "exited"
                                     ELSE IF r = None THEN "loop" ELSE "handle"]
    BY <1>4 DEF Got, requestVars, WorkerUnchanged
  <2>2. \A v \in Workers : v # w => tpc'[v] = tpc[v]
    BY <1>1, <2>1
  <2>3. CASE ~stop[w] \/ r = None
    <3>1. tpc'[w] # "exited" \/ held'[w] = None
      BY <1>1, <2>1, <2>3
    <3>2. \A x \in Requests : Dropped(x)' <=> Dropped(x)
      BY <2>1, <2>2, <3>1, DroppedStays
    <3> QED
      BY <2>1, <3>2, PoolStutters
  <2>4. CASE stop[w] /\ r # None
    <3>1. tpc'[w] = "exited"
      BY <1>1, <2>1, <2>4
    <3>2. r \in Requests /\ Known(r) /\ ~Dropped(r) /\ state[r] = "PENDING"
      <4>1. TakenBy(w, r)
        BY <2>1 DEF TakenBy
      <4>2. r \in Requests /\ Known(r) /\ ~Dropped(r)
        BY <2>4, <4>1, InHandIsNotDropped
      <4> QED
        BY <2>1, <4>1, <4>2 DEF Known, StateKnown, Holds
    <3>3. \A x \in Requests : x # r => (Dropped(x)' <=> Dropped(x))
      BY <2>1, <2>2 DEF Dropped, DroppedBy
    <3> HIDE DEF r
    <3>4. PICK x \in Requests : x = r
      BY <3>2
    <3>5. Dropped(x)'
      BY <2>1, <2>4, <3>1, <3>4 DEF Dropped, DroppedBy, r
    <3>6. Status(x) = "submitted" /\ Status(x)' = "dropped"
      BY <3>2, <3>4, <3>5 DEF Status
    <3> QED
      BY <1>1, <2>1, <3>3, <3>4, <3>6, PoolMoves
  <2> QED
    BY <2>3, <2>4
<1>5. ASSUME NEW pc \in {"loop", "complete", "run"}, tpc' = [tpc EXCEPT ![w] = pc],
             tpc[w] # "exited", UNCHANGED <<held, stop>>
      PROVE  \A r \in Requests : Dropped(r)' <=> Dropped(r)
  <2>1. \A v \in Workers : tpc'[v] = IF v = w THEN pc ELSE tpc[v]
    BY <1>1, <1>5
  <2> QED
    BY <1>5, <2>1, DroppedStays
<1>6. ASSUME tpc[w] \in {"handle", "run", "complete"}
      PROVE  \E r \in Requests : /\ r = held[w]
                                 /\ Known(r) /\ ~Dropped(r) /\ Holds(w, r) /\ r \notin Pills
  <2>1. held[w] # None /\ TakenBy(w, held[w])
    BY <1>6 DEF ServiceInv, ThreadsKnown, TakenBy
  <2> QED
    BY <2>1, InHandIsNotDropped DEF Jobs, Holds
<1>7. CASE HandleRequest(w)
  <2>1. tpc[w] = "handle" /\ UNCHANGED <<held, stop>>
    BY <1>7 DEF HandleRequest, WorkerUnchanged
  <2>2. PICK r \in Requests :
           r = held[w] /\ Known(r) /\ ~Dropped(r) /\ Holds(w, r) /\ r \notin Pills
    BY <1>6, <2>1
  <2>3. state[r] = "PENDING"
    BY <2>1, <2>2 DEF Known, StateKnown
  <2>4. \/ state' = state /\ tpc' = [tpc EXCEPT ![w] = "complete"]
        \/ /\ state' = [state EXCEPT ![r] = "IN_PROGRESS"]
           /\ tpc' = [tpc EXCEPT ![w] = "run"]
    BY <1>7, <2>2, <2>3 DEF HandleRequest
  <2>5. \A x \in Requests : Dropped(x)' <=> Dropped(x)
    BY <1>5, <2>1, <2>4
  <2>6. CASE state' = state
    BY <2>5, <2>6, PoolStutters
  <2>7. CASE state' = [state EXCEPT ![r] = "IN_PROGRESS"]
    <3>1. Status(r) = "submitted" /\ Status(r)' = "started"
      BY <1>1, <2>2, <2>3, <2>5, <2>7 DEF Status
    <3> QED
      BY <1>1, <2>5, <2>7, <3>1, PoolMoves
  <2> QED
    BY <2>4, <2>6, <2>7
<1>8. CASE Run(w)
  <2>1. /\ tpc[w] = "run" /\ tpc' = [tpc EXCEPT ![w] = "complete"]
        /\ UNCHANGED <<state, held, stop>>
    BY <1>8 DEF Run, WorkerUnchanged
  <2>2. \A x \in Requests : Dropped(x)' <=> Dropped(x)
    BY <1>5, <2>1
  <2> QED
    BY <2>1, <2>2, PoolStutters
<1>9. CASE Complete(w)
  <2>1. /\ tpc[w] = "complete" /\ tpc' = [tpc EXCEPT ![w] = "loop"]
        /\ UNCHANGED <<held, stop>>
        /\ state' = [state EXCEPT ![held[w]] = "COMPLETED"]
    BY <1>9 DEF Complete, WorkerUnchanged
  <2>2. PICK r \in Requests :
           r = held[w] /\ Known(r) /\ ~Dropped(r) /\ Holds(w, r) /\ r \notin Pills
    BY <1>6, <2>1
  <2>3. state[r] \in {"PENDING", "IN_PROGRESS"}
    BY <2>1, <2>2 DEF Known, StateKnown
  <2>4. \A x \in Requests : Dropped(x)' <=> Dropped(x)
    BY <1>5, <2>1
  <2>5. /\ state'[r] = "COMPLETED"
        /\ \A x \in Requests : x # r => state'[x] = state[x]
    BY <1>1, <2>1, <2>2
  <2>6. Status(r) \in {"submitted", "started"} /\ Status(r)' = "done"
    BY <2>2, <2>3, <2>4, <2>5 DEF Status
  <2> QED
    BY <1>1, <2>4, <2>5, <2>6, PoolMoves
<1> QED
  BY <1>2, <1>3, <1>4, <1>7, <1>8, <1>9 DEF ThreadStep

\* The service is the pool its clients rely on: each request goes round from
\* idle to done one step at a time, and is dropped, while a thread that is told
\* to stop has it in hand, or not at all.
THEOREM ServiceImplementsPool == ClientsSpec => ImplementsPool
<1>1. ServiceInit => Pool!Init
  <2> SUFFICES ASSUME ServiceInit PROVE Pool!Init
    OBVIOUS
  <2>1. \A r \in Requests : ~Dropped(r) /\ state[r] = "IDLE"
    BY Names DEF ServiceInit, Dropped, DroppedBy
  <2> QED
    BY <2>1 DEF Pool!Init, Status
<1>2. /\ ServiceInv /\ PillFree /\ ServiceInv' /\ [ClientsNext]_taskVars
      => [Pool!Next]_([r \in Requests |-> Status(r)])
  <2> SUFFICES ASSUME ServiceInv, PillFree, ServiceInv', [ClientsNext]_taskVars
               PROVE  Pool!Next \/ UNCHANGED PoolStatus
    BY DEF PoolStatus
  <2> QED
    BY ClientStepInPool, AddStepInPool, ThreadStepInPool, OwnerInPool DEF ClientsNext
<1> QED
  BY <1>1, <1>2, AlwaysPillFree, PTL DEF ClientsSpec, ImplementsPool, Pool!Spec

=============================================================================
