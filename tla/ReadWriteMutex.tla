--------------------------- MODULE ReadWriteMutex ---------------------------
(***************************************************************************)
(* osgEarth::Threading::ReadWriteMutex (ThreadingUtils), the lock that     *)
(* guards the map model, the tile tables and the layer caches, built from  *)
(* two Events, a counter and two mutexes.                                  *)
(*                                                                         *)
(* A thread's pc names the call it is about to make or is blocked in:      *)
(*                                                                         *)
(*   rWait  rBlocked  _noWriterEvent.wait() of readLock                    *)
(*   rInc             incrementReaderCount()                               *)
(*   rCheck           _noWriterEvent.isSet()                               *)
(*   rBackOff         decrementReaderCount() of a reader that must retry   *)
(*   reading          readLock has returned                                *)
(*   wLock            the ScopedLock on _lockWriterMutex                   *)
(*   wWait  wBlocked  _noWriterEvent.wait() of writeLock                   *)
(*   wReset           _noWriterEvent.reset()                               *)
(*   wDrain wDrainBlocked   _noReadersEvent.wait()                         *)
(*   wReturn          writeLock returns, releasing _lockWriterMutex        *)
(*   writing          writeLock has returned                               *)
(*                                                                         *)
(* incrementReaderCount and decrementReaderCount are one step each: they   *)
(* hold _readerCountMutex, and only their call on the event is visible     *)
(* outside.  Event::wait does not look at _set again after its condition   *)
(* variable returns, so a broadcast takes every blocked thread straight to *)
(* the call after its wait.                                                *)
(***************************************************************************)
EXTENDS Integers, FiniteSets

CONSTANTS Threads,      \* the threads that use the lock
          NoThread      \* no owner

ASSUME ThreadsAssumption == IsFiniteSet(Threads) /\ NoThread \notin Threads

VARIABLES pc,           \* the call each thread is at
          readerCount,  \* _readerCount
          noWriterSet,  \* _noWriterEvent._set
          noReadersSet, \* _noReadersEvent._set
          writerMutex   \* the thread that holds _lockWriterMutex

vars == <<pc, readerCount, noWriterSet, noReadersSet, writerMutex>>

ReaderPcs == {"rWait", "rBlocked", "rInc", "rCheck", "rBackOff", "reading"}
WriterPcs == {"wLock", "wWait", "wBlocked", "wReset", "wDrain",
              "wDrainBlocked", "wReturn", "writing"}
Pcs == {"idle"} \union ReaderPcs \union WriterPcs

\* The constructor sets both events.
Init ==
    /\ pc = [t \in Threads |-> "idle"]
    /\ readerCount = 0
    /\ noWriterSet = TRUE
    /\ noReadersSet = TRUE
    /\ writerMutex = NoThread

-----------------------------------------------------------------------------
(* Event.  Each wait has a pc at which it is made, a pc at which it blocks *)
(* and a pc at which it has returned.                                      *)

\* Where a thread goes when the condition it is blocked on is signalled.
AfterBlock(p) ==
    IF p = "rBlocked" THEN "rInc"
    ELSE IF p = "wBlocked" THEN "wReset"
    ELSE IF p = "wDrainBlocked" THEN "wReturn"
    ELSE p

NoWriterBlocked == {"rBlocked", "wBlocked"}
NoReadersBlocked == {"wDrainBlocked"}

\* Event::wait() by t: past it when the event is set, else blocked.
EventWait(t, isSet, blocked, after) ==
    pc' = [pc EXCEPT ![t] = IF isSet THEN after ELSE blocked]

\* Thread t goes to next; if broadcast, the threads blocked at a pc of
\* "waiters" wake up as well.
MoveAndWake(t, next, broadcast, waiters) ==
    pc' = [u \in Threads |->
             IF u = t THEN next
             ELSE IF broadcast /\ pc[u] \in waiters THEN AfterBlock(pc[u])
             ELSE pc[u]]

\* Mutant: the last reader wakes nobody.
NoReadersEventSetSilent(t, next) ==
    /\ noReadersSet' = TRUE
    /\ pc' = [pc EXCEPT ![t] = next]

\* Event::set() broadcasts only when the event was not set.
NoReadersEventSet(t, next) ==
    /\ noReadersSet' = TRUE
    /\ MoveAndWake(t, next, ~noReadersSet, NoReadersBlocked)

\* Mutant: the test of _set is inverted.
NoWriterEventSetInverted(t, next) ==
    /\ noWriterSet' = TRUE
    /\ MoveAndWake(t, next, noWriterSet, NoWriterBlocked)

NoWriterEventSet(t, next) ==
    /\ noWriterSet' = TRUE
    /\ MoveAndWake(t, next, ~noWriterSet, NoWriterBlocked)

-----------------------------------------------------------------------------
(* readLock and readUnlock                                                 *)

ReadLock(t) ==
    /\ pc[t] = "idle"
    /\ pc' = [pc EXCEPT ![t] = "rWait"]
    /\ UNCHANGED <<readerCount, noWriterSet, noReadersSet, writerMutex>>

ReaderWait(t) ==
    /\ pc[t] = "rWait"
    /\ EventWait(t, noWriterSet, "rBlocked", "rInc")
    /\ UNCHANGED <<readerCount, noWriterSet, noReadersSet, writerMutex>>

IncrementReaderCount(t) ==
    /\ pc[t] = "rInc"
    /\ readerCount' = readerCount + 1
    /\ noReadersSet' = FALSE
    /\ pc' = [pc EXCEPT ![t] = "rCheck"]
    /\ UNCHANGED <<noWriterSet, writerMutex>>

\* Mutant: without the second look.
ReaderCheckNever(t) ==
    /\ pc[t] = "rCheck"
    /\ pc' = [pc EXCEPT ![t] = "reading"]
    /\ UNCHANGED <<readerCount, noWriterSet, noReadersSet, writerMutex>>

\* "double lock check, in case a writer snuck in"
ReaderCheck(t) ==
    /\ pc[t] = "rCheck"
    /\ pc' = [pc EXCEPT ![t] = IF noWriterSet THEN "reading" ELSE "rBackOff"]
    /\ UNCHANGED <<readerCount, noWriterSet, noReadersSet, writerMutex>>

\* Mutant: off by one, the last reader sets nothing.
DecrementReaderCountBelow(t, next) ==
    /\ readerCount' = readerCount - 1
    /\ IF readerCount' < 0
       THEN NoReadersEventSet(t, next)
       ELSE pc' = [pc EXCEPT ![t] = next] /\ UNCHANGED noReadersSet
    /\ UNCHANGED <<noWriterSet, writerMutex>>

\* The last reader out sets _noReadersEvent.
DecrementReaderCount(t, next) ==
    /\ readerCount' = readerCount - 1
    /\ IF readerCount' <= 0
       THEN NoReadersEventSet(t, next)
       ELSE pc' = [pc EXCEPT ![t] = next] /\ UNCHANGED noReadersSet
    /\ UNCHANGED <<noWriterSet, writerMutex>>

\* Mutant: the reader that retries stays counted.
ReaderBackOffCounted(t) ==
    /\ pc[t] = "rBackOff"
    /\ pc' = [pc EXCEPT ![t] = "rWait"]
    /\ UNCHANGED <<readerCount, noWriterSet, noReadersSet, writerMutex>>

ReaderBackOff(t) == pc[t] = "rBackOff" /\ DecrementReaderCount(t, "rWait")

ReadUnlock(t) == pc[t] = "reading" /\ DecrementReaderCount(t, "idle")

-----------------------------------------------------------------------------
(* writeLock and writeUnlock                                               *)

WriteLock(t) ==
    /\ pc[t] = "idle"
    /\ pc' = [pc EXCEPT ![t] = "wLock"]
    /\ UNCHANGED <<readerCount, noWriterSet, noReadersSet, writerMutex>>

\* Mutant: writers do not exclude each other.
LockWriterMutexFree(t) ==
    /\ pc[t] = "wLock"
    /\ writerMutex' = t
    /\ pc' = [pc EXCEPT ![t] = "wWait"]
    /\ UNCHANGED <<readerCount, noWriterSet, noReadersSet>>

\* "one at a time please"
LockWriterMutex(t) ==
    /\ pc[t] = "wLock"
    /\ writerMutex = NoThread
    /\ writerMutex' = t
    /\ pc' = [pc EXCEPT ![t] = "wWait"]
    /\ UNCHANGED <<readerCount, noWriterSet, noReadersSet>>

WriterWait(t) ==
    /\ pc[t] = "wWait"
    /\ EventWait(t, noWriterSet, "wBlocked", "wReset")
    /\ UNCHANGED <<readerCount, noWriterSet, noReadersSet, writerMutex>>

WriterReset(t) ==
    /\ pc[t] = "wReset"
    /\ noWriterSet' = FALSE
    /\ pc' = [pc EXCEPT ![t] = "wDrain"]
    /\ UNCHANGED <<readerCount, noReadersSet, writerMutex>>

\* Mutant: the writer does not wait for the readers.
WriterDrainNot(t) ==
    /\ pc[t] = "wDrain"
    /\ pc' = [pc EXCEPT ![t] = "wReturn"]
    /\ UNCHANGED <<readerCount, noWriterSet, noReadersSet, writerMutex>>

WriterDrain(t) ==
    /\ pc[t] = "wDrain"
    /\ EventWait(t, noReadersSet, "wDrainBlocked", "wReturn")
    /\ UNCHANGED <<readerCount, noWriterSet, noReadersSet, writerMutex>>

\* Mutant: _lockWriterMutex is never released.
WriterReturnKeeping(t) ==
    /\ pc[t] = "wReturn"
    /\ pc' = [pc EXCEPT ![t] = "writing"]
    /\ UNCHANGED <<readerCount, noWriterSet, noReadersSet, writerMutex>>

WriterReturn(t) ==
    /\ pc[t] = "wReturn"
    /\ pc' = [pc EXCEPT ![t] = "writing"]
    /\ writerMutex' = NoThread
    /\ UNCHANGED <<readerCount, noWriterSet, noReadersSet>>

WriteUnlock(t) ==
    /\ pc[t] = "writing"
    /\ NoWriterEventSet(t, "idle")
    /\ UNCHANGED <<readerCount, noReadersSet, writerMutex>>

-----------------------------------------------------------------------------
\* The steps of a thread that has called readLock or writeLock and of a
\* holder that lets go: the code between two calls of a client.
Step(t) ==
    \/ ReaderWait(t)
    \/ IncrementReaderCount(t)
    \/ ReaderCheck(t)
    \/ ReaderBackOff(t)
    \/ ReadUnlock(t)
    \/ LockWriterMutex(t)
    \/ WriterWait(t)
    \/ WriterReset(t)
    \/ WriterDrain(t)
    \/ WriterReturn(t)
    \/ WriteUnlock(t)

Next ==
    \E t \in Threads : \/ ReadLock(t)
                       \/ WriteLock(t)
                       \/ Step(t)

Spec == Init /\ [][Next]_vars

\* A thread inside the lock's code keeps running, and a holder lets go: the
\* holders are ScopedReadLock and ScopedWriteLock blocks.  Nothing makes an
\* idle thread ask for the lock.
Fairness == \A t \in Threads : WF_vars(Step(t))

FairSpec == Spec /\ Fairness

\* OpenThreads::Condition is a pthread condition variable, which may return
\* to its caller though nobody signalled it.  Event::wait takes that for the
\* event.  Spec leaves this out; SpuriousSpec is the code with it.
SpuriousWakeup(t) ==
    /\ pc[t] \in NoWriterBlocked \union NoReadersBlocked
    /\ pc' = [pc EXCEPT ![t] = AfterBlock(pc[t])]
    /\ UNCHANGED <<readerCount, noWriterSet, noReadersSet, writerMutex>>

SpuriousNext == Next \/ \E t \in Threads : SpuriousWakeup(t)

SpuriousSpec == Init /\ [][SpuriousNext]_vars

-----------------------------------------------------------------------------
(* Properties                                                              *)

\* Type invariant: the counter never runs below zero or above the number of
\* threads.
TypeOK ==
    /\ pc \in [Threads -> Pcs]
    /\ readerCount \in 0 .. Cardinality(Threads)
    /\ noWriterSet \in BOOLEAN
    /\ noReadersSet \in BOOLEAN
    /\ writerMutex \in Threads \union {NoThread}

Writing(t) == pc[t] \in {"wReturn", "writing"}
Reading(t) == pc[t] = "reading"

\* A thread that holds the write lock holds it alone (readLock's second look
\* at _noWriterEvent, writeLock's two waits).
MutualExclusion ==
    \A t, u \in Threads : Writing(t) /\ t # u => ~Writing(u) /\ ~Reading(u)

\* "wait for all readers to quit" (ThreadingUtils:234): when writeLock has
\* returned, or is about to, nobody reads.
WriterWaitsForReaders == \A t, u \in Threads : Writing(t) => ~Reading(u)

\* A thread is never left blocked on an event that is already set, where no
\* later set() would broadcast to it.
NoLostWakeup ==
    \A t \in Threads :
        /\ pc[t] \in NoWriterBlocked => ~noWriterSet
        /\ pc[t] \in NoReadersBlocked => ~noReadersSet

\* The threads that readerCount counts.
Registered == {t \in Threads : pc[t] \in {"rCheck", "rBackOff", "reading"}}

\* The threads inside the scope of the ScopedLock on _lockWriterMutex.
InWriterSection(t) ==
    pc[t] \in {"wWait", "wBlocked", "wReset", "wDrain", "wDrainBlocked", "wReturn"}

\* The writers that have reset _noWriterEvent and not set it again.
GateClosedBy(t) == pc[t] \in {"wDrain", "wDrainBlocked", "wReturn", "writing"}

\* How the flags, the counter and the mutex account for what the threads do.
Accounting ==
    /\ readerCount = Cardinality(Registered)
    /\ noReadersSet <=> Registered = {}
    /\ noWriterSet <=> \A t \in Threads : ~GateClosedBy(t)
    /\ \A t \in Threads : InWriterSection(t) <=> writerMutex = t

\* At most one writer has closed the gate, the next one closes it only when
\* it is open, and whoever holds the lock has seen the readers out.
GateDiscipline ==
    /\ \A t, u \in Threads : GateClosedBy(t) /\ GateClosedBy(u) => t = u
    /\ \A t \in Threads : pc[t] = "wReset" => noWriterSet
    /\ WriterWaitsForReaders

\* The inductive invariant: the counter and the flags account for the
\* threads, no wake-up is lost and the writers close the gate in turn.
LockInv == TypeOK /\ Accounting /\ NoLostWakeup /\ GateDiscipline

\* The lock this code provides: a reader is inside from its successful check
\* on, a writer closes the gate when it resets _noWriterEvent, and it holds
\* the lock when writeLock has returned.
Readers == {t \in Threads : Reading(t)}
Gate == IF \E t \in Threads : GateClosedBy(t)
        THEN CHOOSE t \in Threads : GateClosedBy(t)
        ELSE NoThread
Held == \E t \in Threads : pc[t] = "writing"

Lock == INSTANCE RWLock WITH readers <- Readers, gate <- Gate, writing <- Held

\* Every step of the code is a step of the lock or none: in particular no
\* reader enters between a writer's reset() and its writeUnlock().
ImplementsLock == Lock!Spec

\* A writer that holds _lockWriterMutex gets the lock, whatever the readers
\* do: those that come late back off.
WriterGetsLock ==
    \A t \in Threads : pc[t] = "wWait" ~> pc[t] = "writing"

\* Some thread gets the lock whenever one asks: readers and writers never
\* keep each other out for good.
LockIsGranted ==
    (\E t \in Threads : pc[t] \notin {"idle", "reading", "writing"})
        ~> (\E t \in Threads : pc[t] \in {"reading", "writing"})
=============================================================================
