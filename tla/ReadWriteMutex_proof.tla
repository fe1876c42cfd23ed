------------------------ MODULE ReadWriteMutex_proof ------------------------
(***************************************************************************)
(* The readers/writer lock is correct for every finite set of threads:     *)
(* LockInv is inductive, and type correctness, mutual exclusion and the    *)
(* absence of lost wake-ups follow from it.                                *)
(***************************************************************************)
EXTENDS ReadWriteMutex, FiniteSetTheorems, TLAPS

USE ThreadsAssumption

CounterIsExact == readerCount = Cardinality(Registered)

\* The part of LockInv that an SMT solver sees without cardinalities.
FlagsInv ==
    /\ pc \in [Threads -> Pcs]
    /\ noWriterSet \in BOOLEAN
    /\ noReadersSet \in BOOLEAN
    /\ writerMutex \in Threads \union {NoThread}
    /\ noReadersSet <=> \A u \in Threads : pc[u] \notin {"rCheck", "rBackOff", "reading"}
    /\ noWriterSet <=> \A u \in Threads : ~GateClosedBy(u)
    /\ \A u \in Threads : InWriterSection(u) <=> writerMutex = u
    /\ NoLostWakeup
    /\ GateDiscipline

LEMMA RegisteredFinite ==
    /\ IsFiniteSet(Registered)
    /\ Cardinality(Registered) \in Nat
    /\ Cardinality(Registered) <= Cardinality(Threads)
    /\ Cardinality(Registered) = 0 <=> Registered = {}
    /\ Cardinality(Threads) \in Nat
<1>1. Registered \subseteq Threads
  BY DEF Registered
<1> QED
  BY <1>1, FS_Subset, FS_CardinalityType, FS_EmptySet

\* LockInv is the flags and the counter.
LEMMA Split == LockInv <=> FlagsInv /\ CounterIsExact
<1>1. LockInv => FlagsInv /\ CounterIsExact
  BY DEF LockInv, TypeOK, Accounting, FlagsInv, CounterIsExact, Registered
<1>2. ASSUME FlagsInv, CounterIsExact PROVE LockInv
  <2>1. readerCount \in 0 .. Cardinality(Threads)
    BY <1>2, RegisteredFinite DEF CounterIsExact
  <2>2. TypeOK
    BY <1>2, <2>1 DEF TypeOK, FlagsInv
  <2>3. Accounting
    BY <1>2 DEF Accounting, FlagsInv, CounterIsExact, Registered
  <2> QED
    BY <1>2, <2>2, <2>3 DEF LockInv, FlagsInv
<1> QED
  BY <1>1, <1>2

LEMMA InitLockInv == Init => LockInv
<1> SUFFICES ASSUME Init PROVE FlagsInv /\ CounterIsExact
  BY Split
<1>1. FlagsInv
  BY DEF Init, FlagsInv, Pcs, GateClosedBy, InWriterSection, NoLostWakeup,
         NoWriterBlocked, NoReadersBlocked, GateDiscipline, WriterWaitsForReaders,
         Writing, Reading
<1>2. Registered = {}
  BY DEF Init, Registered
<1> QED
  BY <1>1, <1>2, RegisteredFinite DEF Init, CounterIsExact

\* A step that moves no thread into or out of Registered, and leaves the
\* counter alone, keeps the counter exact.
LEMMA CounterKept ==
    ASSUME CounterIsExact, readerCount' = readerCount, Registered' = Registered
    PROVE  CounterIsExact'
BY DEF CounterIsExact

\* incrementReaderCount adds the reader to the ones counted.
LEMMA CounterUp ==
    ASSUME FlagsInv, CounterIsExact, NEW t \in Threads, IncrementReaderCount(t)
    PROVE  CounterIsExact'
<1>1. t \notin Registered /\ Registered' = Registered \union {t}
  BY DEF IncrementReaderCount, Registered, FlagsInv
<1>2. Cardinality(Registered \union {t}) = Cardinality(Registered) + 1
  BY <1>1, RegisteredFinite, FS_AddElement
<1> QED
  BY <1>1, <1>2 DEF CounterIsExact, IncrementReaderCount

\* decrementReaderCount removes it, and sees zero exactly when it was the last.
LEMMA CounterDown ==
    ASSUME FlagsInv, CounterIsExact, NEW t \in Threads, t \in Registered,
           NEW next \in {"rWait", "idle"}, DecrementReaderCount(t, next)
    PROVE  /\ CounterIsExact'
           /\ Registered' = Registered \ {t}
           /\ readerCount' <= 0 <=> Registered' = {}
<1>1. Registered' = Registered \ {t}
  BY DEF DecrementReaderCount, NoReadersEventSet, MoveAndWake, NoReadersBlocked,
         AfterBlock, Registered, FlagsInv
<1>2. Cardinality(Registered \ {t}) = Cardinality(Registered) - 1
  BY RegisteredFinite, FS_RemoveElement
<1>3. IsFiniteSet(Registered \ {t})
  BY RegisteredFinite, FS_RemoveElement
<1>4. /\ Cardinality(Registered \ {t}) \in Nat
      /\ Cardinality(Registered \ {t}) = 0 <=> Registered \ {t} = {}
  BY <1>3, FS_CardinalityType, FS_EmptySet
<1>5. readerCount' = Cardinality(Registered')
  BY <1>1, <1>2, RegisteredFinite DEF CounterIsExact, DecrementReaderCount
<1> QED
  BY <1>1, <1>4, <1>5 DEF CounterIsExact

LEMMA NextLockInv == LockInv /\ [Next]_vars => LockInv'
<1>0. (LockInv <=> FlagsInv /\ CounterIsExact)'
  BY Split, PTL
<1> SUFFICES ASSUME FlagsInv, CounterIsExact, [Next]_vars
             PROVE  FlagsInv' /\ CounterIsExact'
  BY <1>0, Split
<1> USE DEF FlagsInv, Pcs, ReaderPcs, WriterPcs, GateClosedBy, InWriterSection,
            NoLostWakeup, NoWriterBlocked, NoReadersBlocked, GateDiscipline,
            WriterWaitsForReaders, Writing, Reading
<1>1. CASE UNCHANGED vars
  BY <1>1 DEF vars, CounterIsExact, Registered
<1>2. ASSUME NEW t \in Threads, ReadLock(t) PROVE FlagsInv' /\ CounterIsExact'
  <2>1. Registered' = Registered
    BY <1>2 DEF ReadLock, Registered
  <2> QED
    BY <1>2, <2>1, CounterKept DEF ReadLock
<1>3. ASSUME NEW t \in Threads, WriteLock(t) PROVE FlagsInv' /\ CounterIsExact'
  <2>1. Registered' = Registered
    BY <1>3 DEF WriteLock, Registered
  <2> QED
    BY <1>3, <2>1, CounterKept DEF WriteLock
<1>4. ASSUME NEW t \in Threads, ReaderWait(t) PROVE FlagsInv' /\ CounterIsExact'
  <2>1. Registered' = Registered
    BY <1>4 DEF ReaderWait, EventWait, Registered
  <2> QED
    BY <1>4, <2>1, CounterKept DEF ReaderWait, EventWait
<1>5. ASSUME NEW t \in Threads, IncrementReaderCount(t)
      PROVE  FlagsInv' /\ CounterIsExact'
  <2>1. FlagsInv'
    BY <1>5 DEF IncrementReaderCount
  <2> QED
    BY <1>5, <2>1, CounterUp
<1>6. ASSUME NEW t \in Threads, ReaderCheck(t) PROVE FlagsInv' /\ CounterIsExact'
  <2>1. Registered' = Registered
    BY <1>6 DEF ReaderCheck, Registered
  <2> QED
    BY <1>6, <2>1, CounterKept DEF ReaderCheck
<1>7. ASSUME NEW t \in Threads, t \in Registered, NEW next \in {"rWait", "idle"},
             DecrementReaderCount(t, next)
      PROVE  FlagsInv' /\ CounterIsExact'
  <2>1. /\ CounterIsExact'
        /\ Registered' = Registered \ {t}
        /\ readerCount' <= 0 <=> Registered' = {}
    BY <1>7, CounterDown
  <2>2. CASE readerCount' <= 0
    BY <1>7, <2>1, <2>2
    DEF DecrementReaderCount, NoReadersEventSet, MoveAndWake, AfterBlock, Registered
  <2>3. CASE ~(readerCount' <= 0)
    BY <1>7, <2>1, <2>3 DEF DecrementReaderCount, Registered
  <2> QED
    BY <2>1, <2>2, <2>3
<1>8. ASSUME NEW t \in Threads, LockWriterMutex(t) PROVE FlagsInv' /\ CounterIsExact'
  <2>1. Registered' = Registered
    BY <1>8 DEF LockWriterMutex, Registered
  <2> QED
    BY <1>8, <2>1, CounterKept DEF LockWriterMutex
<1>9. ASSUME NEW t \in Threads, WriterWait(t) PROVE FlagsInv' /\ CounterIsExact'
  <2>1. Registered' = Registered
    BY <1>9 DEF WriterWait, EventWait, Registered
  <2> QED
    BY <1>9, <2>1, CounterKept DEF WriterWait, EventWait
<1>10. ASSUME NEW t \in Threads, WriterReset(t) PROVE FlagsInv' /\ CounterIsExact'
  <2>1. Registered' = Registered
    BY <1>10 DEF WriterReset, Registered
  <2> QED
    BY <1>10, <2>1, CounterKept DEF WriterReset
<1>11. ASSUME NEW t \in Threads, WriterDrain(t) PROVE FlagsInv' /\ CounterIsExact'
  <2>1. Registered' = Registered
    BY <1>11 DEF WriterDrain, EventWait, Registered
  <2> QED
    BY <1>11, <2>1, CounterKept DEF WriterDrain, EventWait
<1>12. ASSUME NEW t \in Threads, WriterReturn(t) PROVE FlagsInv' /\ CounterIsExact'
  <2>1. Registered' = Registered
    BY <1>12 DEF WriterReturn, Registered
  <2> QED
    BY <1>12, <2>1, CounterKept DEF WriterReturn
<1>13. ASSUME NEW t \in Threads, WriteUnlock(t) PROVE FlagsInv' /\ CounterIsExact'
  <2>1. Registered' = Registered
    BY <1>13 DEF WriteUnlock, NoWriterEventSet, MoveAndWake, AfterBlock, Registered
  <2> QED
    BY <1>13, <2>1, CounterKept
    DEF WriteUnlock, NoWriterEventSet, MoveAndWake, AfterBlock
<1>14. ASSUME NEW t \in Threads, ReaderBackOff(t) \/ ReadUnlock(t)
       PROVE  FlagsInv' /\ CounterIsExact'
  BY <1>14, <1>7 DEF ReaderBackOff, ReadUnlock, Registered
<1> QED
  BY <1>1, <1>2, <1>3, <1>4, <1>5, <1>6, <1>8, <1>9, <1>10, <1>11, <1>12, <1>13,
     <1>14 DEF Next, Step

\* LockInv holds of every reachable state: the counter and both flags account
\* for the threads, no wake-up is lost and writers close the gate in turn.
THEOREM LockInvariant == Spec => []LockInv
BY InitLockInv, NextLockInv, PTL DEF Spec

\* Type correctness: in particular _readerCount stays between zero and the
\* number of threads through every retry of readLock.
THEOREM TypeCorrect == Spec => []TypeOK
<1>1. LockInv => TypeOK
  BY DEF LockInv
<1> QED
  BY <1>1, LockInvariant, PTL

\* A thread that is past writeLock's two waits is alone with the lock.
THEOREM Exclusion == Spec => []MutualExclusion
<1>1. LockInv => MutualExclusion
  BY DEF LockInv, GateDiscipline, WriterWaitsForReaders, MutualExclusion, Writing,
         Reading, GateClosedBy
<1> QED
  BY <1>1, LockInvariant, PTL

\* No thread stays blocked on an event that is set, though set() broadcasts
\* only when it finds the event reset.
THEOREM WakeupsKept == Spec => []NoLostWakeup
<1>1. LockInv => NoLostWakeup
  BY DEF LockInv
<1> QED
  BY <1>1, LockInvariant, PTL

\* The flags and the counter say exactly which threads are inside.
THEOREM AccountsHold == Spec => []Accounting
<1>1. LockInv => Accounting
  BY DEF LockInv
<1> QED
  BY <1>1, LockInvariant, PTL

\* Writers close the gate in turn, each finds it open when it does, and none
\* returns from writeLock before the readers are out.
THEOREM GateKept == Spec => []GateDiscipline
<1>1. LockInv => GateDiscipline
  BY DEF LockInv
<1> QED
  BY <1>1, LockInvariant, PTL

-----------------------------------------------------------------------------
(* The code implements RWLock                                              *)

\* The gate is closed by at most one thread, so Gate names it.
LEMMA GateNames ==
    ASSUME FlagsInv
    PROVE  /\ \A t \in Threads : Gate = t <=> GateClosedBy(t)
           /\ Gate = NoThread <=> \A t \in Threads : ~GateClosedBy(t)
<1>1. \A t, u \in Threads : GateClosedBy(t) /\ GateClosedBy(u) => t = u
  BY DEF FlagsInv, GateDiscipline
<1> QED
  BY <1>1 DEF Gate

LEMMA GateNamesNext ==
    ASSUME FlagsInv'
    PROVE  /\ \A t \in Threads : Gate' = t <=> GateClosedBy(t)'
           /\ Gate' = NoThread <=> \A t \in Threads : ~GateClosedBy(t)'
<1>1. (FlagsInv => (/\ \A t \in Threads : Gate = t <=> GateClosedBy(t)
                    /\ Gate = NoThread <=> \A t \in Threads : ~GateClosedBy(t)))'
  BY GateNames, PTL
<1> QED
  BY <1>1

\* The step changes nothing that RWLock sees of thread u.
SameView(u) ==
    /\ pc'[u] = "reading" <=> pc[u] = "reading"
    /\ pc'[u] = "writing" <=> pc[u] = "writing"
    /\ GateClosedBy(u)' <=> GateClosedBy(u)

\* A step after which the same threads read, hold the gate and write is a
\* stuttering step of the lock.
LEMMA Stutters ==
    ASSUME FlagsInv, FlagsInv',
           \A u \in Threads : SameView(u)
    PROVE  UNCHANGED Lock!lockVars
<1>1. Readers' = Readers
  BY DEF Readers, Reading, SameView
<1>2. Held' = Held
  BY DEF Held, SameView
<1>3. \A u \in Threads : GateClosedBy(u)' <=> GateClosedBy(u)
  BY DEF SameView
<1>4. Gate' = Gate
  BY <1>3, GateNames, GateNamesNext DEF Gate
<1> QED
  BY <1>1, <1>2, <1>4 DEF Lock!lockVars

LEMMA LockStep == LockInv /\ LockInv' /\ [Next]_vars => [Lock!Next]_(Lock!lockVars)
<1>0. (LockInv <=> FlagsInv /\ CounterIsExact)'
  BY Split, PTL
<1> SUFFICES ASSUME FlagsInv, FlagsInv', [Next]_vars
             PROVE  Lock!Next \/ UNCHANGED Lock!lockVars
  BY <1>0, Split
<1>g. /\ \A t \in Threads : Gate = t <=> GateClosedBy(t)
      /\ Gate = NoThread <=> \A t \in Threads : ~GateClosedBy(t)
  BY GateNames
<1>h. /\ \A t \in Threads : Gate' = t <=> GateClosedBy(t)'
      /\ Gate' = NoThread <=> \A t \in Threads : ~GateClosedBy(t)'
  BY GateNamesNext
<1> USE DEF GateClosedBy, SameView
<1>1. CASE UNCHANGED vars
  <2>1. \A u \in Threads : SameView(u)
    BY <1>1 DEF vars
  <2> QED
    BY <2>1, Stutters
<1>2. ASSUME NEW t \in Threads,
             \/ ReadLock(t) \/ WriteLock(t) \/ ReaderWait(t)
             \/ IncrementReaderCount(t) \/ LockWriterMutex(t) \/ WriterWait(t)
             \/ WriterDrain(t)
      PROVE  UNCHANGED Lock!lockVars
  <2>1. \A u \in Threads : SameView(u)
    BY <1>2 DEF FlagsInv, ReadLock, WriteLock, ReaderWait, IncrementReaderCount,
                LockWriterMutex, WriterWait, WriterDrain, EventWait
  <2> QED
    BY <2>1, Stutters
<1>3. ASSUME NEW t \in Threads, ReaderCheck(t), noWriterSet PROVE Lock!Enter(t)
  <2>1. Readers' = Readers \union {t} /\ t \notin Readers
    BY <1>3 DEF ReaderCheck, FlagsInv, Readers, Reading
  <2>2. Gate = NoThread /\ Gate' = NoThread
    BY <1>3, <1>g, <1>h DEF ReaderCheck, FlagsInv
  <2>3. Held' = Held
    BY <1>3 DEF ReaderCheck, FlagsInv, Held
  <2> QED
    BY <2>1, <2>2, <2>3 DEF Lock!Enter
<1>4. ASSUME NEW t \in Threads, ReaderCheck(t), ~noWriterSet
      PROVE  UNCHANGED Lock!lockVars
  <2>1. \A u \in Threads : SameView(u)
    BY <1>4 DEF FlagsInv, ReaderCheck
  <2> QED
    BY <2>1, Stutters
<1>5. ASSUME NEW t \in Threads, NEW next \in {"rWait", "idle"},
             DecrementReaderCount(t, next), pc[t] \in {"rBackOff", "reading"}
      PROVE  \A u \in Threads : u # t => SameView(u)
  BY <1>5 DEF FlagsInv, DecrementReaderCount, NoReadersEventSet, MoveAndWake,
              NoReadersBlocked, AfterBlock
<1>6. ASSUME NEW t \in Threads, NEW next \in {"rWait", "idle"},
             DecrementReaderCount(t, next)
      PROVE  pc'[t] = next
  BY <1>6 DEF FlagsInv, DecrementReaderCount, NoReadersEventSet, MoveAndWake
<1>7. ASSUME NEW t \in Threads, ReaderBackOff(t) PROVE UNCHANGED Lock!lockVars
  <2>1. \A u \in Threads : SameView(u)
    BY <1>7, <1>5, <1>6 DEF ReaderBackOff
  <2> QED
    BY <2>1, Stutters
<1>8. ASSUME NEW t \in Threads, ReadUnlock(t) PROVE Lock!Leave(t)
  <2>1. pc[t] = "reading" /\ pc'[t] = "idle"
    BY <1>8, <1>6 DEF ReadUnlock
  <2>2. \A u \in Threads : u # t => SameView(u)
    BY <1>8, <1>5 DEF ReadUnlock
  <2>3. Readers' = Readers \ {t} /\ t \in Readers
    BY <2>1, <2>2 DEF Readers, Reading
  <2>4. Held' = Held
    BY <2>1, <2>2 DEF Held
  <2>5. \A u \in Threads : GateClosedBy(u)' <=> GateClosedBy(u)
    BY <2>1, <2>2
  <2>6. Gate' = Gate
    BY <2>5, <1>g, <1>h DEF Gate
  <2> QED
    BY <2>3, <2>4, <2>6 DEF Lock!Leave
<1>9. ASSUME NEW t \in Threads, WriterReset(t) PROVE Lock!Close(t)
  <2>1. Gate = NoThread
    BY <1>9, <1>g DEF WriterReset, FlagsInv, GateDiscipline
  <2>2. Gate' = t
    BY <1>9, <1>h DEF WriterReset, FlagsInv
  <2>3. Readers' = Readers /\ t \notin Readers
    BY <1>9 DEF WriterReset, FlagsInv, Readers, Reading
  <2>4. Held' = Held
    BY <1>9 DEF WriterReset, FlagsInv, Held
  <2> QED
    BY <2>1, <2>2, <2>3, <2>4 DEF Lock!Close
<1>10. ASSUME NEW t \in Threads, WriterReturn(t) PROVE Lock!Acquire(t)
  <2>1. Gate = t /\ Gate' = t
    BY <1>10, <1>g, <1>h DEF WriterReturn, FlagsInv
  <2>2. Readers = {} /\ Readers' = {}
    BY <1>10 DEF WriterReturn, FlagsInv, GateDiscipline, WriterWaitsForReaders,
                 Readers, Reading, Writing
  <2>3. ~Held /\ Held'
    BY <1>10 DEF WriterReturn, FlagsInv, GateDiscipline, Held
  <2> QED
    BY <2>1, <2>2, <2>3 DEF Lock!Acquire
<1>11. ASSUME NEW t \in Threads, WriteUnlock(t) PROVE Lock!Release(t)
  <2>1. /\ pc[t] = "writing" /\ pc'[t] = "idle"
        /\ \A u \in Threads : u # t => SameView(u)
    BY <1>11 DEF FlagsInv, WriteUnlock, NoWriterEventSet, MoveAndWake,
                 NoWriterBlocked, AfterBlock
  <2>2. \A u \in Threads : u # t => ~GateClosedBy(u)
    BY <2>1 DEF FlagsInv, GateDiscipline
  <2>3. Gate = t
    BY <2>1, <1>g
  <2>4. Gate' = NoThread
    BY <2>1, <2>2, <1>h
  <2>5. Held /\ ~Held'
    BY <2>1, <2>2 DEF Held
  <2>6. Readers' = Readers
    BY <2>1 DEF Readers, Reading
  <2> QED
    BY <2>3, <2>4, <2>5, <2>6 DEF Lock!Release
<1> QED
  BY <1>1, <1>2, <1>3, <1>4, <1>7, <1>8, <1>9, <1>10, <1>11
  DEF Next, Step, Lock!Next

LEMMA LockInit == Init => Lock!Init
BY DEF Init, Lock!Init, Readers, Reading, Gate, Held, GateClosedBy

\* Events, flags and counter together implement the lock of RWLock: no step of
\* the code lets a reader past a closed gate or a writer in beside a reader.
THEOREM Refinement == Spec => ImplementsLock
BY LockInit, LockStep, LockInvariant, PTL DEF Spec, ImplementsLock, Lock!Spec
=============================================================================
