------------------------------- MODULE RWLock -------------------------------
(***************************************************************************)
(* What a readers/writer lock promises its clients, with no events, flags  *)
(* or counters: a writer first closes the gate (from then on no reader     *)
(* enters), then waits until the readers inside have left, and only then   *)
(* holds the lock; the gate opens again when it lets go.                   *)
(*                                                                         *)
(* ReadWriteMutex implements this specification.                           *)
(***************************************************************************)
EXTENDS Naturals

CONSTANTS Threads,    \* the threads that may take the lock
          NoThread    \* a value that is not a thread

VARIABLES readers,    \* the threads inside with a read lock
          gate,       \* the writer that has closed the gate, or NoThread
          writing     \* TRUE while that writer holds the lock

lockVars == <<readers, gate, writing>>

Init ==
    /\ readers = {}
    /\ gate = NoThread
    /\ writing = FALSE

\* A reader goes in through the open gate.
Enter(t) ==
    /\ gate = NoThread
    /\ t \notin readers
    /\ readers' = readers \union {t}
    /\ UNCHANGED <<gate, writing>>

Leave(t) ==
    /\ t \in readers
    /\ readers' = readers \ {t}
    /\ UNCHANGED <<gate, writing>>

\* A writer closes the gate: readers inside may stay, no other comes in.
Close(t) ==
    /\ gate = NoThread
    /\ t \notin readers
    /\ gate' = t
    /\ UNCHANGED <<readers, writing>>

\* The writer that closed the gate holds the lock once nobody reads.
Acquire(t) ==
    /\ gate = t
    /\ ~writing
    /\ readers = {}
    /\ writing' = TRUE
    /\ UNCHANGED <<readers, gate>>

Release(t) ==
    /\ gate = t
    /\ writing
    /\ gate' = NoThread
    /\ writing' = FALSE
    /\ UNCHANGED readers

Next ==
    \E t \in Threads : \/ Enter(t) \/ Leave(t)
                       \/ Close(t) \/ Acquire(t) \/ Release(t)

Spec == Init /\ [][Next]_lockVars
=============================================================================
