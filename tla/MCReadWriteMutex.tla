-------------------------- MODULE MCReadWriteMutex --------------------------
(***************************************************************************)
(* ReadWriteMutex for TLC: four threads, each free to read or to write,    *)
(* so that a reader that holds the lock, one that comes late, the writer   *)
(* that locks it out and the next writer in line can meet.                 *)
(***************************************************************************)
EXTENDS ReadWriteMutex
=============================================================================
