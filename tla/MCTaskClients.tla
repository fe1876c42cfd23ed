---------------------------- MODULE MCTaskClients ----------------------------
(***************************************************************************)
(* TaskClients for TLC: the imagery of two tiles, one a level below the    *)
(* other, in sequential mode.  Each may be added, canceled and recycled    *)
(* for ever, and the finer one, whose number is lower, overtakes the other *)
(* in a queue without a limit, as the terrain's services have it.  A queue *)
(* of one is full with either.                                             *)
(***************************************************************************)
EXTENDS TaskClients

CONSTANTS c1, coarse, fine

NoPills == {}
OneOwner == [r \in Requests |-> c1]
ByLevel == [r \in Requests |-> ImagePriority("sequential", IF r = fine THEN 1 ELSE 0)]
=============================================================================
