---------------------------- MODULE MCTileVisitor ----------------------------
(***************************************************************************)
(* TileVisitor for TLC: two root keys, the second out of the extents, and  *)
(* one child of the first without data, so that three tiles of level 1 are *)
(* left for three tasks, for a batch of two and one of one, or for a batch *)
(* of three and an empty one.  There is data on the levels above and below *)
(* for a traversal that goes astray.  The tasks and the pill have          *)
(* TaskRequest's default priority, as in run(), and the queue has the      *)
(* bound that run() gives it.                                              *)
(***************************************************************************)
EXTENDS TileVisitor

CONSTANTS v, t1, t2, t3, pill

Tasks == {t1, t2, t3, pill}
OnlyVisitor == [r \in Tasks |-> v]
DefaultPriority == [r \in Tasks |-> 0]
InOrder == <<t1, t2, t3>>

Roots == <<<<0>>, <<1>>>>
AllKeys == {<<r>> \o p : r \in {0, 1}, p \in SeqOf(0 .. 3, 2)}
DataKeys == AllKeys \ {<<0, 2>>}
ExtentKeys == {k \in AllKeys : k[1] = 0}
=============================================================================
