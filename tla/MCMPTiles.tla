----------------------------- MODULE MCMPTiles -----------------------------
(***************************************************************************)
(* MPTiles for TLC: a root, a key below it and, where there is one, a leaf *)
(* below that.                                                             *)
(***************************************************************************)
EXTENDS MPTiles

CONSTANTS r, p, c

ParentOf == [k \in Keys \ {r} |-> IF k = p THEN r ELSE p]
=============================================================================
