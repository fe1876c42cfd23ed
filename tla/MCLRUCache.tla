----------------------------- MODULE MCLRUCache -----------------------------
(***************************************************************************)
(* LRUCache for TLC: more keys than the larger size, and a Fraction of 2,  *)
(* so that sizes 2 and 4 evict one key and two; or the code's Fraction     *)
(* with a size below it.                                                   *)
(***************************************************************************)
EXTENDS LRUCache
=============================================================================
