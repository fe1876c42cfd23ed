----------------------------- MODULE MCTestEarth -----------------------------
(***************************************************************************)
(* testEarth for TLC: two actors, one of which the game has registered for *)
(* INFO_MAP_LOADED, entering the world at most twice each.                 *)
(***************************************************************************)
EXTENDS TestEarth
=============================================================================
