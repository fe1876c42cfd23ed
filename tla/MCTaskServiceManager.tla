------------------------ MODULE MCTaskServiceManager ------------------------
(***************************************************************************)
(* TaskServiceManager for TLC: two callers, up to three services and       *)
(* weights of which one is not positive and one twice another, so that the *)
(* shares of a target of four threads do not come out even.                *)
(***************************************************************************)
EXTENDS TaskServiceManager

WeightsTried == {-1, 1000, 2000}
=============================================================================
