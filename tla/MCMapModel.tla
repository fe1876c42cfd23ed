----------------------------- MODULE MCMapModel -----------------------------
(***************************************************************************)
(* MapModel for TLC: a map of two image layers, so that their order        *)
(* matters, one of elevation and one mask, all of them in the map when the *)
(* engine is made, and a model.  Two draw threads share a frame.           *)
(***************************************************************************)
EXTENDS MapModel

CONSTANTS i1, i2, e1, m1, k1, g

SomeStock ==
    [p \in Parts |-> CASE p = "image" -> {i1, i2} [] p = "elevation" -> {e1}
                        [] p = "model" -> {m1} [] OTHER -> {k1}]

OneGeometry == [t \in Readers |-> g]

FirstLayers ==
    [p \in Parts |-> CASE p = "image" -> <<i1, i2>> [] p = "elevation" -> <<e1>>
                        [] p = "model" -> <<>> [] OTHER -> <<k1>>]
=============================================================================
