--------------------------- MODULE MCSceneBuilder ---------------------------
(* An instance of SceneBuilder for TLC: a node that is larger than the      *)
(* threshold, and one that fills the queue with an update beside it.        *)
EXTENDS SceneBuilder

CONSTANTS n1, n2

\* n2 alone exceeds the threshold of 3.
Oversized == n1 :> 2 @@ n2 :> 5
=============================================================================
