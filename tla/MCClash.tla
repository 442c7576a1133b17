------------------------------ MODULE MCClash -------------------------------
(* Instances of ClashPipeline for TLC.  P has two meshes that touch each    *)
(* other, one smaller and one larger than the mesh of Q; R touches P and Q, *)
(* S shares a mesh with P, and T is too large.                              *)
EXTENDS ClashPipeline, TLC

MCMeshes == {"p1", "p2", "q", "r", "t", "u"}
MCMeshesOf ==
  "P" :> {"p1", "p2"} @@ "Q" :> {"q"} @@ "R" :> {"r"} @@ "S" :> {"p1"} @@ "T" :> {"t"} @@ "U" :> {"u"}

MCSize == "p1" :> 1 @@ "p2" :> 3 @@ "q" :> 2 @@ "r" :> 2 @@ "t" :> 9 @@ "u" :> 2
          @@ "P" :> 4 @@ "Q" :> 2 @@ "R" :> 2 @@ "S" :> 1 @@ "T" :> 9 @@ "U" :> 2

MCClashing == {{"p1", "p2"}, {"p1", "q"}, {"p2", "q"}, {"q", "r"}}
MCClose == MCClashing \cup {{"p2", "r"}, {"q", "u"}, {"r", "u"}}

MCConfig(type, setA, setB, selfA, selfB, numThreads) ==
  [type |-> type, setA |-> setA, setB |-> setB, selfA |-> selfA, selfB |-> selfB,
   numThreads |-> numThreads, writersFirst |-> FALSE]

Clearances == {
  MCConfig("clearance", {"P", "Q"}, {}, TRUE, FALSE, 2),
  MCConfig("clearance", {"P"}, {"Q", "R"}, FALSE, TRUE, 2),
  MCConfig("clearance", {"P", "Q"}, {"Q", "R"}, FALSE, FALSE, 2),
  MCConfig("clearance", {"P"}, {"S"}, FALSE, FALSE, 2),
  MCConfig("clearance", {"Q", "R"}, {"R", "U"}, FALSE, FALSE, 3)}

Hards == {
  MCConfig("hard", {"P", "Q", "R"}, {}, TRUE, FALSE, 3),
  MCConfig("hard", {"P", "Q"}, {"Q", "R"}, FALSE, FALSE, 2),
  MCConfig("hard", {"P", "S"}, {}, TRUE, FALSE, 2),
  MCConfig("hard", {"R"}, {"T"}, FALSE, FALSE, 2)}

\* Only Clearance shares its locks.
MCConfigs == Clearances \cup Hards \cup {[c EXCEPT !.writersFirst = TRUE] : c \in Clearances}

TwoSets == {MCConfig("clearance", {"P"}, {"Q"}, FALSE, FALSE, 2)}

SelfClearance == {MCConfig("clearance", {"P", "Q"}, {}, TRUE, FALSE, 2)}
=============================================================================
