----------------------------- MODULE MCStorage -----------------------------
(***************************************************************************)
(* Small instances of the parts of Storage, and the groups that run.       *)
(***************************************************************************)
EXTENDS Storage

MCClients == {"context", "many", "reader", "run1", "run2", "caller1", "caller2"}

\* An id is a pair, as those of blob files and images are.
MCNames == {<<"name", 0>>}

MCNodes == {"a", "b", "c", "d", "e"}

\* Two nodes fit into one file, "d" fits into none, "e" has no binary data.
MCSize == [n \in MCNodes |->
  CASE n \in {"a", "c"} -> 2 [] n = "b" -> 1 [] n = "d" -> 4 [] n = "e" -> 0]

MCWork == [w \in {"context", "many"} |->
  IF w = "context" THEN <<"a", "e", "b", "c">> ELSE <<"b", "d", "c">>]

MCKind == [w \in {"context", "many"} |-> IF w = "context" THEN "context" ELSE "insertMany"]

MCDrawingOf == [d \in {"run1", "run2"} |-> "rev"]

-----------------------------------------------------------------------------
\* Six meshes of one face, one that must be split, one each with a texture, with
\* a texture but nowhere to put it, of lines, of points, and on the floors.
MCMeshes == {"m1", "m2", "m3", "m4", "m5", "m6",
             "big", "textured", "untextured", "line", "point", "upper", "lower"}

MCAttributes == [m \in MCMeshes |->
  [primitive |-> CASE m = "line" -> 2 [] m = "point" -> 1 [] OTHER -> 3,
   opacity   |-> IF m = "line" THEN "transparent" ELSE "opaque",
   texture   |-> IF m \in {"textured", "untextured"} THEN "brick" ELSE "none",
   uvs       |-> m = "textured",
   normals   |-> m \in {"line", "textured"},
   grouping  |-> IF m = "m6" THEN "resource" ELSE "",
   parent    |-> CASE m = "upper" -> "room" [] m = "lower" -> "ground" [] OTHER -> "site"]]

\* m3 has three vertices, the others of one face have one.  The faces of "big"
\* are a strip and one apart from it.
MCFaces == [m \in MCMeshes |-> IF m = "big" THEN {"b1", "b2", "b3", "b4"} ELSE {m}]
MCVertices == [f \in UNION {MCFaces[m] : m \in MCMeshes} |->
  LET corners == CASE f = "b1" -> 1..2 [] f = "b2" -> 2..3 [] f = "b3" -> 3..4
                    [] f = "b4" -> 5..6 [] f = "m3" -> 1..3 [] OTHER -> {1}
  IN  {IF f \in MCFaces["big"] THEN <<"big", v>> ELSE <<f, v>> : v \in corners}]

MCTransforms == {"root", "site", "ground", "first", "room"}
MCAbove == [t \in MCTransforms \ {"root"} |->
  CASE t = "first" -> "ground" [] t = "room" -> "first" [] OTHER -> "root"]
MCFloorTags == {[floor |-> "G", parents |-> {"ground"}], [floor |-> "F", parents |-> {"first"}],
                [floor |-> "E", parents |-> {"first"}]}

OneBigCluster == {{"m1", "m2", "m3", "m4", "m5"}, {"m1", "m2", "m4", "m6", "big"},
  {"m1", "textured", "untextured", "line", "point", "upper", "lower"}}
TwoBigClusters == {{"m1", "m2", "m3", "m4", "m5", "untextured"}}
-----------------------------------------------------------------------------
\* Two materials share a texture, one names a file that is not there.
MCAdded == {"a1", "a2", "a3", "b1", "c1", "d1"}
MCMaterialOf == [m \in MCAdded |->
  CASE m \in {"a1", "a2", "a3"} -> "A" [] m = "b1" -> "B" [] m = "c1" -> "C" [] OTHER -> "D"]
MCTexturePath == [mat \in {"A", "B", "C", "D"} |->
  CASE mat \in {"A", "B"} -> "brick.png" [] mat = "C" -> "lost.png" [] OTHER -> ""]
-----------------------------------------------------------------------------
\* A chunk has four vertices and three faces: meshes that fit, one with a vertex
\* that no face uses, and meshes that are split because of their vertices, of
\* which the parts share some or use only some, or because of their faces.
MCSubMeshes == {
  [vertices |-> 2, faces |-> <<<<0, 1>>>>],
  [vertices |-> 3, faces |-> <<<<1, 0>>>>],
  [vertices |-> 4, faces |-> <<<<0, 1, 2>>, <<1, 2, 3>>>>],
  [vertices |-> 6, faces |-> <<<<5, 4, 3>>, <<2, 3, 4>>, <<1, 2, 3>>, <<0, 1, 2>>>>],
  [vertices |-> 5, faces |-> <<<<0, 1>>, <<3, 4>>>>],
  [vertices |-> 3, faces |-> <<<<0, 1>>, <<1, 2>>, <<0, 2>>, <<2, 1>>>>]}
MCRemapped == UNION {[1..n -> MCSubMeshes] : n \in 1..3}
-----------------------------------------------------------------------------
AllGroups == {{"context", "reader"}, {"many", "reader"}, {"run1", "run2"},
              {"caller1", "caller2"}, {"builder"}, {"optimiser"}, {"reorganiser"}}

DrawingGroup == {{"run1", "run2"}}
OptimiserGroup == {{"optimiser"}}
=============================================================================
