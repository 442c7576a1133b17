------------------------- MODULE MeshMapReorganiser -------------------------
(***************************************************************************)
(* MeshMapReorganiser: the meshes of a supermesh are put into chunks of so *)
(* few vertices and faces that 16-bit indices do.  Small meshes share a    *)
(* chunk, a mesh beyond a limit is split at its faces.  A vertex is its    *)
(* index in the supermesh; normals and texture coordinates go with it.     *)
(* Indices are the code's: they start at 0 and the end of a range is the   *)
(* first that is not in it.                                                *)
(***************************************************************************)
EXTENDS Integers, SequencesExt

CONSTANTS
  RemappedSupermeshes,  \* sequences of meshes: how many vertices, which faces
  MaxChunkVertices,     \* vertThreshold
  MaxChunkFaces         \* faceThreshold

\* A supermesh is of meshes with faces.  A face has as many corners as the primitive,
\* and a chunk room for one.
ASSUME ChunkAssumption ==
  /\ MaxChunkVertices \in Nat /\ MaxChunkFaces \in Nat \ {0}
  /\ RemappedSupermeshes \subseteq
       Seq([vertices : Nat, faces : Seq(Seq(Nat) \ {<<>>}) \ {<<>>}]) \ {<<>>}
  /\ \A s \in RemappedSupermeshes : \A i \in DOMAIN s :
       \A j \in DOMAIN s[i].faces :
         /\ Len(s[i].faces[j]) <= MaxChunkVertices
         /\ ToSet(s[i].faces[j]) \subseteq 0..(s[i].vertices - 1)

VARIABLES
  meshMapping,  \* the meshes of the supermesh, in the order of its mappings
  vertices,     \* newVertices
  faces,        \* newFaces, and serialisedFaces
  chunks,       \* newMappings, with the entries of idMapBuf and matMap
  splitMap,     \* per mesh, the chunks that have a part of it
  room          \* of the chunk in work: vertices and faces, or that it is finished

remapVars == <<meshMapping, vertices, faces, chunks, splitMap, room>>

VerticesIn(meshes) == FoldLeft(LAMBDA n, mesh : n + mesh.vertices, 0, meshes)

VertexOffset(i) == VerticesIn(SubSeq(meshMapping, 1, i - 1))

\* The faces of a mesh, with the indices they have in the supermesh.
FacesOfMesh(i) ==
  [j \in DOMAIN meshMapping[i].faces |->
     [k \in DOMAIN meshMapping[i].faces[j] |->
        meshMapping[i].faces[j][k] + VertexOffset(i)]]

NewChunk(v, f) ==
  [vertFrom |-> v, triFrom |-> f, vertTo |-> v, triTo |-> f, ids |-> <<>>, meshes |-> <<>>]

\* The last chunk gets n more vertices and f more faces, of mesh i.
Grow(cs, i, n, f) ==
  LET c == Last(cs)
      entry == [mesh |-> i, vertFrom |-> c.vertTo, vertTo |-> c.vertTo + n,
                triFrom |-> c.triTo, triTo |-> c.triTo + f]
  IN  Append(Front(cs),
        [c EXCEPT !.vertTo = @ + n, !.triTo = @ + f, !.meshes = Append(@, entry),
                  !.ids = @ \o [v \in 1..n |-> i - 1]])

\* Where the mesh goes: on in the chunk in work, or in a new one.
StartChunk(mesh) ==
  IF \/ room.finished
     \/ room.vertices + mesh.vertices > MaxChunkVertices
     \/ room.faces + Len(mesh.faces) > MaxChunkFaces
  THEN [chunks |-> Append(chunks,
          IF chunks = <<>> THEN NewChunk(0, 0)
          ELSE NewChunk(Last(chunks).vertTo, Last(chunks).triTo)),
        vertices |-> 0, faces |-> 0]
  ELSE [chunks |-> chunks, vertices |-> room.vertices, faces |-> room.faces]

IsLarge(mesh) ==
  mesh.vertices > MaxChunkVertices \/ Len(mesh.faces) > MaxChunkFaces

PlaceMesh(i) ==
  LET mesh == meshMapping[i]
      at == StartChunk(mesh)
  IN  /\ ~ IsLarge(mesh)
      /\ chunks' = Grow(at.chunks, i, mesh.vertices, Len(mesh.faces))
      /\ faces' = faces \o
           [j \in DOMAIN mesh.faces |->
              [k \in DOMAIN mesh.faces[j] |->
                 FacesOfMesh(i)[j][k] + at.vertices - VertexOffset(i)]]
      /\ splitMap' = Append(splitMap, <<Len(at.chunks) - 1>>)
      /\ room' = [vertices |-> at.vertices + mesh.vertices,
                  faces |-> at.faces + Len(mesh.faces), finished |-> FALSE]
      /\ UNCHANGED <<meshMapping, vertices>>
-----------------------------------------------------------------------------
\* The vertices of a part, in the order in which its faces name them first.
NameVertex(vs, v) == IF v \in ToSet(vs) THEN vs ELSE Append(vs, v)

NameVertices(vs, face) == FoldLeft(NameVertex, vs, face)

\* Which of the vertices of a part this one is.
PlaceOf(v, vs) == SelectInSeq(vs, LAMBDA u : u = v)

EmptyPart == [vertices |-> <<>>, faces |-> <<>>]

AddFace(part, face) ==
  LET used == NameVertices(part.vertices, face)
  IN  [vertices |-> used,
       faces |-> Append(part.faces, [k \in DOMAIN face |-> PlaceOf(face[k], used) - 1])]

\* A face goes to the last part, or begins another when that is full.
PutFace(parts, face) ==
  LET part == Last(parts)
      full == \/ Len(part.vertices) + Len(face) > MaxChunkVertices
              \/ Len(part.faces) >= MaxChunkFaces
  IN  IF full THEN Append(parts, AddFace(EmptyPart, face))
      ELSE Append(Front(parts), AddFace(part, face))

\* The parts a large mesh is cut into, one face after the other.
CutFaces(fs) == FoldLeft(PutFace, <<EmptyPart>>, fs)

\* Variant: the vertices that no face uses stay behind the parts.
FitKeepingUnused(from, old, new) ==
  SubSeq(vertices, 1, from) \o new
    \o SubSeq(vertices, from + (IF Len(new) < old THEN Len(new) ELSE old) + 1, Len(vertices))

\* The vertices of a mesh, which start at from and were old many, become new.
Fit(from, old, new) ==
  SubSeq(vertices, 1, from) \o new \o SubSeq(vertices, from + old + 1, Len(vertices))

\* A part gets a chunk of its own, the first the one that was begun for the mesh.
PutPart(cs, part, i) ==
  Grow(IF Last(cs).meshes = <<>> THEN cs
       ELSE Append(cs, NewChunk(Last(cs).vertTo, Last(cs).triTo)),
       i, Len(part.vertices), Len(part.faces))

PutParts(cs, parts, i) == FoldLeft(LAMBDA c, part : PutPart(c, part, i), cs, parts)

SplitLargeMesh(i) ==
  LET mesh == meshMapping[i]
      at == StartChunk(mesh)
      parts == CutFaces(FacesOfMesh(i))
  IN  /\ IsLarge(mesh)
      /\ chunks' = PutParts(at.chunks, parts, i)
      /\ faces' = faces \o FlattenSeq([p \in DOMAIN parts |-> parts[p].faces])
      /\ vertices' = Fit(Last(at.chunks).vertFrom, mesh.vertices,
                         FlattenSeq([p \in DOMAIN parts |-> parts[p].vertices]))
      /\ splitMap' = Append(splitMap, [p \in DOMAIN parts |-> Len(at.chunks) + p - 2])
      /\ room' = [vertices |-> 0, faces |-> 0, finished |-> TRUE]
      /\ UNCHANGED meshMapping

RemapInit ==
  /\ meshMapping \in RemappedSupermeshes
  /\ vertices = [v \in 1..VertexOffset(Len(meshMapping) + 1) |-> v - 1]
  /\ faces = <<>> /\ chunks = <<>> /\ splitMap = <<>>
  /\ room = [vertices |-> 0, faces |-> 0, finished |-> TRUE]

RemapStep ==
  LET i == Len(splitMap) + 1
  IN  i <= Len(meshMapping) /\ (PlaceMesh(i) \/ SplitLargeMesh(i))
-----------------------------------------------------------------------------
\* The face at position f of the supermesh as chunk c draws it: the vertices its
\* indices stand for, and the mesh that each of them is marked with.
Drawn(c, f) ==
  [k \in DOMAIN faces[f] |-> [vertex |-> vertices[c.vertFrom + faces[f][k] + 1],
                              mesh   |-> c.ids[faces[f][k] + 1]]]

\* The faces of the supermesh, each with the mesh it belongs to.
FacesOfAll ==
  FlattenSeq([i \in DOMAIN meshMapping |->
    [j \in DOMAIN FacesOfMesh(i) |-> [mesh |-> i, face |-> FacesOfMesh(i)[j]]]])

\* When all meshes have been placed, the chunks show the supermesh: they follow
\* one another without a gap, none is beyond a limit, each face is drawn with its
\* own vertices, marked with its own mesh, and listed under it, and splitMap
\* names for each mesh the chunks it is in (performSplitting and splitLargeMesh,
\* which move vertices of an array that later meshes are read from).
ChunksShowSupermesh ==
  Len(splitMap) = Len(meshMapping) =>
    /\ \A n \in DOMAIN chunks :
         LET c == chunks[n] IN
         /\ c.vertFrom = (IF n = 1 THEN 0 ELSE chunks[n - 1].vertTo)
         /\ c.triFrom = (IF n = 1 THEN 0 ELSE chunks[n - 1].triTo)
         /\ c.vertTo - c.vertFrom \in 1..MaxChunkVertices
         /\ c.triTo - c.triFrom \in 1..MaxChunkFaces
         /\ Len(c.ids) = c.vertTo - c.vertFrom
    /\ Last(chunks).vertTo = Len(vertices)
    /\ Last(chunks).triTo = Len(faces) /\ Len(faces) = Len(FacesOfAll)
    /\ \A n \in DOMAIN chunks : \A f \in (chunks[n].triFrom + 1)..chunks[n].triTo :
         LET i == FacesOfAll[f].mesh IN
         /\ Drawn(chunks[n], f) =
              [k \in DOMAIN faces[f] |-> [vertex |-> FacesOfAll[f].face[k], mesh |-> i - 1]]
         /\ \E e \in ToSet(chunks[n].meshes) :
              e.mesh = i /\ f \in (e.triFrom + 1)..e.triTo
         /\ n - 1 \in ToSet(splitMap[i])
    /\ \A i \in DOMAIN meshMapping : \A n \in ToSet(splitMap[i]) :
         \E e \in ToSet(chunks[n + 1].meshes) : e.mesh = i
=============================================================================
