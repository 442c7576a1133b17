-------------------------- MODULE ReorganiserProofs --------------------------
(***************************************************************************)
(* Proofs about the reorganiser of supermeshes, for any supermeshes and    *)
(* limits of a chunk: when all meshes have been placed, its chunks show    *)
(* the supermesh, each face once, with its own vertices.                   *)
(***************************************************************************)
EXTENDS OptimiserProofs

-----------------------------------------------------------------------------
(* The inductive invariant: what has been placed is laid out in chunks,    *)
(* the vertices of the meshes that are to come are behind it, where the    *)
(* code reads them from, and room says what the last chunk holds.          *)

\* How far the chunks reach, in vertices and in faces.
EndVertex(cs) == IF cs = <<>> THEN 0 ELSE Last(cs).vertTo
EndFace(cs) == IF cs = <<>> THEN 0 ELSE Last(cs).triTo

Room(c) == c.vertTo - c.vertFrom

Entry == [mesh : Nat, vertFrom : Nat, vertTo : Nat, triFrom : Nat, triTo : Nat]

Chunk == [vertFrom : Nat, triFrom : Nat, vertTo : Nat, triTo : Nat, ids : Seq(Nat),
          meshes : Seq(Entry)]

\* A chunk begins where the one before it ends, and is within the limits.
ChunkOK(cs, n) ==
  /\ cs[n].vertFrom = (IF n = 1 THEN 0 ELSE cs[n - 1].vertTo)
  /\ cs[n].triFrom = (IF n = 1 THEN 0 ELSE cs[n - 1].triTo)
  /\ Room(cs[n]) \in 0..MaxChunkVertices
  /\ cs[n].triTo - cs[n].triFrom \in 0..MaxChunkFaces
  /\ Len(cs[n].ids) = Room(cs[n])
  /\ cs[n].vertTo <= EndVertex(cs) /\ cs[n].triTo <= EndFace(cs)

\* It shows something.
Filled(c) == c.vertFrom < c.vertTo /\ c.triFrom < c.triTo

ListsFace(c, mesh, f) == \E e \in ToSet(c.meshes) : e.mesh = mesh /\ f \in (e.triFrom + 1)..e.triTo

\* The face at position f is that of the supermesh, drawn by chunk c.
ShowsFace(c, f, vs, fs, all) ==
  /\ DOMAIN fs[f] = DOMAIN all[f].face
  /\ \A k \in DOMAIN fs[f] :
       /\ fs[f][k] \in 0..(Room(c) - 1)
       /\ vs[c.vertFrom + fs[f][k] + 1] = all[f].face[k]
       /\ c.ids[fs[f][k] + 1] = all[f].mesh - 1
  /\ ListsFace(c, all[f].mesh, f)

\* The faces of the supermesh, with their meshes.
Listed(i) == [j \in DOMAIN FacesOfMesh(i) |-> [mesh |-> i, face |-> FacesOfMesh(i)[j]]]

FacesTo(k) == FlattenSeq([i \in 1..k |-> Listed(i)])

SuperFace == [mesh : Nat, face : Seq(Nat)]

\* Chunks with these vertices and faces show these faces of the supermesh.  The
\* last may just have been begun.
LaidTo(cs, vs, fs, all) ==
  /\ cs \in Seq(Chunk) /\ vs \in Seq(Nat) /\ fs \in Seq(Seq(Nat)) /\ all \in Seq(SuperFace)
  /\ Len(vs) = EndVertex(cs) /\ Len(fs) = EndFace(cs) /\ Len(all) = EndFace(cs)
  /\ \A n \in 1..Len(cs) : ChunkOK(cs, n)
  /\ \A n \in 1..(Len(cs) - 1) : Filled(cs[n])
  /\ \A n \in 1..Len(cs) : \A f \in (cs[n].triFrom + 1)..cs[n].triTo :
       ShowsFace(cs[n], f, vs, fs, all)

LaidOut(cs, vs, fs, all) ==
  /\ LaidTo(cs, vs, fs, all)
  /\ \A n \in 1..Len(cs) : Filled(cs[n])

MeshesOfChunk(c) == {e.mesh : e \in ToSet(c.meshes)}

\* splitMap has, for each mesh that has been placed, the chunks it is in.
NamesChunks(cs, sm) ==
  /\ \A n \in DOMAIN cs : MeshesOfChunk(cs[n]) \subseteq DOMAIN sm
  /\ \A i \in DOMAIN sm : ToSet(sm[i]) = {n - 1 : n \in {m \in DOMAIN cs : i \in MeshesOfChunk(cs[m])}}

\* The vertices of the meshes that are not placed yet, behind those of the chunks.
Rest(k) ==
  [v \in 1..(VertexOffset(Len(meshMapping) + 1) - VertexOffset(k + 1)) |-> VertexOffset(k + 1) + v - 1]

RoomOK ==
  /\ room \in [vertices : Nat, faces : Nat, finished : BOOLEAN]
  /\ ~room.finished =>
       /\ chunks # <<>>
       /\ room.vertices = Room(Last(chunks))
       /\ room.faces = Last(chunks).triTo - Last(chunks).triFrom

RemapInv ==
  /\ meshMapping \in RemappedSupermeshes
  /\ splitMap \in Seq(Seq(Nat)) /\ Len(splitMap) <= Len(meshMapping)
  /\ LaidOut(chunks, SubSeq(vertices, 1, EndVertex(chunks)), faces, FacesTo(Len(splitMap)))
  /\ vertices = SubSeq(vertices, 1, EndVertex(chunks)) \o Rest(Len(splitMap))
  /\ RoomOK
  /\ NamesChunks(chunks, splitMap)

-----------------------------------------------------------------------------
(* The folds of the reorganiser as values in turn.                         *)

LEMMA FollowedInTurn ==
  ASSUME NEW A, NEW S, NEW base \in A, NEW step \in [A \X S -> A],
         NEW n \in Nat, NEW z, \A i \in 1..n : z[i] \in S,
         NEW g, Follows(g, A, base, step, z, n)
  PROVE  InTurnTo(A, base, step, z, n, g[1..n])
<1>1. PICK f \in [SUBSET (1..n) -> A] : Iterates(f, base, step, z, n)
  <2>1. IterateTo(A, base, step, z, n)
    BY IterateExists
  <2> QED BY <2>1 DEF IterateTo
<1>2. AgreeTo(f, g, n)
  BY <1>1, IteratesAgree
<1>3. g[1..n] = f[1..n]
  BY <1>2 DEF AgreeTo
<1> QED BY <1>1, <1>3, IteratesInTurn

NameVertexTo(A, base, z) ==
  \E p \in [0..Len(z) -> A] :
    /\ p[0] = base /\ NameVertices(base, z) = p[Len(z)]
    /\ \A k \in 1..Len(z) : p[k] = NameVertex(p[k - 1], z[k])

LEMMA NameVertexInTurn ==
  ASSUME NEW A, NEW S, NEW base \in A, NEW z \in Seq(S), \A a \in A, x \in S : NameVertex(a, x) \in A
  PROVE  NameVertexTo(A, base, z)
<1> DEFINE n == Len(z)
           step == [q \in A \X S |-> NameVertex(q[1], q[2])]
<1>1. n \in Nat /\ DOMAIN z = 1..n /\ \A k \in 1..n : z[k] \in S
  OBVIOUS
<1>2. step \in [A \X S -> A] /\ \A a \in A, x \in S : step[<<a, x>>] = NameVertex(a, x)
  OBVIOUS
<1> HIDE DEF n, step
<1>3. PICK f \in [SUBSET (1..n) -> A] : Iterates(f, base, step, z, n)
  <2>1. IterateTo(A, base, step, z, n)
    BY <1>1, <1>2, IterateExists
  <2> QED BY <2>1 DEF IterateTo
<1>4. f = [T \in SUBSET (1..n) |-> IF T = {} THEN base ELSE NameVertex(f[T \ {Max(T)}], z[Max(T)])]
  <2> SUFFICES ASSUME NEW T \in SUBSET (1..n), T # {}
               PROVE  f[T] = NameVertex(f[T \ {Max(T)}], z[Max(T)])
    BY <1>3 DEF Iterates
  <2>1. Max(T) \in 1..n
    BY <1>1, MaxIn
  <2>2. f[T \ {Max(T)}] \in A /\ z[Max(T)] \in S
    BY <1>1, <2>1
  <2> QED BY <1>2, <1>3, <2>2 DEF Iterates
<1>5. NameVertices(base, z) =
        (CHOOSE g : g = [T \in SUBSET (1..n) |->
           IF T = {} THEN base ELSE NameVertex(g[T \ {Max(T)}], z[Max(T)])])[1..n]
  BY <1>1 DEF NameVertices, FoldLeft, MapThenFoldSet
<1>6. PICK g : /\ g = [T \in SUBSET (1..n) |->
                        IF T = {} THEN base ELSE NameVertex(g[T \ {Max(T)}], z[Max(T)])]
               /\ NameVertices(base, z) = g[1..n]
  BY <1>4, <1>5
<1>7. InTurnTo(A, base, step, z, n, g[1..n])
  <2>1. g[{}] = base
    BY <1>6
  <2>2. ASSUME NEW T \in SUBSET (1..n), T # {}, g[T \ {Max(T)}] \in A
        PROVE  g[T] = step[<<g[T \ {Max(T)}], z[Max(T)]>>]
    <3>1. Max(T) \in 1..n
      BY <1>1, <2>2, MaxIn
    <3>2. g[T] = NameVertex(g[T \ {Max(T)}], z[Max(T)])
      BY <1>6, <2>2
    <3> QED BY <1>1, <1>2, <2>2, <3>1, <3>2
  <2>3. Follows(g, A, base, step, z, n)
    BY <2>1, <2>2 DEF Follows
  <2> QED BY <1>1, <1>2, <2>3, FollowedInTurn
<1>8. PICK p \in [0..n -> A] : InTurn(p, base, step, z, n) /\ p[n] = g[1..n]
  BY <1>7 DEF InTurnTo
<1>9. \A k \in 1..n : p[k] = NameVertex(p[k - 1], z[k])
  <2> TAKE k \in 1..n
  <2>1. p[k - 1] \in A /\ z[k] \in S
    BY <1>1
  <2> QED BY <1>2, <1>8, <2>1 DEF InTurn
<1> QED BY <1>6, <1>8, <1>9 DEF n, InTurn, NameVertexTo

PutFaceTo(A, z) ==
  \E p \in [0..Len(z) -> A] :
    /\ p[0] = <<EmptyPart>> /\ CutFaces(z) = p[Len(z)]
    /\ \A k \in 1..Len(z) : p[k] = PutFace(p[k - 1], z[k])

LEMMA PutFaceInTurn ==
  ASSUME NEW A, NEW S, <<EmptyPart>> \in A, NEW z \in Seq(S), \A a \in A, x \in S : PutFace(a, x) \in A
  PROVE  PutFaceTo(A, z)
<1> DEFINE n == Len(z)
           step == [q \in A \X S |-> PutFace(q[1], q[2])]
<1>1. n \in Nat /\ DOMAIN z = 1..n /\ \A k \in 1..n : z[k] \in S
  OBVIOUS
<1>2. step \in [A \X S -> A] /\ \A a \in A, x \in S : step[<<a, x>>] = PutFace(a, x)
  OBVIOUS
<1> HIDE DEF n, step
<1>3. PICK f \in [SUBSET (1..n) -> A] : Iterates(f, <<EmptyPart>>, step, z, n)
  <2>1. IterateTo(A, <<EmptyPart>>, step, z, n)
    BY <1>1, <1>2, IterateExists
  <2> QED BY <2>1 DEF IterateTo
<1>4. f = [T \in SUBSET (1..n) |-> IF T = {} THEN <<EmptyPart>> ELSE PutFace(f[T \ {Max(T)}], z[Max(T)])]
  <2> SUFFICES ASSUME NEW T \in SUBSET (1..n), T # {}
               PROVE  f[T] = PutFace(f[T \ {Max(T)}], z[Max(T)])
    BY <1>3 DEF Iterates
  <2>1. Max(T) \in 1..n
    BY <1>1, MaxIn
  <2>2. f[T \ {Max(T)}] \in A /\ z[Max(T)] \in S
    BY <1>1, <2>1
  <2> QED BY <1>2, <1>3, <2>2 DEF Iterates
<1>5. CutFaces(z) =
        (CHOOSE g : g = [T \in SUBSET (1..n) |->
           IF T = {} THEN <<EmptyPart>> ELSE PutFace(g[T \ {Max(T)}], z[Max(T)])])[1..n]
  BY <1>1 DEF CutFaces, FoldLeft, MapThenFoldSet
<1>6. PICK g : /\ g = [T \in SUBSET (1..n) |->
                        IF T = {} THEN <<EmptyPart>> ELSE PutFace(g[T \ {Max(T)}], z[Max(T)])]
               /\ CutFaces(z) = g[1..n]
  BY <1>4, <1>5
<1>7. InTurnTo(A, <<EmptyPart>>, step, z, n, g[1..n])
  <2>1. g[{}] = <<EmptyPart>>
    BY <1>6
  <2>2. ASSUME NEW T \in SUBSET (1..n), T # {}, g[T \ {Max(T)}] \in A
        PROVE  g[T] = step[<<g[T \ {Max(T)}], z[Max(T)]>>]
    <3>1. Max(T) \in 1..n
      BY <1>1, <2>2, MaxIn
    <3>2. g[T] = PutFace(g[T \ {Max(T)}], z[Max(T)])
      BY <1>6, <2>2
    <3> QED BY <1>1, <1>2, <2>2, <3>1, <3>2
  <2>3. Follows(g, A, <<EmptyPart>>, step, z, n)
    BY <2>1, <2>2 DEF Follows
  <2> QED BY <1>1, <1>2, <2>3, FollowedInTurn
<1>8. PICK p \in [0..n -> A] : InTurn(p, <<EmptyPart>>, step, z, n) /\ p[n] = g[1..n]
  BY <1>7 DEF InTurnTo
<1>9. \A k \in 1..n : p[k] = PutFace(p[k - 1], z[k])
  <2> TAKE k \in 1..n
  <2>1. p[k - 1] \in A /\ z[k] \in S
    BY <1>1
  <2> QED BY <1>2, <1>8, <2>1 DEF InTurn
<1> QED BY <1>6, <1>8, <1>9 DEF n, InTurn, PutFaceTo

PutPartTo(A, base, z, i) ==
  \E p \in [0..Len(z) -> A] :
    /\ p[0] = base /\ PutParts(base, z, i) = p[Len(z)]
    /\ \A k \in 1..Len(z) : p[k] = PutPart(p[k - 1], z[k], i)

LEMMA PutPartInTurn ==
  ASSUME NEW A, NEW S, NEW i, NEW base \in A, NEW z \in Seq(S), \A a \in A, x \in S : PutPart(a, x, i) \in A
  PROVE  PutPartTo(A, base, z, i)
<1> DEFINE n == Len(z)
           step == [q \in A \X S |-> PutPart(q[1], q[2], i)]
<1>1. n \in Nat /\ DOMAIN z = 1..n /\ \A k \in 1..n : z[k] \in S
  OBVIOUS
<1>2. step \in [A \X S -> A] /\ \A a \in A, x \in S : step[<<a, x>>] = PutPart(a, x, i)
  OBVIOUS
<1> HIDE DEF n, step
<1>3. PICK f \in [SUBSET (1..n) -> A] : Iterates(f, base, step, z, n)
  <2>1. IterateTo(A, base, step, z, n)
    BY <1>1, <1>2, IterateExists
  <2> QED BY <2>1 DEF IterateTo
<1>4. f = [T \in SUBSET (1..n) |-> IF T = {} THEN base ELSE PutPart(f[T \ {Max(T)}], z[Max(T)], i)]
  <2> SUFFICES ASSUME NEW T \in SUBSET (1..n), T # {}
               PROVE  f[T] = PutPart(f[T \ {Max(T)}], z[Max(T)], i)
    BY <1>3 DEF Iterates
  <2>1. Max(T) \in 1..n
    BY <1>1, MaxIn
  <2>2. f[T \ {Max(T)}] \in A /\ z[Max(T)] \in S
    BY <1>1, <2>1
  <2> QED BY <1>2, <1>3, <2>2 DEF Iterates
<1>5. PutParts(base, z, i) =
        (CHOOSE g : g = [T \in SUBSET (1..n) |->
           IF T = {} THEN base ELSE PutPart(g[T \ {Max(T)}], z[Max(T)], i)])[1..n]
  BY <1>1 DEF PutParts, FoldLeft, MapThenFoldSet
<1>6. PICK g : /\ g = [T \in SUBSET (1..n) |->
                        IF T = {} THEN base ELSE PutPart(g[T \ {Max(T)}], z[Max(T)], i)]
               /\ PutParts(base, z, i) = g[1..n]
  BY <1>4, <1>5
<1>7. InTurnTo(A, base, step, z, n, g[1..n])
  <2>1. g[{}] = base
    BY <1>6
  <2>2. ASSUME NEW T \in SUBSET (1..n), T # {}, g[T \ {Max(T)}] \in A
        PROVE  g[T] = step[<<g[T \ {Max(T)}], z[Max(T)]>>]
    <3>1. Max(T) \in 1..n
      BY <1>1, <2>2, MaxIn
    <3>2. g[T] = PutPart(g[T \ {Max(T)}], z[Max(T)], i)
      BY <1>6, <2>2
    <3> QED BY <1>1, <1>2, <2>2, <3>1, <3>2
  <2>3. Follows(g, A, base, step, z, n)
    BY <2>1, <2>2 DEF Follows
  <2> QED BY <1>1, <1>2, <2>3, FollowedInTurn
<1>8. PICK p \in [0..n -> A] : InTurn(p, base, step, z, n) /\ p[n] = g[1..n]
  BY <1>7 DEF InTurnTo
<1>9. \A k \in 1..n : p[k] = PutPart(p[k - 1], z[k], i)
  <2> TAKE k \in 1..n
  <2>1. p[k - 1] \in A /\ z[k] \in S
    BY <1>1
  <2> QED BY <1>2, <1>8, <2>1 DEF InTurn
<1> QED BY <1>6, <1>8, <1>9 DEF n, InTurn, PutPartTo


MappedMesh == [vertices : Nat, faces : Seq(Seq(Nat) \ {<<>>}) \ {<<>>}]

LEMMA PastInTurn ==
  ASSUME NEW z \in Seq(MappedMesh)
  PROVE  \E p \in [0..Len(z) -> Nat] :
           /\ p[0] = 0 /\ VerticesIn(z) = p[Len(z)]
           /\ \A k \in 1..Len(z) : p[k] = p[k - 1] + z[k].vertices
<1> DEFINE n == Len(z)
           A == Nat
           S == MappedMesh
           step == [q \in A \X S |-> q[1] + q[2].vertices]
<1>1. n \in Nat /\ DOMAIN z = 1..n /\ \A k \in 1..n : z[k] \in S
  OBVIOUS
<1>0. 0 \in A /\ \A a \in A, x \in S : a + x.vertices \in A
  BY DEF MappedMesh
<1>2. step \in [A \X S -> A] /\ \A a \in A, x \in S : step[<<a, x>>] = a + x.vertices
  BY <1>0
<1> HIDE DEF n, step, A, S
<1>3. PICK f \in [SUBSET (1..n) -> A] : Iterates(f, 0, step, z, n)
  <2>1. IterateTo(A, 0, step, z, n)
    BY <1>0, <1>1, <1>2, IterateExists
  <2> QED BY <2>1 DEF IterateTo
<1>4. f = [T \in SUBSET (1..n) |-> IF T = {} THEN 0 ELSE f[T \ {Max(T)}] + z[Max(T)].vertices]
  <2> SUFFICES ASSUME NEW T \in SUBSET (1..n), T # {}
               PROVE  f[T] = f[T \ {Max(T)}] + z[Max(T)].vertices
    BY <1>3 DEF Iterates
  <2>1. Max(T) \in 1..n
    BY <1>1, MaxIn
  <2>2. f[T \ {Max(T)}] \in A /\ z[Max(T)] \in S
    BY <1>1, <2>1
  <2> QED BY <1>2, <1>3, <2>2 DEF Iterates
<1>5. VerticesIn(z) =
        (CHOOSE g : g = [T \in SUBSET (1..n) |->
           IF T = {} THEN 0 ELSE g[T \ {Max(T)}] + z[Max(T)].vertices])[1..n]
  BY <1>1 DEF VerticesIn, FoldLeft, MapThenFoldSet
<1>6. PICK g : /\ g = [T \in SUBSET (1..n) |->
                        IF T = {} THEN 0 ELSE g[T \ {Max(T)}] + z[Max(T)].vertices]
               /\ VerticesIn(z) = g[1..n]
  BY <1>4, <1>5
<1>7. InTurnTo(A, 0, step, z, n, g[1..n])
  <2>1. g[{}] = 0
    BY <1>6
  <2>2. ASSUME NEW T \in SUBSET (1..n), T # {}, g[T \ {Max(T)}] \in A
        PROVE  g[T] = step[<<g[T \ {Max(T)}], z[Max(T)]>>]
    <3>1. Max(T) \in 1..n
      BY <1>1, <2>2, MaxIn
    <3>2. g[T] = g[T \ {Max(T)}] + z[Max(T)].vertices
      BY <1>6, <2>2
    <3> QED BY <1>0, <1>1, <1>2, <2>2, <3>1, <3>2
  <2>3. Follows(g, A, 0, step, z, n)
    BY <2>1, <2>2 DEF Follows
  <2> QED BY <1>0, <1>1, <1>2, <2>3, FollowedInTurn
<1>8. PICK p \in [0..n -> A] : InTurn(p, 0, step, z, n) /\ p[n] = g[1..n]
  BY <1>7 DEF InTurnTo
<1>9. \A k \in 1..n : p[k] = p[k - 1] + z[k].vertices
  <2> TAKE k \in 1..n
  <2>1. p[k - 1] \in A /\ z[k] \in S
    BY <1>1
  <2> QED BY <1>2, <1>8, <2>1 DEF InTurn
<1> QED BY <1>6, <1>8, <1>9 DEF n, A, InTurn

LEMMA Chained ==
  ASSUME NEW X, NEW s \in Seq(X), NEW t \in Seq(X)
  PROVE  /\ s \o t \in Seq(X) /\ Len(s \o t) = Len(s) + Len(t)
         /\ Len(s) \in Nat /\ Len(t) \in Nat
         /\ DOMAIN s = 1..Len(s) /\ DOMAIN t = 1..Len(t)
         /\ DOMAIN (s \o t) = 1..(Len(s) + Len(t))
         /\ \A v \in 1..Len(s) : (s \o t)[v] = s[v]
         /\ \A v \in 1..Len(t) : (s \o t)[Len(s) + v] = t[v]
OBVIOUS

LEMMA SameSequence ==
  ASSUME NEW X, NEW s \in Seq(X), NEW t \in Seq(X), Len(s) = Len(t),
         \A v \in 1..Len(s) : s[v] = t[v]
  PROVE  s = t
<1>1. s \in [1..Len(s) -> X] /\ t \in [1..Len(s) -> X]
  OBVIOUS
<1> QED BY <1>1

-----------------------------------------------------------------------------
(* Where the meshes of a supermesh begin.                                  *)

LEMMA OffsetInTurn ==
  ASSUME meshMapping \in Seq(MappedMesh), NEW i \in 1..(Len(meshMapping) + 1)
  PROVE  \E p \in [0..(i - 1) -> Nat] :
           /\ p[0] = 0 /\ VertexOffset(i) = p[i - 1]
           /\ \A k \in 1..(i - 1) : p[k] = p[k - 1] + meshMapping[k].vertices
<1> DEFINE z == SubSeq(meshMapping, 1, i - 1)
<1>1. z \in Seq(MappedMesh) /\ Len(z) = i - 1 /\ \A k \in 1..(i - 1) : z[k] = meshMapping[k]
  OBVIOUS
<1>2. VertexOffset(i) = VerticesIn(z)
  BY DEF VertexOffset
<1> HIDE DEF z
<1>4. PICK p \in [0..Len(z) -> Nat] :
        /\ p[0] = 0 /\ VerticesIn(z) = p[Len(z)]
        /\ \A k \in 1..Len(z) : p[k] = p[k - 1] + z[k].vertices
  BY <1>1, PastInTurn
<1> QED BY <1>1, <1>2, <1>4

LEMMA OffsetsAre ==
  ASSUME meshMapping \in Seq(MappedMesh)
  PROVE  /\ VertexOffset(1) = 0
         /\ \A i \in 1..(Len(meshMapping) + 1) : VertexOffset(i) \in Nat
         /\ \A i \in 1..Len(meshMapping) :
              VertexOffset(i + 1) = VertexOffset(i) + meshMapping[i].vertices
<1> DEFINE N == Len(meshMapping)
<1>1. N \in Nat
  OBVIOUS
<1>2. VertexOffset(1) = 0
  <2>1. 1 \in 1..(N + 1)
    BY <1>1
  <2>2. PICK p \in [0..(1 - 1) -> Nat] : p[0] = 0 /\ VertexOffset(1) = p[1 - 1]
    BY <2>1, OffsetInTurn
  <2> QED BY <2>2
<1>3. ASSUME NEW i \in 1..(N + 1) PROVE VertexOffset(i) \in Nat
  <2>1. PICK p \in [0..(i - 1) -> Nat] : VertexOffset(i) = p[i - 1]
    BY <1>3, OffsetInTurn
  <2> QED BY <1>1, <2>1
<1>4. ASSUME NEW i \in 1..N
      PROVE  VertexOffset(i + 1) = VertexOffset(i) + meshMapping[i].vertices
  <2>1. i \in 1..(N + 1) /\ i + 1 \in 1..(N + 1) /\ (i + 1) - 1 = i
    BY <1>1
  <2>2. PICK p \in [0..(i - 1) -> Nat] :
          /\ p[0] = 0 /\ VertexOffset(i) = p[i - 1]
          /\ \A k \in 1..(i - 1) : p[k] = p[k - 1] + meshMapping[k].vertices
    BY <2>1, OffsetInTurn
  <2>3. PICK q \in [0..i -> Nat] :
          /\ q[0] = 0 /\ VertexOffset(i + 1) = q[i]
          /\ \A k \in 1..i : q[k] = q[k - 1] + meshMapping[k].vertices
    <3>1. \E q \in [0..((i + 1) - 1) -> Nat] :
            /\ q[0] = 0 /\ VertexOffset(i + 1) = q[(i + 1) - 1]
            /\ \A k \in 1..((i + 1) - 1) : q[k] = q[k - 1] + meshMapping[k].vertices
      BY <2>1, OffsetInTurn
    <3> QED BY <2>1, <3>1
  <2> DEFINE K == {k \in 0..(i - 1) : p[k] = q[k]}
  <2>4. 0 \in K
    BY <2>1, <2>2, <2>3
  <2>5. ASSUME NEW k \in 1..(i - 1), k - 1 \in K PROVE k \in K
    BY <2>1, <2>2, <2>3, <2>5
  <2>6. i - 1 \in Nat /\ i - 1 \in 0..(i - 1) /\ i \in 1..i
    BY <1>1
  <2> HIDE DEF K
  <2>7. i - 1 \in K
    BY <2>4, <2>5, <2>6, UpTo
  <2>8. q[i] = q[i - 1] + meshMapping[i].vertices
    BY <2>3, <2>6
  <2> QED BY <2>2, <2>3, <2>7, <2>8 DEF K
<1> QED BY <1>2, <1>3, <1>4

-----------------------------------------------------------------------------
(* What FlattenSeq gives, one sequence after the other.                    *)

LEMMA FlattenInTurn ==
  ASSUME NEW X, NEW z \in Seq(Seq(X))
  PROVE  \E p \in [0..Len(z) -> Seq(X)] :
           /\ p[0] = <<>> /\ FlattenSeq(z) = p[Len(z)]
           /\ \A k \in 1..Len(z) : p[k] = p[k - 1] \o z[k]
<1> DEFINE n == Len(z)
           A == Seq(X)
           step == [q \in A \X A |-> q[1] \o q[2]]
<1>1. n \in Nat /\ DOMAIN z = 1..n /\ \A i \in 1..n : z[i] \in A
  OBVIOUS
<1>2. step \in [A \X A -> A] /\ \A a, x \in A : step[<<a, x>>] = a \o x
  <2>1. \A a, x \in A : a \o x \in A
    BY Chained
  <2> QED BY <2>1
<1>3. <<>> \in A
  OBVIOUS
<1> HIDE DEF n, A, step
<1>4. PICK f \in [SUBSET (1..n) -> A] : Iterates(f, <<>>, step, z, n)
  <2>1. IterateTo(A, <<>>, step, z, n)
    BY <1>1, <1>2, <1>3, IterateExists
  <2> QED BY <2>1 DEF IterateTo
<1>5. PICK p \in [0..n -> A] : InTurn(p, <<>>, step, z, n)
  <2>1. InTurnTo(A, <<>>, step, z, n, f[1..n])
    BY <1>1, <1>2, <1>3, <1>4, IteratesInTurn
  <2> QED BY <2>1 DEF InTurnTo
<1>6. p[0] = <<>> /\ \A k \in 1..n : p[k] = p[k - 1] \o z[k]
  <2>1. ASSUME NEW k \in 1..n PROVE p[k] = p[k - 1] \o z[k]
    <3>1. p[k - 1] \in A /\ z[k] \in A
      BY <1>1
    <3> QED BY <1>2, <1>5, <3>1 DEF InTurn
  <2> QED BY <1>5, <2>1 DEF InTurn
<1>7. FlattenSeq(z) = p[n]
  <2>1. CASE n = 0
    <3>1. z = <<>>
      BY <2>1 DEF n
    <3> QED BY <1>6, <2>1, <3>1 DEF FlattenSeq
  <2>2. CASE n # 0
    <3> DEFINE h == [i \in 1..n |-> p[i]]
               Flattens(g) == g = [i \in 1..n |-> IF i = 1 THEN z[i] ELSE g[i - 1] \o z[i]]
    <3>1. Flattens(h)
      <4>1. ASSUME NEW i \in 1..n PROVE h[i] = IF i = 1 THEN z[i] ELSE h[i - 1] \o z[i]
        <5>1. CASE i = 1
          <6>1. p[1] = <<>> \o z[1]
            <7>1. 1 \in 1..n /\ 1 - 1 = 0
              BY <1>1, <5>1
            <7> QED BY <1>6, <7>1
          <6>2. z[1] \in Seq(X)
            BY <1>1, <5>1 DEF A
          <6>3. <<>> \o z[1] = z[1]
            BY <6>2
          <6> QED BY <5>1, <6>1, <6>3
        <5>2. CASE i # 1
          <6>1. i - 1 \in 1..n /\ i \in 1..n
            BY <1>1, <5>2
          <6> QED BY <1>6, <5>2, <6>1
        <5> QED BY <5>1, <5>2
      <4> QED BY <4>1
    <3>2. FlattenSeq(z) = (CHOOSE g : Flattens(g))[n]
      BY <2>2 DEF FlattenSeq, n
    <3> HIDE DEF h
    <3>3. PICK g : Flattens(g) /\ FlattenSeq(z) = g[n]
      BY <3>1, <3>2
    <3> DEFINE K == {k \in 0..n : k > 0 => g[k] = p[k]}
    <3>4. 0 \in K
      BY <1>1
    <3>5. ASSUME NEW k \in 1..n, k - 1 \in K PROVE k \in K
      <4>1. k \in 0..n /\ k - 1 \in 0..n
        BY <1>1
      <4>2. CASE k = 1
        <5>1. p[1] = <<>> \o z[1] /\ z[1] \in Seq(X)
          <6>1. 1 \in 1..n /\ 1 - 1 = 0
            BY <1>1, <4>2
          <6>2. z[1] \in A
            BY <1>1, <6>1
          <6> QED BY <1>6, <6>1, <6>2 DEF A
        <5>2. p[1] = z[1]
          BY <5>1
        <5>3. g[1] = z[1]
          BY <3>3, <4>2
        <5> QED BY <4>1, <4>2, <5>2, <5>3
      <4>3. CASE k # 1
        <5>1. k - 1 > 0
          BY <1>1, <4>3
        <5>2. g[k - 1] = p[k - 1]
          BY <3>5, <5>1
        <5>3. g[k] = g[k - 1] \o z[k]
          BY <3>3, <4>3
        <5> QED BY <1>6, <4>1, <5>2, <5>3
      <4> QED BY <4>2, <4>3
    <3> HIDE DEF K
    <3>6. n \in K
      <4>1. \A k \in 0..n : k \in K
        BY <1>1, <3>4, <3>5, UpTo
      <4> QED BY <1>1, <4>1
    <3> QED BY <1>1, <2>2, <3>3, <3>6 DEF K
  <2> QED BY <2>1, <2>2
<1> QED BY <1>5, <1>6, <1>7 DEF n, A

LEMMA FlattenNothing == FlattenSeq(<<>>) = <<>>
BY DEF FlattenSeq

LEMMA FlattenMore ==
  ASSUME NEW X, NEW z \in Seq(Seq(X)), NEW x \in Seq(X)
  PROVE  /\ FlattenSeq(z) \in Seq(X)
         /\ FlattenSeq(Append(z, x)) = FlattenSeq(z) \o x
<1> DEFINE y == Append(z, x)
           n == Len(z)
<1>1. /\ n \in Nat /\ y \in Seq(Seq(X)) /\ Len(y) = n + 1
      /\ y[n + 1] = x /\ \A k \in 1..n : y[k] = z[k]
  OBVIOUS
<1>2. PICK p \in [0..n -> Seq(X)] :
        /\ p[0] = <<>> /\ FlattenSeq(z) = p[n]
        /\ \A k \in 1..n : p[k] = p[k - 1] \o z[k]
  BY FlattenInTurn
<1> HIDE DEF y, n
<1>3. PICK q \in [0..(n + 1) -> Seq(X)] :
        /\ q[0] = <<>> /\ FlattenSeq(y) = q[n + 1]
        /\ \A k \in 1..(n + 1) : q[k] = q[k - 1] \o y[k]
  <2>1. \E q \in [0..Len(y) -> Seq(X)] :
          /\ q[0] = <<>> /\ FlattenSeq(y) = q[Len(y)]
          /\ \A k \in 1..Len(y) : q[k] = q[k - 1] \o y[k]
    BY <1>1, FlattenInTurn
  <2> QED BY <1>1, <2>1
<1> DEFINE K == {k \in 0..n : p[k] = q[k]}
<1>4. 0 \in K
  BY <1>1, <1>2, <1>3
<1>5. ASSUME NEW k \in 1..n, k - 1 \in K PROVE k \in K
  <2>1. k \in 1..(n + 1) /\ k \in 0..n
    BY <1>1
  <2> QED BY <1>1, <1>2, <1>3, <1>5, <2>1
<1> HIDE DEF K
<1>6. n \in K
  <2>1. \A k \in 0..n : k \in K
    BY <1>1, <1>4, <1>5, UpTo
  <2> QED BY <1>1, <2>1
<1>7. q[n + 1] = q[n] \o x
  <2>1. n + 1 \in 1..(n + 1) /\ (n + 1) - 1 = n
    BY <1>1
  <2> QED BY <1>1, <1>3, <2>1
<1>8. p[n] = q[n] /\ p[n] \in Seq(X)
  BY <1>1, <1>6 DEF K
<1> QED BY <1>2, <1>3, <1>7, <1>8 DEF y

-----------------------------------------------------------------------------
(* A mesh that is cut at its faces.                                        *)

Part == [vertices : Seq(Nat), faces : Seq(Seq(Nat))]

\* The faces of a part, with the vertices that their indices stand for.
PartFaces(part) ==
  [q \in 1..Len(part.faces) |->
     [k \in 1..Len(part.faces[q]) |-> part.vertices[part.faces[q][k] + 1]]]

PartFits(part) ==
  /\ part \in Part
  /\ Len(part.vertices) <= MaxChunkVertices /\ Len(part.faces) <= MaxChunkFaces
  /\ \A q \in 1..Len(part.faces) : \A k \in 1..Len(part.faces[q]) :
       part.faces[q][k] < Len(part.vertices)

PartOK(part) == PartFits(part) /\ part.vertices # <<>> /\ part.faces # <<>>

\* What parts show, one after the other.
PartsFaces(parts) == FlattenSeq([n \in 1..Len(parts) |-> PartFaces(parts[n])])

LEMMA PartFacesType ==
  ASSUME NEW part, PartFits(part)
  PROVE  PartFaces(part) \in Seq(Seq(Nat)) /\ Len(PartFaces(part)) = Len(part.faces)
<1>1. part.vertices \in Seq(Nat) /\ part.faces \in Seq(Seq(Nat))
  BY DEF PartFits, Part
<1>2. Len(part.faces) \in Nat /\ Len(part.vertices) \in Nat
  BY <1>1
<1>3. ASSUME NEW q \in 1..Len(part.faces)
      PROVE  [k \in 1..Len(part.faces[q]) |-> part.vertices[part.faces[q][k] + 1]] \in Seq(Nat)
  <2>1. part.faces[q] \in Seq(Nat) /\ Len(part.faces[q]) \in Nat
    BY <1>1
  <2>2. ASSUME NEW k \in 1..Len(part.faces[q]) PROVE part.vertices[part.faces[q][k] + 1] \in Nat
    <3>1. part.faces[q][k] \in Nat /\ part.faces[q][k] < Len(part.vertices)
      BY <2>1 DEF PartFits
    <3> DEFINE x == part.faces[q][k]
    <3>2. x \in Nat /\ x < Len(part.vertices)
      BY <3>1
    <3> HIDE DEF x
    <3>3. x + 1 \in 1..Len(part.vertices)
      BY <1>2, <3>2
    <3>4. part.vertices[x + 1] \in Nat
      BY <1>1, <3>3, ElementOfSeq
    <3> QED BY <3>4 DEF x
  <2> QED BY <2>1, <2>2
<1> QED BY <1>2, <1>3 DEF PartFaces

\* The vertices that were named stay where they are, and those of the face are named.
Naming(vs, face, used) ==
  /\ used \in Seq(Nat)
  /\ Len(used) \in Nat /\ Len(vs) \in Nat /\ Len(face) \in Nat
  /\ Len(vs) <= Len(used) /\ Len(used) <= Len(vs) + Len(face)
  /\ \A v \in 1..Len(vs) : used[v] = vs[v]
  /\ \A k \in 1..Len(face) : \E v \in 1..Len(used) : used[v] = face[k]

LEMMA NamedVertices ==
  ASSUME NEW vs \in Seq(Nat), NEW face \in Seq(Nat), NEW used, used = NameVertices(vs, face)
  PROVE  Naming(vs, face, used)
<1>1. ASSUME NEW a \in Seq(Nat), NEW x \in Nat
      PROVE  /\ NameVertex(a, x) \in Seq(Nat) /\ Len(a) \in Nat
             /\ Len(a) <= Len(NameVertex(a, x)) /\ Len(NameVertex(a, x)) <= Len(a) + 1
             /\ \A v \in 1..Len(a) : NameVertex(a, x)[v] = a[v]
             /\ \E v \in 1..Len(NameVertex(a, x)) : NameVertex(a, x)[v] = x
  <2>1. CASE x \in ToSet(a)
    <3>1. NameVertex(a, x) = a
      BY <2>1 DEF NameVertex
    <3>2. PICK v \in DOMAIN a : a[v] = x
      BY <2>1 DEF ToSet
    <3>3. DOMAIN a = 1..Len(a) /\ Len(a) \in Nat
      OBVIOUS
    <3> QED BY <3>1, <3>2, <3>3
  <2>2. CASE x \notin ToSet(a)
    <3>1. NameVertex(a, x) = Append(a, x)
      BY <2>2 DEF NameVertex
    <3>2. Len(Append(a, x)) = Len(a) + 1 /\ Append(a, x)[Len(a) + 1] = x
      OBVIOUS
    <3>3. Len(a) + 1 \in 1..(Len(a) + 1)
      OBVIOUS
    <3> QED BY <3>1, <3>2, <3>3
  <2> QED BY <2>1, <2>2
<1>2. PICK p \in [0..Len(face) -> Seq(Nat)] :
        /\ p[0] = vs /\ NameVertices(vs, face) = p[Len(face)]
        /\ \A k \in 1..Len(face) : p[k] = NameVertex(p[k - 1], face[k])
  <2>1. \A a \in Seq(Nat), x \in Nat : NameVertex(a, x) \in Seq(Nat)
    BY <1>1
  <2>2. NameVertexTo(Seq(Nat), vs, face)
    BY <2>1, NameVertexInTurn
  <2> QED BY <2>2 DEF NameVertexTo
<1> DEFINE Keeps(a, k) ==
             /\ Len(vs) <= Len(a) /\ Len(a) <= Len(vs) + k
             /\ \A v \in 1..Len(vs) : a[v] = vs[v]
             /\ \A j \in 1..k : \E v \in 1..Len(a) : a[v] = face[j]
           K == {k \in 0..Len(face) : Keeps(p[k], k)}
<1>3. Len(face) \in Nat /\ Len(vs) \in Nat /\ \A k \in 1..Len(face) : face[k] \in Nat
  OBVIOUS
<1>4. 0 \in K
  BY <1>2, <1>3
<1>5. ASSUME NEW k \in 1..Len(face), k - 1 \in K PROVE k \in K
  <2> DEFINE a == p[k - 1]
             b == p[k]
  <2>1. k \in 0..Len(face) /\ k - 1 \in 0..Len(face) /\ k \in Nat /\ k - 1 \in Nat
    BY <1>3
  <2>2. a \in Seq(Nat) /\ b = NameVertex(a, face[k]) /\ face[k] \in Nat /\ Keeps(a, k - 1)
    BY <1>2, <1>3, <1>5, <2>1
  <2>3. /\ Len(a) \in Nat /\ Len(b) \in Nat /\ Len(a) <= Len(b) /\ Len(b) <= Len(a) + 1
        /\ \A v \in 1..Len(a) : b[v] = a[v]
        /\ \E v \in 1..Len(b) : b[v] = face[k]
    <3>1. b \in Seq(Nat)
      BY <1>1, <2>2
    <3>2. Len(b) \in Nat
      BY <3>1
    <3> HIDE DEF a, b, Keeps
    <3> QED BY <1>1, <2>2, <3>2
  <2> HIDE DEF a, b
  <2>4. Len(vs) <= Len(b) /\ Len(b) <= Len(vs) + k
    BY <1>3, <2>1, <2>2, <2>3
  <2>5. ASSUME NEW v \in 1..Len(vs) PROVE b[v] = vs[v]
    <3>1. v \in 1..Len(a) /\ a[v] = vs[v]
      BY <1>3, <2>2, <2>3
    <3> QED BY <2>3, <3>1
  <2>6. ASSUME NEW j \in 1..k PROVE \E v \in 1..Len(b) : b[v] = face[j]
    <3>1. CASE j = k
      BY <2>3, <3>1
    <3>2. CASE j # k
      <4>1. j \in 1..(k - 1)
        BY <2>1, <3>2
      <4>2. PICK v \in 1..Len(a) : a[v] = face[j]
        BY <2>2, <4>1
      <4>3. v \in 1..Len(b) /\ b[v] = face[j]
        BY SMTT(30), <2>3, <4>2
      <4> QED BY <4>3
    <3> QED BY <3>1, <3>2
  <2> QED BY <2>1, <2>4, <2>5, <2>6 DEF b
<1> HIDE DEF K
<1>6. \A k \in 0..Len(face) : k \in K
  BY <1>3, <1>4, <1>5, UpTo
<1>7. Len(face) \in K
  BY <1>3, <1>6
<1>8. used = p[Len(face)] /\ used \in Seq(Nat)
  BY <1>2, <1>3
<1> QED BY <1>3, <1>7, <1>8 DEF K, Naming

LEMMA PlaceIs ==
  ASSUME NEW vs \in Seq(Nat), NEW v, \E u \in 1..Len(vs) : vs[u] = v
  PROVE  PlaceOf(v, vs) \in 1..Len(vs) /\ vs[PlaceOf(v, vs)] = v
<1> DEFINE I == {u \in 1..Len(vs) : vs[u] = v}
<1>1. I # {} /\ I \subseteq Nat
  OBVIOUS
<1>2. \E u \in I : \A w \in I : u <= w
  BY <1>1, LeastNat
<1>3. PlaceOf(v, vs) = Min(I)
  BY <1>1 DEF PlaceOf, SelectInSeq
<1> HIDE DEF I
<1>4. Min(I) \in I
  BY <1>2 DEF Min
<1> QED BY <1>3, <1>4 DEF I

LEMMA EmptyPartIs ==
  PartFits(EmptyPart) /\ PartFaces(EmptyPart) = <<>>
<1>1. EmptyPart.vertices = <<>> /\ EmptyPart.faces = <<>> /\ EmptyPart \in Part
  BY DEF EmptyPart, Part
<1>2. Len(<<>>) = 0 /\ 1..0 = {}
  OBVIOUS
<1>3. PartFaces(EmptyPart) = <<>>
  BY <1>1, <1>2 DEF PartFaces
<1>4. 0 <= MaxChunkVertices /\ 0 <= MaxChunkFaces
  BY ChunkAssumption
<1> QED BY <1>1, <1>2, <1>3, <1>4 DEF PartFits

\* A part with one more face shows that as well.
LEMMA AddFaceShows ==
  ASSUME NEW part, PartFits(part), NEW face \in Seq(Nat) \ {<<>>},
         Len(part.vertices) + Len(face) <= MaxChunkVertices, Len(part.faces) < MaxChunkFaces
  PROVE  /\ PartOK(AddFace(part, face))
         /\ PartFaces(AddFace(part, face)) = PartFaces(part) \o <<face>>
<1> DEFINE used == NameVertices(part.vertices, face)
           local == [k \in DOMAIN face |-> PlaceOf(face[k], used) - 1]
           new == AddFace(part, face)
           n == Len(part.faces)
<1>1. /\ part.vertices \in Seq(Nat) /\ part.faces \in Seq(Seq(Nat)) /\ n \in Nat
      /\ face \in Seq(Nat) /\ Len(face) \in Nat \ {0} /\ DOMAIN face = 1..Len(face)
      /\ MaxChunkVertices \in Nat /\ MaxChunkFaces \in Nat
  BY ChunkAssumption DEF PartFits, Part
<1>2. new = [vertices |-> used, faces |-> Append(part.faces, local)]
  BY DEF AddFace
<1> HIDE DEF new, used, n
<1>3. /\ used \in Seq(Nat)
      /\ Len(used) \in Nat /\ Len(part.vertices) \in Nat
      /\ Len(part.vertices) <= Len(used) /\ Len(used) <= Len(part.vertices) + Len(face)
      /\ \A v \in 1..Len(part.vertices) : used[v] = part.vertices[v]
      /\ \A k \in 1..Len(face) : \E v \in 1..Len(used) : used[v] = face[k]
  <2>1. used = NameVertices(part.vertices, face)
    BY DEF used
  <2>2. Naming(part.vertices, face, used)
    BY <1>1, <2>1, NamedVertices
  <2> QED BY <2>2 DEF Naming
<1>4. ASSUME NEW k \in 1..Len(face)
      PROVE  /\ local[k] \in Nat /\ local[k] < Len(used) /\ used[local[k] + 1] = face[k]
  <2> DEFINE x == PlaceOf(face[k], used)
  <2>1. x \in 1..Len(used) /\ used[x] = face[k]
    BY <1>3, PlaceIs
  <2>2. local[k] = x - 1
    BY <1>1
  <2> HIDE DEF x, local
  <2>3. (x - 1) + 1 = x /\ x - 1 \in Nat /\ x - 1 < Len(used)
    BY <1>3, <2>1
  <2> QED BY <2>1, <2>2, <2>3
<1>5. local \in Seq(Nat) /\ Len(local) = Len(face)
  <2>1. local = [k \in 1..Len(face) |-> PlaceOf(face[k], used) - 1]
    BY <1>1
  <2>2. \A k \in 1..Len(face) : PlaceOf(face[k], used) - 1 \in Nat
    BY <1>1, <1>4
  <2> QED BY <1>1, <2>1, <2>2
<1> HIDE DEF local
<1>6. /\ new.vertices = used /\ new.faces \in Seq(Seq(Nat)) /\ Len(new.faces) = n + 1
      /\ new.faces[n + 1] = local /\ \A q \in 1..n : new.faces[q] = part.faces[q]
      /\ new \in Part
  BY <1>1, <1>2, <1>3, <1>5 DEF n, Part
<1>7. ASSUME NEW q \in 1..n, NEW k \in 1..Len(part.faces[q])
      PROVE  /\ part.faces[q][k] < Len(used)
             /\ used[part.faces[q][k] + 1] = part.vertices[part.faces[q][k] + 1]
  <2> DEFINE x == part.faces[q][k]
  <2>1. part.faces[q] \in Seq(Nat)
    BY <1>1 DEF n
  <2>2. x \in Nat /\ x < Len(part.vertices)
    BY SMTT(30), <2>1 DEF PartFits, n
  <2> HIDE DEF x
  <2>3. x + 1 \in 1..Len(part.vertices) /\ x < Len(used)
    BY SMTT(30), <1>3, <2>2
  <2>4. used[x + 1] = part.vertices[x + 1]
    BY <1>3, <2>3
  <2> QED BY <2>3, <2>4 DEF x
<1>8. PartFits(new)
  <2>1. Len(used) <= MaxChunkVertices /\ n + 1 <= MaxChunkFaces
    BY <1>1, <1>3 DEF n
  <2>2. ASSUME NEW q \in 1..(n + 1), NEW k \in 1..Len(new.faces[q])
        PROVE  new.faces[q][k] < Len(used)
    <3>1. CASE q = n + 1
      BY <1>4, <1>5, <1>6, <3>1
    <3>2. CASE q # n + 1
      <4>1. q \in 1..n
        BY <1>1, <3>2
      <4> QED BY <1>6, <1>7, <4>1
    <3> QED BY <3>1, <3>2
  <2> QED BY <1>6, <2>1, <2>2 DEF PartFits
<1>9. PartOK(new)
  <2>1. used # <<>>
    <3>1. 1 \in 1..Len(face)
      BY <1>1
    <3>2. PICK v \in 1..Len(used) : TRUE
      BY <1>3, <3>1
    <3> QED BY <1>3, <3>2
  <2>2. new.faces # <<>>
    BY <1>1, <1>6
  <2> QED BY <1>6, <1>8, <2>1, <2>2 DEF PartOK
<1>10. PartFaces(new) = PartFaces(part) \o <<face>>
  <2>1. /\ PartFaces(new) \in Seq(Seq(Nat)) /\ Len(PartFaces(new)) = n + 1
        /\ PartFaces(part) \in Seq(Seq(Nat)) /\ Len(PartFaces(part)) = n
    BY <1>6, <1>8, PartFacesType DEF n
  <2>2. /\ PartFaces(part) \o <<face>> \in Seq(Seq(Nat))
        /\ Len(PartFaces(part) \o <<face>>) = n + 1
        /\ \A q \in 1..n : (PartFaces(part) \o <<face>>)[q] = PartFaces(part)[q]
        /\ (PartFaces(part) \o <<face>>)[n + 1] = face
    BY SMTT(30), <1>1, <2>1
  <2>3. ASSUME NEW q \in 1..(n + 1) PROVE PartFaces(new)[q] = (PartFaces(part) \o <<face>>)[q]
    <3>1. PartFaces(new)[q] = [k \in 1..Len(new.faces[q]) |-> used[new.faces[q][k] + 1]]
      BY <1>6, <2>3 DEF PartFaces
    <3>2. CASE q = n + 1
      <4>1. PartFaces(new)[q] = [k \in 1..Len(face) |-> face[k]]
        BY <1>4, <1>5, <1>6, <3>1, <3>2
      <4>2. face = [k \in 1..Len(face) |-> face[k]]
        BY <1>1
      <4> QED BY <2>2, <3>2, <4>1, <4>2
    <3>3. CASE q # n + 1
      <4>1. q \in 1..n
        BY <1>1, <3>3
      <4>2. PartFaces(part)[q] =
              [k \in 1..Len(part.faces[q]) |-> part.vertices[part.faces[q][k] + 1]]
        BY <4>1 DEF PartFaces, n
      <4>3. PartFaces(new)[q] =
              [k \in 1..Len(part.faces[q]) |-> part.vertices[part.faces[q][k] + 1]]
        <5>1. new.faces[q] = part.faces[q]
          BY <1>6, <4>1
        <5>2. [k \in 1..Len(part.faces[q]) |-> used[part.faces[q][k] + 1]]
                = [k \in 1..Len(part.faces[q]) |-> part.vertices[part.faces[q][k] + 1]]
          BY <1>7, <4>1
        <5> QED BY <3>1, <5>1, <5>2
      <4> QED BY <2>2, <4>1, <4>2, <4>3
    <3> QED BY <3>2, <3>3
  <2> HIDE DEF PartFaces
  <2> QED BY <2>1, <2>2, <2>3, SameSequence
<1> QED BY <1>9, <1>10 DEF new

LEMMA FrontAndLast ==
  ASSUME NEW X, NEW s \in Seq(X), s # <<>>
  PROVE  /\ Len(s) \in Nat \ {0} /\ Front(s) \in Seq(X) /\ Last(s) \in X
         /\ Len(Front(s)) = Len(s) - 1 /\ Last(s) = s[Len(s)]
         /\ \A n \in 1..(Len(s) - 1) : Front(s)[n] = s[n]
         /\ s = Append(Front(s), Last(s))
<1>1. /\ Len(s) \in Nat \ {0} /\ Front(s) \in Seq(X) /\ Last(s) \in X
      /\ Len(Front(s)) = Len(s) - 1 /\ Last(s) = s[Len(s)]
      /\ \A n \in 1..(Len(s) - 1) : Front(s)[n] = s[n]
  <2>1. Len(s) \in Nat \ {0} /\ Last(s) = s[Len(s)] /\ Front(s) = SubSeq(s, 1, Len(s) - 1)
    BY DEF Front, Last
  <2>2. s[Len(s)] \in X
    BY <2>1, ElementOfSeq
  <2>3. /\ SubSeq(s, 1, Len(s) - 1) \in Seq(X) /\ Len(SubSeq(s, 1, Len(s) - 1)) = Len(s) - 1
        /\ \A n \in 1..(Len(s) - 1) : SubSeq(s, 1, Len(s) - 1)[n] = s[n]
    <3> DEFINE m == Len(s) - 1
    <3>1. m \in 0..Len(s) /\ m \in Nat
      BY <2>1
    <3> HIDE DEF m
    <3>2. /\ SubSeq(s, 1, m) \in Seq(X) /\ Len(SubSeq(s, 1, m)) = m
          /\ \A n \in 1..m : SubSeq(s, 1, m)[n] = s[n]
      BY <3>1, SubSeqProperties
    <3> QED BY <3>2 DEF m
  <2> QED BY <2>1, <2>2, <2>3
<1> DEFINE t == Append(Front(s), Last(s))
<1>2. t \in Seq(X) /\ Len(t) = Len(s)
  BY <1>1
<1>3. ASSUME NEW n \in 1..Len(s) PROVE s[n] = t[n]
  <2>1. CASE n = Len(s)
    BY <1>1, <2>1
  <2>2. CASE n # Len(s)
    <3>1. n \in 1..(Len(s) - 1)
      BY <1>1, <2>2
    <3> QED BY <1>1, <3>1
  <2> QED BY <2>1, <2>2
<1> HIDE DEF t
<1>4. s = t
  BY <1>2, <1>3, SameSequence
<1> QED BY <1>1, <1>4 DEF t

LEMMA Appended ==
  ASSUME NEW X, NEW s \in Seq(X), NEW x \in X
  PROVE  /\ Append(s, x) \in Seq(X) \ {<<>>} /\ Len(Append(s, x)) = Len(s) + 1
         /\ Len(s) \in Nat /\ Front(Append(s, x)) = s /\ Last(Append(s, x)) = x
         /\ Append(s, x)[Len(s) + 1] = x /\ \A n \in 1..Len(s) : Append(s, x)[n] = s[n]
<1> DEFINE t == Append(s, x)
<1>1. /\ t \in Seq(X) \ {<<>>} /\ Len(t) = Len(s) + 1
      /\ Len(s) \in Nat /\ t[Len(s) + 1] = x /\ \A n \in 1..Len(s) : t[n] = s[n]
  OBVIOUS
<1> HIDE DEF t
<1>2. /\ Front(t) \in Seq(X) /\ Last(t) = t[Len(t)] /\ Len(Front(t)) = Len(t) - 1
      /\ \A n \in 1..(Len(t) - 1) : Front(t)[n] = t[n]
  BY <1>1, FrontAndLast
<1>3. Len(t) - 1 = Len(s)
  BY <1>1
<1>4. Front(t) = s
  BY <1>1, <1>2, <1>3, SameSequence
<1> QED BY <1>1, <1>2, <1>4 DEF t

LEMMA ChainedLonger ==
  ASSUME NEW X, NEW s \in Seq(X), NEW t \in Seq(X), NEW x \in X
  PROVE  s \o (t \o <<x>>) = Append(s \o t, x) /\ Append(s, x) = s \o <<x>>
OBVIOUS

\* Parts that are full or whole, the last with room perhaps, or not begun.
PartsOK(parts) ==
  /\ parts \in Seq(Part) \ {<<>>}
  /\ \A n \in 1..(Len(parts) - 1) : PartOK(parts[n])
  /\ Last(parts) # EmptyPart => PartOK(Last(parts))

AllFit(parts) == parts \in Seq(Part) /\ \A n \in 1..Len(parts) : PartFits(parts[n])

ShowMore(parts, part) ==
  /\ PartsFaces(parts) \in Seq(Seq(Nat))
  /\ PartsFaces(Append(parts, part)) = PartsFaces(parts) \o PartFaces(part)

LEMMA PartsTogether ==
  ASSUME NEW parts, AllFit(parts), NEW part, PartFits(part)
  PROVE  ShowMore(parts, part)
<1> DEFINE z == [n \in 1..Len(parts) |-> PartFaces(parts[n])]
           y == [n \in 1..Len(Append(parts, part)) |-> PartFaces(Append(parts, part)[n])]
           x == PartFaces(part)
<1>1. part \in Part /\ parts \in Seq(Part) /\ \A n \in 1..Len(parts) : PartFits(parts[n])
  BY DEF PartFits, AllFit
<1>2. x \in Seq(Seq(Nat)) /\ \A n \in 1..Len(parts) : PartFaces(parts[n]) \in Seq(Seq(Nat))
  BY <1>1, PartFacesType
<1>3. z \in Seq(Seq(Seq(Nat))) /\ Len(z) = Len(parts) /\ Len(parts) \in Nat
  BY <1>1, <1>2
<1>4. /\ Len(Append(parts, part)) = Len(parts) + 1
      /\ \A n \in 1..Len(parts) : Append(parts, part)[n] = parts[n]
      /\ Append(parts, part)[Len(parts) + 1] = part
  BY <1>1
<1>5. /\ y \in Seq(Seq(Seq(Nat))) /\ Len(y) = Len(parts) + 1
      /\ \A n \in 1..Len(parts) : y[n] = z[n]
      /\ y[Len(parts) + 1] = x
  <2>1. \A n \in 1..(Len(parts) + 1) : PartFaces(Append(parts, part)[n]) \in Seq(Seq(Nat))
    <3> TAKE n \in 1..(Len(parts) + 1)
    <3>1. CASE n = Len(parts) + 1
      BY <1>2, <1>4, <3>1
    <3>2. CASE n # Len(parts) + 1
      <4>1. n \in 1..Len(parts)
        BY <1>3, <3>2
      <4> QED BY <1>2, <1>4, <4>1
    <3> QED BY <3>1, <3>2
  <2>2. \A n \in 1..Len(parts) : n \in 1..(Len(parts) + 1)
    BY <1>3
  <2>3. Len(parts) + 1 \in 1..(Len(parts) + 1)
    BY <1>3
  <2> HIDE DEF x
  <2> QED BY <1>3, <1>4, <2>1, <2>2, <2>3 DEF x
<1> HIDE DEF x
<1>0. PartsFaces(parts) = FlattenSeq(z) /\ PartsFaces(Append(parts, part)) = FlattenSeq(y)
  BY DEF PartsFaces
<1> HIDE DEF y, z
<1>6. y = Append(z, x)
  <2>1. /\ Append(z, x) \in Seq(Seq(Seq(Nat))) /\ Len(Append(z, x)) = Len(z) + 1
        /\ \A n \in 1..Len(z) : Append(z, x)[n] = z[n]
        /\ Append(z, x)[Len(z) + 1] = x
    BY <1>2, <1>3
  <2>2. ASSUME NEW n \in 1..Len(y) PROVE y[n] = Append(z, x)[n]
    <3>1. CASE n = Len(parts) + 1
      BY <1>3, <1>5, <2>1, <3>1
    <3>2. CASE n # Len(parts) + 1
      <4>1. n \in 1..Len(parts)
        BY <1>3, <1>5, <3>2
      <4> QED BY <1>3, <1>5, <2>1, <4>1
    <3> QED BY <3>1, <3>2
  <2> QED BY <1>3, <1>5, <2>1, <2>2, SameSequence
<1>7. FlattenSeq(z) \in Seq(Seq(Nat)) /\ FlattenSeq(Append(z, x)) = FlattenSeq(z) \o x
  BY <1>2, <1>3, FlattenMore
<1> QED BY <1>0, <1>6, <1>7 DEF x, ShowMore

LEMMA PutFaceShows ==
  ASSUME NEW parts, PartsOK(parts), NEW face \in Seq(Nat) \ {<<>>}, Len(face) <= MaxChunkVertices
  PROVE  /\ PartsOK(PutFace(parts, face))
         /\ Last(PutFace(parts, face)) # EmptyPart
         /\ PartsFaces(PutFace(parts, face)) = Append(PartsFaces(parts), face)
<1> DEFINE part == Last(parts)
           full == \/ Len(part.vertices) + Len(face) > MaxChunkVertices
                   \/ Len(part.faces) >= MaxChunkFaces
<1>1. /\ parts \in Seq(Part) \ {<<>>} /\ \A n \in 1..(Len(parts) - 1) : PartOK(parts[n])
      /\ part # EmptyPart => PartOK(part)
  BY DEF PartsOK
<1>2. /\ Front(parts) \in Seq(Part) /\ Len(Front(parts)) = Len(parts) - 1 /\ part = parts[Len(parts)]
      /\ Len(parts) \in Nat \ {0} /\ \A n \in 1..(Len(parts) - 1) : Front(parts)[n] = parts[n]
      /\ parts = Append(Front(parts), part)
  BY <1>1, FrontAndLast
<1>3. PartFits(part)
  BY <1>1, EmptyPartIs DEF PartOK
<1>4. \A n \in 1..Len(Front(parts)) : PartOK(Front(parts)[n]) /\ PartFits(Front(parts)[n])
  BY <1>1, <1>2 DEF PartOK
<1>5. PutFace(parts, face) = IF full THEN Append(parts, AddFace(EmptyPart, face))
                             ELSE Append(Front(parts), AddFace(part, face))
  BY DEF PutFace
<1>6. Len(face) \in Nat \ {0} /\ MaxChunkVertices \in Nat /\ MaxChunkFaces \in Nat \ {0}
      /\ EmptyPart.vertices = <<>> /\ EmptyPart.faces = <<>> /\ Len(<<>>) = 0
  BY ChunkAssumption DEF EmptyPart
<1>7. part.vertices \in Seq(Nat) /\ part.faces \in Seq(Seq(Nat))
  BY <1>3 DEF PartFits, Part
<1>8. Len(part.vertices) \in Nat /\ Len(part.faces) \in Nat
  BY <1>7
<1>9. ASSUME NEW q, PartOK(q) PROVE q # EmptyPart /\ q \in Part /\ PartFits(q)
  BY <1>6, <1>9 DEF PartOK, PartFits
<1> HIDE DEF part
<1>10. /\ PartsFaces(Front(parts)) \in Seq(Seq(Nat))
       /\ PartsFaces(parts) = PartsFaces(Front(parts)) \o PartFaces(part)
  <2>1. AllFit(Front(parts))
    BY <1>2, <1>4 DEF AllFit
  <2>2. ShowMore(Front(parts), part)
    BY <1>3, <2>1, PartsTogether
  <2> QED BY <1>2, <2>2 DEF ShowMore
<1>11. PartFaces(part) \in Seq(Seq(Nat))
  BY <1>3, PartFacesType
<1>12. CASE full
  <2> DEFINE new == AddFace(EmptyPart, face)
  <2>1. PartOK(new) /\ PartFaces(new) = PartFaces(EmptyPart) \o <<face>>
    <3>1. PartFits(EmptyPart) /\ Len(EmptyPart.vertices) = 0 /\ Len(EmptyPart.faces) = 0
      BY <1>6, EmptyPartIs
    <3>2. 0 + Len(face) <= MaxChunkVertices /\ 0 < MaxChunkFaces
      BY <1>6
    <3> QED BY <3>1, <3>2, AddFaceShows
  <2>2. PutFace(parts, face) = Append(parts, new)
    BY <1>5, <1>12
  <2> HIDE DEF new
  <2>3. PartFaces(EmptyPart) \o <<face>> = <<face>>
    BY EmptyPartIs
  <2>4. part # EmptyPart
    BY <1>6, <1>12
  <2>5. \A n \in 1..Len(parts) : PartOK(parts[n]) /\ PartFits(parts[n])
    <3> TAKE n \in 1..Len(parts)
    <3>1. CASE n = Len(parts)
      BY <1>1, <1>2, <1>3, <2>4, <3>1
    <3>2. CASE n # Len(parts)
      <4>1. n \in 1..(Len(parts) - 1)
        BY <1>2, <3>2
      <4> QED BY <1>1, <1>9, <4>1
    <3> QED BY <3>1, <3>2
  <2>6. new \in Part /\ new # EmptyPart /\ PartFits(new)
    BY <1>9, <2>1
  <2>7. /\ PartsFaces(parts) \in Seq(Seq(Nat))
        /\ PartsFaces(Append(parts, new)) = PartsFaces(parts) \o PartFaces(new)
    <3>1. AllFit(parts)
      BY <1>1, <2>5 DEF AllFit
    <3>2. ShowMore(parts, new)
      BY <2>6, <3>1, PartsTogether
    <3> QED BY <3>2 DEF ShowMore
  <2>8. /\ Append(parts, new) \in Seq(Part) \ {<<>>} /\ Len(Append(parts, new)) = Len(parts) + 1
        /\ Last(Append(parts, new)) = new
        /\ \A n \in 1..Len(parts) : Append(parts, new)[n] = parts[n]
    BY <1>1, <2>6, Appended
  <2>9. PartsOK(Append(parts, new))
    <3>1. (Len(parts) + 1) - 1 = Len(parts)
      BY <1>2
    <3> QED BY <2>1, <2>5, <2>8, <3>1 DEF PartsOK
  <2>10. PartsFaces(parts) \o <<face>> = Append(PartsFaces(parts), face)
    BY <2>7, ChainedLonger
  <2> QED BY <2>1, <2>2, <2>3, <2>6, <2>7, <2>8, <2>9, <2>10
<1>13. CASE ~ full
  <2> DEFINE new == AddFace(part, face)
  <2>1. Len(part.vertices) + Len(face) <= MaxChunkVertices /\ Len(part.faces) < MaxChunkFaces
    BY <1>6, <1>8, <1>13
  <2>2. PartOK(new) /\ PartFaces(new) = PartFaces(part) \o <<face>>
    BY <1>3, <2>1, AddFaceShows
  <2>3. PutFace(parts, face) = Append(Front(parts), new)
    BY <1>5, <1>13
  <2> HIDE DEF new, full
  <2>4. new \in Part /\ new # EmptyPart /\ PartFits(new)
    BY <1>9, <2>2
  <2>5. PartsFaces(Append(Front(parts), new)) = PartsFaces(Front(parts)) \o PartFaces(new)
    <3>1. AllFit(Front(parts))
      BY <1>2, <1>4 DEF AllFit
    <3>2. ShowMore(Front(parts), new)
      BY <2>4, <3>1, PartsTogether
    <3> QED BY <3>2 DEF ShowMore
  <2>6. /\ Append(Front(parts), new) \in Seq(Part) \ {<<>>}
        /\ Len(Append(Front(parts), new)) = Len(Front(parts)) + 1 /\ Len(Front(parts)) \in Nat
        /\ Last(Append(Front(parts), new)) = new
        /\ \A n \in 1..Len(Front(parts)) : Append(Front(parts), new)[n] = Front(parts)[n]
    BY <1>2, <2>4, Appended
  <2>7. PartsOK(Append(Front(parts), new))
    <3>1. (Len(Front(parts)) + 1) - 1 = Len(Front(parts))
      BY <2>6
    <3> QED BY <1>4, <2>2, <2>6, <3>1 DEF PartsOK
  <2>8. PartsFaces(Front(parts)) \o (PartFaces(part) \o <<face>>)
          = Append(PartsFaces(Front(parts)) \o PartFaces(part), face)
    <3> DEFINE a == PartsFaces(Front(parts))
               b == PartFaces(part)
    <3>1. a \in Seq(Seq(Nat)) /\ b \in Seq(Seq(Nat)) /\ face \in Seq(Nat)
      BY <1>10, <1>11
    <3> HIDE DEF a, b
    <3>2. a \o (b \o <<face>>) = Append(a \o b, face)
      BY <3>1, ChainedLonger
    <3> QED BY <3>2 DEF a, b
  <2> QED BY <1>10, <2>2, <2>3, <2>4, <2>5, <2>6, <2>7, <2>8
<1> QED BY <1>12, <1>13

\* The parts show the faces of the mesh, in their order.
LEMMA CutFacesShow ==
  ASSUME NEW z \in Seq(Seq(Nat) \ {<<>>}), z # <<>>,
         \A j \in 1..Len(z) : Len(z[j]) <= MaxChunkVertices
  PROVE  /\ CutFaces(z) \in Seq(Part) \ {<<>>}
         /\ \A n \in 1..Len(CutFaces(z)) : PartOK(CutFaces(z)[n])
         /\ PartsFaces(CutFaces(z)) = z
<1> DEFINE A == {parts \in Seq(Part) : PartsOK(parts)}
           S == {face \in Seq(Nat) \ {<<>>} : Len(face) <= MaxChunkVertices}
           n == Len(z)
<1>1. n \in Nat \ {0} /\ z \in Seq(S)
  <2>1. n \in Nat \ {0}
    OBVIOUS
  <2>2. \A j \in 1..n : z[j] \in Seq(Nat) \ {<<>>}
    OBVIOUS
  <2>3. \A j \in 1..n : z[j] \in S
    BY <2>2
  <2> HIDE DEF S
  <2>4. z = [j \in 1..n |-> z[j]]
    OBVIOUS
  <2>5. [j \in 1..n |-> z[j]] \in Seq(S)
    BY <2>1, <2>3
  <2> QED BY <2>1, <2>4, <2>5
<1>2. <<EmptyPart>> \in A
  <2>1. EmptyPart \in Part
    BY EmptyPartIs DEF PartFits
  <2>2. Len(<<EmptyPart>>) = 1 /\ 1..(1 - 1) = {} /\ Last(<<EmptyPart>>) = EmptyPart
        /\ <<EmptyPart>> \in Seq(Part) \ {<<>>}
    BY <2>1 DEF Last
  <2> QED BY <2>2 DEF PartsOK
<1>3. \A a \in A, x \in S : PutFace(a, x) \in A
  <2> TAKE a \in A, x \in S
  <2>1. PartsOK(PutFace(a, x))
    BY PutFaceShows
  <2> QED BY <2>1 DEF PartsOK
<1>4. PICK p \in [0..n -> A] :
        /\ p[0] = <<EmptyPart>> /\ CutFaces(z) = p[n]
        /\ \A k \in 1..n : p[k] = PutFace(p[k - 1], z[k])
  <2> HIDE DEF A, S
  <2>1. PutFaceTo(A, z)
    BY <1>1, <1>2, <1>3, PutFaceInTurn
  <2> QED BY <2>1 DEF PutFaceTo
<1> DEFINE Shows(parts, k) == /\ PartsFaces(parts) = SubSeq(z, 1, k)
                              /\ k # 0 => Last(parts) # EmptyPart
           K == {k \in 0..n : Shows(p[k], k)}
<1>5. 0 \in K
  <2>1. PartFits(EmptyPart) /\ EmptyPart \in Part
    BY EmptyPartIs DEF PartFits
  <2>2. PartsFaces(<<>>) = <<>>
    <3>1. Len(<<>>) = 0 /\ 1..0 = {}
      OBVIOUS
    <3>2. [q \in 1..Len(<<>>) |-> PartFaces(<<>>[q])] = <<>>
      BY <3>1
    <3> QED BY <3>2, FlattenNothing DEF PartsFaces
  <2>3. PartsFaces(Append(<<>>, EmptyPart)) = PartsFaces(<<>>) \o PartFaces(EmptyPart)
    <3>1. <<>> \in Seq(Part) /\ \A q \in 1..Len(<<>>) : PartFits(<<>>[q])
      OBVIOUS
    <3>2. AllFit(<<>>)
      BY <3>1 DEF AllFit
    <3>3. ShowMore(<<>>, EmptyPart)
      BY <2>1, <3>2, PartsTogether
    <3> QED BY <3>3 DEF ShowMore
  <2>4. Append(<<>>, EmptyPart) = <<EmptyPart>> /\ <<>> \o <<>> = <<>>
    OBVIOUS
  <2>5. SubSeq(z, 1, 0) = <<>>
    OBVIOUS
  <2>6. PartsFaces(p[0]) = SubSeq(z, 1, 0)
    BY <1>4, <2>2, <2>3, <2>4, <2>5, EmptyPartIs
  <2> QED BY <1>1, <2>6
<1>6. ASSUME NEW k \in 1..n, k - 1 \in K PROVE k \in K
  <2>1. k \in 0..n /\ k - 1 \in 0..n /\ k \in Nat
    BY <1>1
  <2>2. p[k] = PutFace(p[k - 1], z[k]) /\ p[k - 1] \in A /\ z[k] \in S
    <3> HIDE DEF A, S, K
    <3> QED BY <1>1, <1>4, <2>1, ElementOfSeq
  <2>3. /\ Last(p[k]) # EmptyPart /\ PartsFaces(p[k]) = Append(PartsFaces(p[k - 1]), z[k])
    BY <2>2, PutFaceShows
  <2>4. PartsFaces(p[k - 1]) = SubSeq(z, 1, k - 1)
    BY <1>6
  <2>5. Append(SubSeq(z, 1, k - 1), z[k]) = SubSeq(z, 1, k)
    <3>1. /\ Append(SubSeq(z, 1, k - 1), z[k]) \in Seq(S) /\ SubSeq(z, 1, k) \in Seq(S)
          /\ Len(Append(SubSeq(z, 1, k - 1), z[k])) = k /\ Len(SubSeq(z, 1, k)) = k
      BY <1>1, <2>1
    <3>2. \A j \in 1..k : Append(SubSeq(z, 1, k - 1), z[k])[j] = SubSeq(z, 1, k)[j]
      BY <1>1, <2>1
    <3> HIDE DEF S
    <3> QED BY <3>1, <3>2, SameSequence
  <2> QED BY <2>1, <2>3, <2>4, <2>5
<1> HIDE DEF K
<1>7. n \in K
  <2>1. \A k \in 0..n : k \in K
    BY <1>1, <1>5, <1>6, UpTo
  <2> QED BY <1>1, <2>1
<1>8. SubSeq(z, 1, n) = z
  OBVIOUS
<1>9. PartsOK(CutFaces(z)) /\ PartsFaces(CutFaces(z)) = z /\ Last(CutFaces(z)) # EmptyPart
  BY <1>1, <1>4, <1>7, <1>8 DEF K
<1> DEFINE c == CutFaces(z)
<1> HIDE DEF c
<1>10. /\ c \in Seq(Part) \ {<<>>} /\ \A q \in 1..(Len(c) - 1) : PartOK(c[q])
       /\ PartOK(Last(c)) /\ PartsFaces(c) = z
  BY <1>9 DEF PartsOK, c
<1>11. Last(c) = c[Len(c)] /\ Len(c) \in Nat
  BY <1>10 DEF Last
<1>12. \A q \in 1..Len(c) : PartOK(c[q])
  <2> TAKE q \in 1..Len(c)
  <2>1. q \in 1..(Len(c) - 1) \/ q = Len(c)
    BY <1>11
  <2> QED BY <1>10, <1>11, <2>1
<1> QED BY <1>10, <1>12 DEF c

-----------------------------------------------------------------------------
(* A chunk that gets a block of vertices and faces.                        *)

\* The last chunk has n more vertices and f more faces, of mesh i.
Grown(at, new, i, n, f) ==
  LET c == at[Len(at)]
      d == new[Len(at)]
  IN  /\ new \in Seq(Chunk) \ {<<>>} /\ Len(new) = Len(at) /\ Len(at) \in Nat \ {0}
      /\ \A m \in 1..(Len(at) - 1) : new[m] = at[m]
      /\ c \in Chunk /\ d \in Chunk /\ Last(at) = c /\ Last(new) = d
      /\ d.vertFrom = c.vertFrom /\ d.triFrom = c.triFrom
      /\ d.vertTo = c.vertTo + n /\ d.triTo = c.triTo + f
      /\ Len(d.ids) = Len(c.ids) + n
      /\ \A v \in 1..Len(c.ids) : d.ids[v] = c.ids[v]
      /\ \A v \in 1..n : d.ids[Len(c.ids) + v] = i - 1
      /\ ToSet(d.meshes) = ToSet(c.meshes) \cup
           {[mesh |-> i, vertFrom |-> c.vertTo, vertTo |-> c.vertTo + n,
             triFrom |-> c.triTo, triTo |-> c.triTo + f]}

LEMMA InAppended ==
  ASSUME NEW X, NEW s \in Seq(X), NEW x \in X
  PROVE  ToSet(Append(s, x)) = ToSet(s) \cup {x}
<1>1. /\ Len(Append(s, x)) = Len(s) + 1 /\ Len(s) \in Nat
      /\ Append(s, x)[Len(s) + 1] = x /\ \A n \in 1..Len(s) : Append(s, x)[n] = s[n]
      /\ DOMAIN s = 1..Len(s) /\ DOMAIN Append(s, x) = 1..(Len(s) + 1)
  OBVIOUS
<1> DEFINE t == Append(s, x)
<1> HIDE DEF t
<1>2. ASSUME NEW y \in ToSet(t) PROVE y \in ToSet(s) \cup {x}
  <2>1. PICK n \in 1..(Len(s) + 1) : t[n] = y
    BY <1>1, <1>2 DEF ToSet, t
  <2>2. CASE n = Len(s) + 1
    BY <1>1, <2>1, <2>2 DEF t
  <2>3. CASE n # Len(s) + 1
    <3>1. n \in 1..Len(s)
      BY <1>1, <2>3
    <3> QED BY <1>1, <2>1, <3>1 DEF t, ToSet
  <2> QED BY <2>2, <2>3
<1>3. ASSUME NEW y \in ToSet(s) PROVE y \in ToSet(t)
  <2>1. PICK n \in 1..Len(s) : s[n] = y
    BY <1>1, <1>3 DEF ToSet
  <2>2. n \in 1..(Len(s) + 1) /\ t[n] = y
    BY <1>1, <2>1 DEF t
  <2> QED BY <1>1, <2>2 DEF ToSet, t
<1>4. x \in ToSet(t)
  <2>1. Len(s) + 1 \in 1..(Len(s) + 1) /\ t[Len(s) + 1] = x
    BY <1>1 DEF t
  <2> QED BY <1>1, <2>1 DEF ToSet, t
<1> QED BY <1>2, <1>3, <1>4 DEF t

LEMMA SameChunk ==
  ASSUME NEW A, NEW B, NEW C, NEW D, NEW E, NEW F,
         NEW q \in [vertFrom : A, triFrom : B, vertTo : C, triTo : D, ids : E, meshes : F],
         NEW r \in [vertFrom : A, triFrom : B, vertTo : C, triTo : D, ids : E, meshes : F],
         q.vertFrom = r.vertFrom, q.triFrom = r.triFrom, q.vertTo = r.vertTo, q.triTo = r.triTo,
         q.ids = r.ids, q.meshes = r.meshes
  PROVE  q = r
OBVIOUS
Widened(c, a, b, x, y) == [c EXCEPT !.vertTo = a, !.triTo = b, !.meshes = x, !.ids = y]

Widest(c, a, b, x, y) ==
  [vertFrom |-> c.vertFrom, triFrom |-> c.triFrom, vertTo |-> a, triTo |-> b, ids |-> y, meshes |-> x]

LEMMA GrowRecord ==
  ASSUME NEW c \in Chunk, NEW a \in Nat, NEW b \in Nat, NEW x \in Seq(Entry), NEW y \in Seq(Nat)
  PROVE  Widened(c, a, b, x, y) = Widest(c, a, b, x, y)
<1> DEFINE r == [c EXCEPT !.vertTo = a, !.triTo = b, !.meshes = x, !.ids = y]
           q == [vertFrom |-> c.vertFrom, triFrom |-> c.triFrom, vertTo |-> a,
                 triTo |-> b, ids |-> y, meshes |-> x]
<1>0. c \in [vertFrom : Nat, triFrom : Nat, vertTo : Nat, triTo : Nat, ids : Seq(Nat), meshes : Seq(Entry)]
  BY DEF Chunk
<1>1. q \in [vertFrom : Nat, triFrom : Nat, vertTo : Nat, triTo : Nat, ids : Seq(Nat), meshes : Seq(Entry)]
  BY <1>0
<1>2. r \in [vertFrom : Nat, triFrom : Nat, vertTo : Nat, triTo : Nat, ids : Seq(Nat), meshes : Seq(Entry)]
  BY <1>0
<1>3. /\ q.vertFrom = r.vertFrom /\ q.triFrom = r.triFrom /\ q.vertTo = r.vertTo /\ q.triTo = r.triTo
      /\ q.ids = r.ids /\ q.meshes = r.meshes
  BY <1>0
<1> HIDE DEF r, q
<1>4. r = q
  BY <1>1, <1>2, <1>3, SameChunk
<1> QED BY <1>4 DEF r, q, Widened, Widest

LEMMA GrownChunk ==
  ASSUME NEW at \in Seq(Chunk) \ {<<>>}, NEW i \in Nat \ {0}, NEW n \in Nat, NEW f \in Nat
  PROVE  Grown(at, Grow(at, i, n, f), i, n, f)
<1> DEFINE c == Last(at)
           entry == [mesh |-> i, vertFrom |-> c.vertTo, vertTo |-> c.vertTo + n,
                     triFrom |-> c.triTo, triTo |-> c.triTo + f]
           more == [v \in 1..n |-> i - 1]
           d == [vertFrom |-> c.vertFrom, triFrom |-> c.triFrom, vertTo |-> c.vertTo + n,
                 triTo |-> c.triTo + f, ids |-> c.ids \o more, meshes |-> Append(c.meshes, entry)]
           new == Grow(at, i, n, f)
<1>1. /\ Front(at) \in Seq(Chunk) /\ Len(Front(at)) = Len(at) - 1 /\ Len(at) \in Nat \ {0}
      /\ c = at[Len(at)] /\ c \in Chunk /\ \A m \in 1..(Len(at) - 1) : Front(at)[m] = at[m]
  BY FrontAndLast
<1>2. new = Append(Front(at), [c EXCEPT !.vertTo = @ + n, !.triTo = @ + f,
                                 !.meshes = Append(@, entry), !.ids = @ \o more])
  BY DEF Grow
<1> HIDE DEF c, new, more
<1>3. /\ c.vertTo \in Nat /\ c.triTo \in Nat /\ c.vertFrom \in Nat /\ c.triFrom \in Nat
      /\ c.ids \in Seq(Nat) /\ c.meshes \in Seq(Entry)
  BY <1>1 DEF Chunk
<1>4. entry \in Entry /\ entry.mesh = i
  BY <1>3 DEF Entry
<1> HIDE DEF entry
<1>6. more \in Seq(Nat) /\ Len(more) = n /\ \A v \in 1..n : more[v] = i - 1
  BY DEF more
<1>7. /\ c.ids \o more \in Seq(Nat) /\ Len(c.ids \o more) = Len(c.ids) + n
      /\ \A v \in 1..Len(c.ids) : (c.ids \o more)[v] = c.ids[v]
      /\ \A v \in 1..n : (c.ids \o more)[Len(c.ids) + v] = i - 1
  <2> DEFINE a == c.ids
  <2>1. a \in Seq(Nat) /\ more \in Seq(Nat)
    BY <1>3, <1>6
  <2> HIDE DEF a
  <2>2. /\ a \o more \in Seq(Nat) /\ Len(a \o more) = Len(a) + Len(more)
        /\ \A v \in 1..Len(a) : (a \o more)[v] = a[v]
        /\ \A v \in 1..Len(more) : (a \o more)[Len(a) + v] = more[v]
    BY <2>1, Chained
  <2>3. \A v \in 1..n : (a \o more)[Len(a) + v] = i - 1
    BY <1>6, <2>2
  <2> QED BY <1>6, <2>2, <2>3 DEF a
<1>8. ToSet(Append(c.meshes, entry)) = ToSet(c.meshes) \cup {entry}
      /\ Append(c.meshes, entry) \in Seq(Entry)
  BY <1>3, <1>4, InAppended
<1>5. [c EXCEPT !.vertTo = @ + n, !.triTo = @ + f,
               !.meshes = Append(@, entry), !.ids = @ \o more] = d
  <2> DEFINE ids == c.ids \o more
             meshes == Append(c.meshes, entry)
             vertTo == c.vertTo + n
             triTo == c.triTo + f
  <2>1. vertTo \in Nat /\ triTo \in Nat /\ ids \in Seq(Nat) /\ meshes \in Seq(Entry)
    <3>1. vertTo \in Nat /\ triTo \in Nat
      BY <1>3
    <3>2. ids \in Seq(Nat)
      BY <1>7
    <3>3. meshes \in Seq(Entry)
      BY <1>8
    <3> QED BY <3>1, <3>2, <3>3
  <2> HIDE DEF ids, meshes, vertTo, triTo
  <2>3. Widened(c, vertTo, triTo, meshes, ids) = Widest(c, vertTo, triTo, meshes, ids)
    BY <1>1, <2>1, GrowRecord
  <2>4. [c EXCEPT !.vertTo = vertTo, !.triTo = triTo, !.meshes = meshes, !.ids = ids]
          = [vertFrom |-> c.vertFrom, triFrom |-> c.triFrom, vertTo |-> vertTo,
             triTo |-> triTo, ids |-> ids, meshes |-> meshes]
    BY <2>3 DEF Widened, Widest
  <2> QED BY <2>4 DEF ids, meshes, vertTo, triTo
<1>9. d \in Chunk
  <2>1. c.vertTo + n \in Nat /\ c.triTo + f \in Nat
    BY <1>3
  <2> DEFINE ids == c.ids \o more
             meshes == Append(c.meshes, entry)
  <2>2. ids \in Seq(Nat) /\ meshes \in Seq(Entry)
    BY <1>7, <1>8
  <2> HIDE DEF ids, meshes
  <2>3. [vertFrom |-> c.vertFrom, triFrom |-> c.triFrom, vertTo |-> c.vertTo + n,
         triTo |-> c.triTo + f, ids |-> ids, meshes |-> meshes] \in Chunk
    BY <1>3, <2>1, <2>2 DEF Chunk
  <2> QED BY <2>3 DEF ids, meshes
<1>10. /\ d.vertFrom = c.vertFrom /\ d.triFrom = c.triFrom
       /\ d.vertTo = c.vertTo + n /\ d.triTo = c.triTo + f
       /\ d.ids = c.ids \o more /\ d.meshes = Append(c.meshes, entry)
  OBVIOUS
<1> HIDE DEF d
<1>11. new = Append(Front(at), d)
  BY <1>2, <1>5
<1>12. /\ new \in Seq(Chunk) \ {<<>>} /\ Len(new) = (Len(at) - 1) + 1 /\ Last(new) = d
       /\ new[(Len(at) - 1) + 1] = d /\ \A m \in 1..(Len(at) - 1) : new[m] = Front(at)[m]
  BY <1>1, <1>9, <1>11, Appended
<1>13. (Len(at) - 1) + 1 = Len(at)
  BY <1>1
<1>14. ToSet(d.meshes) = ToSet(c.meshes) \cup
           {[mesh |-> i, vertFrom |-> c.vertTo, vertTo |-> c.vertTo + n,
             triFrom |-> c.triTo, triTo |-> c.triTo + f]}
  BY <1>8, <1>10 DEF entry
<1>15. Last(at) = c
  BY DEF c
<1>16. Len(at) - 1 \in Nat
  BY <1>1
<1>17. /\ new \in Seq(Chunk) \ {<<>>} /\ Len(new) = Len(at) /\ new[Len(at)] = d /\ at[Len(at)] = c
       /\ \A m \in 1..(Len(at) - 1) : new[m] = at[m]
  BY <1>1, <1>12, <1>13
<1>18. /\ Len(d.ids) = Len(c.ids) + n
       /\ \A v \in 1..Len(c.ids) : d.ids[v] = c.ids[v]
       /\ \A v \in 1..n : d.ids[Len(c.ids) + v] = i - 1
  BY <1>7, <1>10
<1>19. Grown(at, new, i, n, f)
  BY <1>1, <1>9, <1>10, <1>12, <1>14, <1>15, <1>17, <1>18, Zenon DEF Grown
<1> QED BY <1>19 DEF new

LEMMA ShowsStill ==
  ASSUME NEW c \in Chunk, NEW d \in Chunk, NEW f, NEW vs, NEW ws, NEW fs, NEW gs, NEW all, NEW more,
         ShowsFace(c, f, vs, fs, all), gs[f] = fs[f], more[f] = all[f],
         d.vertFrom = c.vertFrom, c.vertTo <= d.vertTo, Len(c.ids) = Room(c),
         \A v \in 1..Len(c.ids) : d.ids[v] = c.ids[v],
         ToSet(c.meshes) \subseteq ToSet(d.meshes),
         \A v \in 1..c.vertTo : ws[v] = vs[v]
  PROVE  ShowsFace(d, f, ws, gs, more)
<1>1. /\ c.vertTo \in Nat /\ c.vertFrom \in Nat /\ d.vertTo \in Nat
      /\ Room(c) = c.vertTo - c.vertFrom /\ Room(d) = d.vertTo - c.vertFrom
  BY DEF Chunk, Room
<1>2. ASSUME NEW k \in DOMAIN fs[f]
      PROVE  /\ fs[f][k] \in 0..(Room(d) - 1)
             /\ ws[d.vertFrom + fs[f][k] + 1] = all[f].face[k]
             /\ d.ids[fs[f][k] + 1] = all[f].mesh - 1
  <2> DEFINE x == fs[f][k]
  <2>1. /\ x \in 0..(Room(c) - 1) /\ vs[c.vertFrom + x + 1] = all[f].face[k]
        /\ c.ids[x + 1] = all[f].mesh - 1
    BY DEF ShowsFace
  <2> HIDE DEF x
  <2>2. /\ x \in 0..(Room(d) - 1) /\ c.vertFrom + x + 1 \in 1..c.vertTo
        /\ x + 1 \in 1..Len(c.ids)
    BY SMTT(30), <1>1, <2>1
  <2> QED BY <2>1, <2>2 DEF x
<1>3. ListsFace(d, all[f].mesh, f)
  BY DEF ShowsFace, ListsFace
<1>4. DOMAIN fs[f] = DOMAIN all[f].face
  BY DEF ShowsFace
<1> QED BY <1>2, <1>3, <1>4 DEF ShowsFace

Shifted(z, s) == [j \in 1..Len(z) |-> [k \in 1..Len(z[j]) |-> z[j][k] + s]]

\* Faces with the mesh they are of.
Marked(z, i) == [j \in 1..Len(z) |-> [mesh |-> i, face |-> z[j]]]

\* A chunk that was begun shows nothing, and leaves what the others show.
LEMMA BeginChunk ==
  ASSUME NEW cs, NEW vs, NEW fs, NEW all, LaidOut(cs, vs, fs, all)
  PROVE  /\ LaidTo(Append(cs, NewChunk(EndVertex(cs), EndFace(cs))), vs, fs, all)
         /\ NewChunk(EndVertex(cs), EndFace(cs)) \in Chunk
<1> DEFINE c == NewChunk(EndVertex(cs), EndFace(cs))
           at == Append(cs, c)
<1>1. /\ cs \in Seq(Chunk) /\ vs \in Seq(Nat) /\ fs \in Seq(Seq(Nat)) /\ all \in Seq(SuperFace)
      /\ Len(vs) = EndVertex(cs) /\ Len(fs) = EndFace(cs) /\ Len(all) = EndFace(cs)
      /\ \A n \in 1..Len(cs) : ChunkOK(cs, n) /\ Filled(cs[n])
      /\ \A n \in 1..Len(cs) : \A f \in (cs[n].triFrom + 1)..cs[n].triTo :
           ShowsFace(cs[n], f, vs, fs, all)
  BY DEF LaidOut, LaidTo
<1>2. EndVertex(cs) \in Nat /\ EndFace(cs) \in Nat /\ Len(cs) \in Nat
  BY <1>1
<1>3. /\ c.vertFrom = EndVertex(cs) /\ c.vertTo = EndVertex(cs) /\ c.triFrom = EndFace(cs)
      /\ c.triTo = EndFace(cs) /\ c.ids = <<>> /\ c.meshes = <<>>
      /\ c \in Chunk
  BY <1>2 DEF NewChunk, Chunk
<1> HIDE DEF c
<1>4. /\ at \in Seq(Chunk) \ {<<>>} /\ Len(at) = Len(cs) + 1 /\ Last(at) = c
      /\ at[Len(cs) + 1] = c /\ \A n \in 1..Len(cs) : at[n] = cs[n]
  BY <1>1, <1>3, Appended
<1> HIDE DEF at
<1>5. EndVertex(at) = EndVertex(cs) /\ EndFace(at) = EndFace(cs)
  BY <1>3, <1>4 DEF EndVertex, EndFace
<1>6. ASSUME NEW n \in 1..Len(cs) PROVE ChunkOK(at, n) /\ at[n] = cs[n] /\ Filled(at[n])
  <2>1. ChunkOK(cs, n) /\ at[n] = cs[n]
    BY <1>1, <1>4
  <2>2. n # 1 => at[n - 1] = cs[n - 1]
    BY <1>2, <1>4
  <2> QED BY <1>1, <1>5, <2>1, <2>2 DEF ChunkOK
<1>7. ChunkOK(at, Len(cs) + 1)
  <2>1. c.vertFrom = (IF Len(cs) + 1 = 1 THEN 0 ELSE at[Len(cs)].vertTo)
        /\ c.triFrom = (IF Len(cs) + 1 = 1 THEN 0 ELSE at[Len(cs)].triTo)
    <3>1. CASE cs = <<>>
      BY <1>3, <3>1 DEF EndVertex, EndFace
    <3>2. CASE cs # <<>>
      <4>1. Len(cs) \in 1..Len(cs) /\ Last(cs) = cs[Len(cs)] /\ Len(cs) # 0
        BY <1>1, <1>2, <3>2 DEF Last
      <4>2. at[Len(cs)] = Last(cs)
        BY <1>4, <4>1
      <4> QED BY <1>2, <1>3, <3>2, <4>1, <4>2 DEF EndVertex, EndFace
    <3> QED BY <3>1, <3>2
  <2>2. Room(c) = 0 /\ c.triTo - c.triFrom = 0 /\ Len(c.ids) = 0
    BY <1>2, <1>3 DEF Room
  <2>3. 0 \in 0..MaxChunkVertices /\ 0 \in 0..MaxChunkFaces
    BY ChunkAssumption
  <2>4. (Len(cs) + 1) - 1 = Len(cs)
    BY <1>2
  <2> QED BY <1>2, <1>3, <1>4, <1>5, <2>1, <2>2, <2>3, <2>4 DEF ChunkOK
<1>8. \A n \in 1..Len(at) : n \in 1..Len(cs) \/ n = Len(cs) + 1
  BY <1>2, <1>4
<1>9. \A n \in 1..Len(at) : ChunkOK(at, n)
  BY <1>6, <1>7, <1>8
<1>10. \A n \in 1..(Len(at) - 1) : Filled(at[n])
  <2>1. Len(at) - 1 = Len(cs)
    BY <1>2, <1>4
  <2> QED BY <1>6, <2>1
<1>11. ASSUME NEW n \in 1..Len(at), NEW f \in (at[n].triFrom + 1)..at[n].triTo
       PROVE  ShowsFace(at[n], f, vs, fs, all)
  <2>1. CASE n \in 1..Len(cs)
    BY <1>1, <1>6, <2>1
  <2>2. CASE n = Len(cs) + 1
    <3>1. (at[n].triFrom + 1)..at[n].triTo = {}
      BY <1>2, <1>3, <1>4, <2>2
    <3> QED BY <3>1
  <2> QED BY <1>8, <2>1, <2>2
<1>12. LaidTo(at, vs, fs, all)
  BY <1>1, <1>4, <1>5, <1>9, <1>10, <1>11 DEF LaidTo
<1> QED BY <1>3, <1>12 DEF at, c

HasRoomFor(c, part) ==
  /\ Room(c) + Len(part.vertices) <= MaxChunkVertices
  /\ c.triTo - c.triFrom + Len(part.faces) <= MaxChunkFaces

JoinedAs(u, s, t, a, b) ==
  /\ Len(u) = a + b
  /\ \A v \in 1..a : u[v] = s[v]
  /\ \A v \in 1..b : u[a + v] = t[v]

LEMMA ChainedAs ==
  ASSUME NEW X, NEW s \in Seq(X), NEW t \in Seq(X), NEW a, a = Len(s), NEW b, b = Len(t),
         NEW u, u = s \o t
  PROVE  u \in Seq(X) /\ JoinedAs(u, s, t, a, b)
BY Chained DEF JoinedAs

ShiftedOf(u, z, s) ==
  \A j \in 1..Len(z) : u[j] = [k \in 1..Len(z[j]) |-> z[j][k] + s]

MarkedOf(u, z, i) ==
  \A j \in 1..Len(z) : u[j].mesh = i /\ u[j].face = z[j]

LEMMA ShiftedType ==
  ASSUME NEW z \in Seq(Seq(Nat)), NEW s \in Nat
  PROVE  /\ Shifted(z, s) \in Seq(Seq(Nat)) /\ Len(Shifted(z, s)) = Len(z)
         /\ ShiftedOf(Shifted(z, s), z, s)
<1>1. Len(z) \in Nat
  OBVIOUS
<1>2. ASSUME NEW j \in 1..Len(z) PROVE [k \in 1..Len(z[j]) |-> z[j][k] + s] \in Seq(Nat)
  <2>1. z[j] \in Seq(Nat) /\ Len(z[j]) \in Nat
    OBVIOUS
  <2>2. \A k \in 1..Len(z[j]) : z[j][k] + s \in Nat
    BY <2>1
  <2> QED BY <2>1, <2>2
<1> QED BY <1>1, <1>2 DEF Shifted, ShiftedOf

LEMMA MarkedType ==
  ASSUME NEW z \in Seq(Seq(Nat)), NEW i \in Nat
  PROVE  /\ Marked(z, i) \in Seq(SuperFace) /\ Len(Marked(z, i)) = Len(z)
         /\ MarkedOf(Marked(z, i), z, i)
<1>1. Len(z) \in Nat
  OBVIOUS
<1>2. ASSUME NEW j \in 1..Len(z) PROVE [mesh |-> i, face |-> z[j]] \in SuperFace
  <2>1. z[j] \in Seq(Nat)
    OBVIOUS
  <2> QED BY <2>1 DEF SuperFace
<1> QED BY <1>1, <1>2 DEF Marked, MarkedOf

\* The block that was added is shown, and what was shown before still is.
LEMMA LayMore ==
  ASSUME NEW at \in Seq(Chunk) \ {<<>>}, NEW vs, NEW fs, NEW all, LaidTo(at, vs, fs, all),
         NEW i \in Nat \ {0}, NEW part, PartOK(part), HasRoomFor(Last(at), part)
  PROVE  LaidOut(Grow(at, i, Len(part.vertices), Len(part.faces)), vs \o part.vertices,
                 fs \o Shifted(part.faces, Room(Last(at))), all \o Marked(PartFaces(part), i))
<1> DEFINE W == part.vertices
           L == part.faces
           n == Len(W)
           m == Len(L)
           new == Grow(at, i, n, m)
           e == Len(at)
           c == at[e]
           d == new[e]
           S == Shifted(L, Room(c))
           M == Marked(PartFaces(part), i)
           ws == vs \o W
           gs == fs \o S
           more == all \o M
           o == c.vertTo
           t == c.triTo
<1>1. /\ W \in Seq(Nat) /\ L \in Seq(Seq(Nat)) /\ n \in Nat \ {0} /\ m \in Nat \ {0}
      /\ \A q \in 1..m : \A k \in 1..Len(L[q]) : L[q][k] < n
  BY DEF PartOK, PartFits, Part
<1>2. Grown(at, new, i, n, m)
  <2> HIDE DEF n, m
  <2> QED BY <1>1, GrownChunk
<1> HIDE DEF new
<1>3. /\ new \in Seq(Chunk) \ {<<>>} /\ Len(new) = e /\ e \in Nat \ {0}
      /\ \A q \in 1..(e - 1) : new[q] = at[q]
      /\ c \in Chunk /\ d \in Chunk /\ Last(at) = c /\ Last(new) = d
      /\ d.vertFrom = c.vertFrom /\ d.triFrom = c.triFrom
      /\ d.vertTo = o + n /\ d.triTo = t + m
      /\ Len(d.ids) = Len(c.ids) + n
      /\ \A v \in 1..Len(c.ids) : d.ids[v] = c.ids[v]
      /\ \A v \in 1..n : d.ids[Len(c.ids) + v] = i - 1
      /\ ToSet(d.meshes) = ToSet(c.meshes) \cup
           {[mesh |-> i, vertFrom |-> o, vertTo |-> o + n, triFrom |-> t, triTo |-> t + m]}
  <2> HIDE DEF n, m
  <2> QED BY <1>2 DEF Grown
<1>4. /\ vs \in Seq(Nat) /\ fs \in Seq(Seq(Nat)) /\ all \in Seq(SuperFace)
      /\ Len(vs) = o /\ Len(fs) = t /\ Len(all) = t
      /\ EndVertex(at) = o /\ EndFace(at) = t
      /\ \A q \in 1..e : ChunkOK(at, q)
      /\ \A q \in 1..(e - 1) : Filled(at[q])
      /\ \A q \in 1..e : \A f \in (at[q].triFrom + 1)..at[q].triTo :
           ShowsFace(at[q], f, vs, fs, all)
  <2>1. EndVertex(at) = o /\ EndFace(at) = t
    BY <1>3 DEF EndVertex, EndFace
  <2> QED BY <2>1 DEF LaidTo
<1> DEFINE F == PartFaces(part)
<1>0. /\ n = Len(W) /\ m = Len(L) /\ e = Len(at) /\ c = at[e] /\ d = new[e]
      /\ o = c.vertTo /\ t = c.triTo
  OBVIOUS
<1>5. /\ S = Shifted(L, Room(c)) /\ M = Marked(F, i)
      /\ ws = vs \o W /\ gs = fs \o S /\ more = all \o M
  OBVIOUS
<1>6. /\ F \in Seq(Seq(Nat)) /\ Len(F) = m
      /\ \A j \in 1..m : F[j] = [k \in 1..Len(L[j]) |-> W[L[j][k] + 1]]
  <2>1. F \in Seq(Seq(Nat)) /\ Len(F) = m
    BY PartFacesType DEF PartOK
  <2>2. \A j \in 1..m : F[j] = [k \in 1..Len(L[j]) |-> W[L[j][k] + 1]]
    BY DEF PartFaces
  <2> QED BY <2>1, <2>2
<1>7. HasRoomFor(c, part) => Room(c) + n <= MaxChunkVertices /\ t - c.triFrom + m <= MaxChunkFaces
  BY DEF HasRoomFor
<1> HIDE DEF F, ws, gs, more, S, M, W, L, n, m, o, t, c, d, e
<1>8. /\ EndVertex(new) = o + n /\ EndFace(new) = t + m
  BY <1>3 DEF EndVertex, EndFace
<1>9. /\ o \in Nat /\ t \in Nat /\ c.vertFrom \in Nat /\ c.triFrom \in Nat
      /\ Room(c) = o - c.vertFrom /\ Room(d) = (o + n) - c.vertFrom
  BY <1>0, <1>3 DEF Chunk, Room
<1>10. /\ Room(c) \in 0..MaxChunkVertices /\ t - c.triFrom \in 0..MaxChunkFaces
       /\ Len(c.ids) = Room(c) /\ ChunkOK(at, e)
       /\ Room(c) + n <= MaxChunkVertices /\ t - c.triFrom + m <= MaxChunkFaces
       /\ MaxChunkVertices \in Nat /\ MaxChunkFaces \in Nat
  <2>1. ChunkOK(at, e) /\ at[e] = c
    BY <1>0, <1>3, <1>4
  <2>2. HasRoomFor(c, part)
    BY <1>3
  <2> QED BY <1>0, <1>7, <2>1, <2>2, ChunkAssumption DEF ChunkOK
<1>11. /\ S \in Seq(Seq(Nat)) /\ Len(S) = m
       /\ \A j \in 1..m : S[j] = [k \in 1..Len(L[j]) |-> L[j][k] + Room(c)]
  <2>1. Room(c) \in Nat
    BY <1>10
  <2>2. S \in Seq(Seq(Nat)) /\ Len(S) = Len(L) /\ ShiftedOf(S, L, Room(c))
    BY <1>1, <1>5, <2>1, ShiftedType
  <2> QED BY <1>0, <2>2 DEF ShiftedOf
<1>12. /\ M \in Seq(SuperFace) /\ Len(M) = m
       /\ \A j \in 1..m : M[j].mesh = i /\ M[j].face = [k \in 1..Len(L[j]) |-> W[L[j][k] + 1]]
  <2>1. M \in Seq(SuperFace) /\ Len(M) = Len(F) /\ MarkedOf(M, F, i)
    BY <1>5, <1>6, MarkedType
  <2> QED BY <1>6, <2>1 DEF MarkedOf
<1>22. /\ ws \in Seq(Nat) /\ Len(ws) = o + n
       /\ \A v \in 1..o : ws[v] = vs[v]
       /\ \A v \in 1..n : ws[o + v] = W[v]
  <2>1. ws \in Seq(Nat) /\ JoinedAs(ws, vs, W, o, n)
    BY <1>0, <1>1, <1>4, <1>5, ChainedAs
  <2> QED BY <2>1 DEF JoinedAs
<1>23. /\ gs \in Seq(Seq(Nat)) /\ Len(gs) = t + m
       /\ \A f \in 1..t : gs[f] = fs[f]
       /\ \A j \in 1..m : gs[t + j] = S[j]
  <2>1. gs \in Seq(Seq(Nat)) /\ JoinedAs(gs, fs, S, t, m)
    BY <1>4, <1>5, <1>11, ChainedAs
  <2> QED BY <2>1 DEF JoinedAs
<1>24. /\ more \in Seq(SuperFace) /\ Len(more) = t + m
       /\ \A f \in 1..t : more[f] = all[f]
       /\ \A j \in 1..m : more[t + j] = M[j]
  <2>1. more \in Seq(SuperFace) /\ JoinedAs(more, all, M, t, m)
    BY <1>4, <1>5, <1>12, ChainedAs
  <2> QED BY <2>1 DEF JoinedAs
<1>26. n \in Nat \ {0} /\ m \in Nat \ {0}
  BY <1>1
<1>13. ASSUME NEW q \in 1..(e - 1) PROVE ChunkOK(new, q) /\ Filled(new[q]) /\ new[q] = at[q]
  <2>1. q \in 1..e /\ new[q] = at[q]
    BY <1>3
  <2>2. q # 1 => new[q - 1] = at[q - 1]
    BY <1>3
  <2>3. ChunkOK(at, q)
    BY <1>4, <2>1
  <2>4. at[q] \in Chunk
    BY <1>3, <2>1, ElementOfSeq DEF e
  <2>5. at[q].vertTo \in Nat /\ at[q].triTo \in Nat
    BY <2>4 DEF Chunk
  <2>6. new[q].vertTo <= EndVertex(new) /\ new[q].triTo <= EndFace(new)
    <3> DEFINE x == at[q].vertTo
               y == at[q].triTo
    <3>1. x \in Nat /\ y \in Nat /\ x <= o /\ y <= t
      BY <1>4, <2>3, <2>5 DEF ChunkOK
    <3> HIDE DEF x, y
    <3>2. x <= o + n /\ y <= t + m
      BY <1>9, <1>26, <3>1
    <3> QED BY <1>8, <2>1, <3>2 DEF x, y
  <2> QED BY <1>4, <2>1, <2>2, <2>3, <2>6 DEF ChunkOK
<1>14. ChunkOK(new, e) /\ Filled(d)
  <2>1. new[e] = d
    BY <1>0
  <2>2. e # 1 => new[e - 1] = at[e - 1]
    BY <1>3
  <2>3. at[e] = c
    BY <1>0
  <2>4. Room(d) = Room(c) + n /\ d.triTo - d.triFrom = (t - c.triFrom) + m
    BY SMTT(30), <1>1, <1>3, <1>9
  <2>5. Room(d) \in 0..MaxChunkVertices /\ d.triTo - d.triFrom \in 0..MaxChunkFaces
    <3> DEFINE x == Room(c)
               y == t - c.triFrom
    <3>1. x \in Nat /\ y \in Nat /\ x + n <= MaxChunkVertices /\ y + m <= MaxChunkFaces
      BY <1>10
    <3> HIDE DEF x, y
    <3>2. x + n \in 0..MaxChunkVertices /\ y + m \in 0..MaxChunkFaces
      BY <1>10, <1>26, <3>1
    <3> QED BY <2>4, <3>2 DEF x, y
  <2>6. Len(d.ids) = Room(d) /\ d.vertTo <= EndVertex(new) /\ d.triTo <= EndFace(new)
    BY <1>1, <1>3, <1>8, <1>9, <1>10, <2>4
  <2>7. Filled(d)
    <3> DEFINE x == c.vertFrom
               y == c.triFrom
    <3>1. x \in Nat /\ y \in Nat /\ o - x >= 0 /\ t - y >= 0
      BY <1>9, <1>10
    <3> HIDE DEF x, y
    <3>2. x < o + n /\ y < t + m
      BY <1>9, <1>26, <3>1
    <3> QED BY <1>3, <3>2 DEF Filled, x, y
  <2> QED BY <1>3, <1>10, <2>1, <2>2, <2>3, <2>5, <2>6, <2>7 DEF ChunkOK
<1>15. \A q \in 1..e : q \in 1..(e - 1) \/ q = e
  BY <1>3
<1>16. ASSUME NEW q \in 1..e, NEW f \in (at[q].triFrom + 1)..at[q].triTo
       PROVE  ShowsFace(new[q], f, ws, gs, more)
  <2>1. at[q] \in Chunk /\ new[q] \in Chunk
    BY <1>0, <1>3, ElementOfSeq
  <2>2. ShowsFace(at[q], f, vs, fs, all) /\ ChunkOK(at, q)
    BY <1>4
  <2>3. /\ at[q].vertTo \in Nat /\ at[q].triTo \in Nat /\ at[q].triFrom \in Nat
        /\ at[q].vertTo <= o /\ at[q].triTo <= t /\ Len(at[q].ids) = Room(at[q])
    BY <1>4, <2>1, <2>2 DEF ChunkOK, Chunk
  <2>4. f \in 1..t
    BY SMTT(30), <1>9, <2>3
  <2>5. gs[f] = fs[f] /\ more[f] = all[f] /\ \A v \in 1..at[q].vertTo : ws[v] = vs[v]
    BY <1>9, <1>22, <1>23, <1>24, <2>3, <2>4
  <2>6. /\ new[q].vertFrom = at[q].vertFrom /\ at[q].vertTo <= new[q].vertTo
        /\ \A v \in 1..Len(at[q].ids) : new[q].ids[v] = at[q].ids[v]
        /\ ToSet(at[q].meshes) \subseteq ToSet(new[q].meshes)
    <3>1. CASE q = e
      <4>1. at[q] = c /\ new[q] = d
        BY <1>0, <3>1
      <4>2. o <= o + n /\ c.vertTo = o
        BY <1>0, <1>1, <1>9
      <4> QED BY <1>3, <4>1, <4>2
    <3>2. CASE q # e
      <4>1. new[q] = at[q]
        BY <1>13, <1>15, <3>2
      <4> QED BY <2>3, <4>1
    <3> QED BY <3>1, <3>2
  <2> DEFINE a == at[q]
             b == new[q]
  <2>7. /\ a \in Chunk /\ b \in Chunk /\ ShowsFace(a, f, vs, fs, all)
        /\ gs[f] = fs[f] /\ more[f] = all[f]
        /\ b.vertFrom = a.vertFrom /\ a.vertTo <= b.vertTo /\ Len(a.ids) = Room(a)
        /\ \A v \in 1..Len(a.ids) : b.ids[v] = a.ids[v]
        /\ ToSet(a.meshes) \subseteq ToSet(b.meshes)
        /\ \A v \in 1..a.vertTo : ws[v] = vs[v]
    BY <2>1, <2>2, <2>3, <2>5, <2>6
  <2> HIDE DEF a, b
  <2>8. ShowsFace(b, f, ws, gs, more)
    BY <2>7, ShowsStill
  <2> QED BY <2>8 DEF b
<1>17. ASSUME NEW f \in (t + 1)..(t + m) PROVE ShowsFace(d, f, ws, gs, more)
  <2> DEFINE j == f - t
             g == L[j]
             l == Len(g)
  <2>1. j \in 1..m /\ f = t + j
    BY SMTT(30), <1>1, <1>9
  <2> HIDE DEF j
  <2>2. g \in Seq(Nat)
    BY <1>0, <1>1, <2>1, ElementOfSeq
  <2>3. l \in Nat
    BY <2>2
  <2>4. /\ gs[f] = [k \in 1..l |-> g[k] + Room(c)] /\ more[f].mesh = i
        /\ more[f].face = [k \in 1..l |-> W[g[k] + 1]]
    <3>1. gs[f] = S[j] /\ more[f] = M[j]
      BY <1>23, <1>24, <2>1
    <3>2. S[j] = [k \in 1..l |-> g[k] + Room(c)]
      BY <1>11, <2>1
    <3>3. M[j].mesh = i /\ M[j].face = [k \in 1..l |-> W[g[k] + 1]]
      BY <1>12, <2>1
    <3> QED BY <3>1, <3>2, <3>3
  <2>5. \A k \in 1..l : g[k] \in Nat /\ g[k] < n
    <3> TAKE k \in 1..l
    <3>1. g[k] < n
      BY <1>1, <2>1
    <3>2. g[k] \in Nat
      BY <2>2, ElementOfSeq
    <3> QED BY <3>1, <3>2
  <2> HIDE DEF g, l
  <2>6. ASSUME NEW k \in 1..l
        PROVE  /\ gs[f][k] \in 0..(Room(d) - 1)
               /\ ws[d.vertFrom + gs[f][k] + 1] = more[f].face[k]
               /\ d.ids[gs[f][k] + 1] = more[f].mesh - 1
    <3> DEFINE x == g[k]
    <3>1. x \in Nat /\ x < n /\ gs[f][k] = x + Room(c) /\ more[f].face[k] = W[x + 1]
      BY <2>4, <2>5
    <3> HIDE DEF x
    <3>2. x + Room(c) \in 0..(Room(d) - 1)
      <4> DEFINE y == Room(c)
      <4>1. y \in Nat /\ Room(d) = y + n
        <5> DEFINE w == c.vertFrom
        <5>1. w \in Nat /\ Room(c) = o - w /\ Room(d) = (o + n) - w
          BY <1>9
        <5> HIDE DEF w
        <5>2. Room(d) = Room(c) + n
          BY <1>9, <1>26, <5>1
        <5> QED BY <1>10, <5>2
      <4> HIDE DEF y
      <4>2. x + y \in 0..((y + n) - 1)
        BY <1>26, <3>1, <4>1
      <4> QED BY <4>1, <4>2 DEF y
    <3>3. x + 1 \in 1..n /\ c.vertFrom + (x + Room(c)) + 1 = o + (x + 1)
          /\ (x + Room(c)) + 1 = Len(c.ids) + (x + 1)
      <4> DEFINE y == c.vertFrom
      <4>1. y \in Nat /\ Room(c) = o - y /\ Len(c.ids) = o - y
        BY <1>9, <1>10
      <4> HIDE DEF y
      <4>2. x + 1 \in 1..n /\ y + (x + (o - y)) + 1 = o + (x + 1)
            /\ (x + (o - y)) + 1 = (o - y) + (x + 1)
        BY <1>9, <1>26, <3>1, <4>1
      <4> QED BY <4>1, <4>2 DEF y
    <3>4. ws[o + (x + 1)] = W[x + 1] /\ d.ids[Len(c.ids) + (x + 1)] = i - 1
      BY <1>3, <1>22, <3>3
    <3> DEFINE h == gs[f][k]
    <3>5. h = x + Room(c) /\ more[f].face[k] = W[x + 1] /\ more[f].mesh = i
          /\ d.vertFrom = c.vertFrom
      BY <1>3, <2>4, <3>1
    <3> HIDE DEF h
    <3>6. h \in 0..(Room(d) - 1) /\ ws[d.vertFrom + h + 1] = more[f].face[k]
          /\ d.ids[h + 1] = more[f].mesh - 1
      BY <3>2, <3>3, <3>4, <3>5
    <3> QED BY <3>6 DEF h
  <2>7. ListsFace(d, i, f)
    <3> DEFINE en == [mesh |-> i, vertFrom |-> o, vertTo |-> o + n, triFrom |-> t, triTo |-> t + m]
    <3>1. en \in ToSet(d.meshes) /\ en.mesh = i /\ en.triFrom = t /\ en.triTo = t + m
      BY <1>3
    <3> HIDE DEF en
    <3> QED BY <3>1 DEF ListsFace
  <2>8. DOMAIN gs[f] = 1..l /\ DOMAIN more[f].face = 1..l
    BY <2>4
  <2> QED BY <2>4, <2>6, <2>7, <2>8 DEF ShowsFace
<1>18. ASSUME NEW q \in 1..e, NEW f \in (new[q].triFrom + 1)..new[q].triTo
       PROVE  ShowsFace(new[q], f, ws, gs, more)
  <2>1. CASE q = e
    <3>1. new[q] = d /\ at[q] = c
      BY <1>0, <2>1
    <3>2. f \in (c.triFrom + 1)..t \/ f \in (t + 1)..(t + m)
      BY SMTT(30), <1>1, <1>3, <1>9, <3>1
    <3>3. CASE f \in (c.triFrom + 1)..t
      BY <1>0, <1>16, <3>1, <3>3
    <3>4. CASE f \in (t + 1)..(t + m)
      BY <1>17, <3>1, <3>4
    <3> QED BY <3>2, <3>3, <3>4
  <2>2. CASE q # e
    <3>1. new[q] = at[q]
      BY <1>13, <1>15, <2>2
    <3> QED BY <1>16, <3>1
  <2> QED BY <2>1, <2>2
<1>19. \A q \in 1..e : ChunkOK(new, q) /\ Filled(new[q])
  <2>1. new[e] = d
    BY <1>0
  <2> QED BY <1>13, <1>14, <1>15, <2>1
<1>20. LaidTo(new, ws, gs, more)
  <2>1. \A q \in 1..(e - 1) : q \in 1..e
    BY <1>3
  <2> QED BY <1>3, <1>8, <1>22, <1>23, <1>24, <1>18, <1>19, <2>1 DEF LaidTo
<1>21. LaidOut(new, ws, gs, more)
  BY <1>3, <1>19, <1>20 DEF LaidOut
<1>25. Last(at) = c
  BY <1>3
<1> QED BY <1>21, <1>25 DEF new, ws, gs, more, S, M, n, m, W, L, F

Regrouped(a, b, c) == (a \o b) \o c = a \o (b \o c)

LEMMA ChainedThrice ==
  ASSUME NEW X, NEW a \in Seq(X), NEW b \in Seq(X), NEW c \in Seq(X)
  PROVE  Regrouped(a, b, c)
BY DEF Regrouped

LEMMA WithNothing ==
  ASSUME NEW X, NEW a \in Seq(X)
  PROVE  a \o <<>> = a /\ <<>> \o a = a
OBVIOUS

\* The first k sequences of z, one after the other.
FlattenTo(z, k) == FlattenSeq(SubSeq(z, 1, k))

FlattensTo(X, z) ==
  /\ FlattenTo(z, 0) = <<>> /\ FlattenTo(z, Len(z)) = FlattenSeq(z)
  /\ \A k \in 0..Len(z) : FlattenTo(z, k) \in Seq(X)
  /\ \A k \in 1..Len(z) : FlattenTo(z, k) = FlattenTo(z, k - 1) \o z[k]

LEMMA FlattenNext ==
  ASSUME NEW X, NEW z \in Seq(Seq(X))
  PROVE  FlattensTo(X, z)
<1> DEFINE n == Len(z)
<1>1. n \in Nat
  OBVIOUS
<1>2. \A k \in 0..n : SubSeq(z, 1, k) \in Seq(Seq(X)) /\ Len(SubSeq(z, 1, k)) = k
  OBVIOUS
<1>3. SubSeq(z, 1, 0) = <<>> /\ SubSeq(z, 1, n) = z
  OBVIOUS
<1>4. ASSUME NEW k \in 1..n
      PROVE  SubSeq(z, 1, k) = Append(SubSeq(z, 1, k - 1), z[k]) /\ z[k] \in Seq(X)
  <2>1. k \in Nat /\ k - 1 \in 0..n /\ k \in 0..n /\ z[k] \in Seq(X)
    BY <1>1
  <2>2. /\ Append(SubSeq(z, 1, k - 1), z[k]) \in Seq(Seq(X))
        /\ Len(Append(SubSeq(z, 1, k - 1), z[k])) = k
    BY <1>2, <2>1
  <2>3. \A j \in 1..k : SubSeq(z, 1, k)[j] = Append(SubSeq(z, 1, k - 1), z[k])[j]
    BY <1>1, <2>1
  <2> DEFINE s == SubSeq(z, 1, k)
             t == Append(SubSeq(z, 1, k - 1), z[k])
  <2>4. s \in Seq(Seq(X)) /\ t \in Seq(Seq(X)) /\ Len(s) = k /\ Len(t) = k
        /\ \A j \in 1..k : s[j] = t[j]
    BY <1>2, <2>1, <2>2, <2>3
  <2> HIDE DEF s, t
  <2>5. s = t
    BY <2>4, SameSequence
  <2> QED BY <2>1, <2>5 DEF s, t
<1>5. ASSUME NEW k \in 1..n PROVE FlattenTo(z, k) = FlattenTo(z, k - 1) \o z[k]
  <2> DEFINE s == SubSeq(z, 1, k - 1)
  <2>1. k - 1 \in 0..n
    BY <1>1
  <2>2. s \in Seq(Seq(X)) /\ z[k] \in Seq(X) /\ SubSeq(z, 1, k) = Append(s, z[k])
    BY <1>2, <1>4, <2>1
  <2> HIDE DEF s
  <2>3. FlattenSeq(Append(s, z[k])) = FlattenSeq(s) \o z[k]
    BY <2>2, FlattenMore
  <2> QED BY <2>2, <2>3 DEF FlattenTo, s
<1>6. ASSUME NEW k \in 0..n PROVE FlattenTo(z, k) \in Seq(X)
  <2> DEFINE s == SubSeq(z, 1, k)
  <2>1. s \in Seq(Seq(X)) /\ <<>> \in Seq(X)
    BY <1>2
  <2> HIDE DEF s
  <2>2. FlattenSeq(s) \in Seq(X)
    BY <2>1, FlattenMore
  <2> QED BY <2>2 DEF FlattenTo, s
<1>7. FlattenTo(z, 0) = <<>> /\ FlattenTo(z, n) = FlattenSeq(z)
  BY <1>3, FlattenNothing DEF FlattenTo
<1> QED BY <1>5, <1>6, <1>7 DEF FlattensTo

LEMMA ShiftNone ==
  ASSUME NEW z \in Seq(Seq(Nat))
  PROVE  Shifted(z, 0) = z
<1>1. /\ Shifted(z, 0) \in Seq(Seq(Nat)) /\ Len(Shifted(z, 0)) = Len(z)
      /\ \A j \in 1..Len(z) : Shifted(z, 0)[j] = [k \in 1..Len(z[j]) |-> z[j][k] + 0]
  BY ShiftedType DEF ShiftedOf
<1>2. ASSUME NEW j \in 1..Len(z) PROVE z[j] = [k \in 1..Len(z[j]) |-> z[j][k] + 0]
  <2>1. z[j] \in Seq(Nat)
    OBVIOUS
  <2> DEFINE g == z[j]
  <2>2. g \in Seq(Nat)
    BY <2>1
  <2> HIDE DEF g
  <2>3. g = [k \in 1..Len(g) |-> g[k] + 0]
    <3>1. g = [k \in 1..Len(g) |-> g[k]] /\ \A k \in 1..Len(g) : g[k] = g[k] + 0
      BY <2>2
    <3> QED BY <3>1
  <2> QED BY <2>3 DEF g
<1> DEFINE s == Shifted(z, 0)
<1>3. s \in Seq(Seq(Nat)) /\ Len(s) = Len(z) /\ \A j \in 1..Len(z) : s[j] = z[j]
  BY <1>1, <1>2
<1> HIDE DEF s
<1>4. s = z
  BY <1>3, SameSequence
<1> QED BY <1>4 DEF s

LEMMA MarkedTogether ==
  ASSUME NEW a \in Seq(Seq(Nat)), NEW b \in Seq(Seq(Nat)), NEW i \in Nat
  PROVE  Marked(a \o b, i) = Marked(a, i) \o Marked(b, i)
<1> DEFINE u == Marked(a, i)
           v == Marked(b, i)
           w == Marked(a \o b, i)
           n == Len(a)
           m == Len(b)
           ab == a \o b
<1>1. /\ ab \in Seq(Seq(Nat)) /\ Len(ab) = n + m /\ n \in Nat /\ m \in Nat
      /\ \A k \in 1..n : ab[k] = a[k]
      /\ \A k \in 1..m : ab[n + k] = b[k]
  BY Chained
<1>2. u \in Seq(SuperFace) /\ Len(u) = n /\ v \in Seq(SuperFace) /\ Len(v) = m
  BY MarkedType
<1>3. w \in Seq(SuperFace) /\ Len(w) = n + m
  <2> HIDE DEF ab
  <2>1. Marked(ab, i) \in Seq(SuperFace) /\ Len(Marked(ab, i)) = Len(ab)
    BY <1>1, MarkedType
  <2> QED BY <1>1, <2>1 DEF ab
<1>4. /\ \A k \in 1..n : u[k] = [mesh |-> i, face |-> a[k]]
      /\ \A k \in 1..m : v[k] = [mesh |-> i, face |-> b[k]]
      /\ \A k \in 1..(n + m) : w[k] = [mesh |-> i, face |-> ab[k]]
  BY <1>1 DEF Marked
<1> HIDE DEF u, v, w, ab, n, m
<1>5. /\ u \o v \in Seq(SuperFace) /\ Len(u \o v) = n + m
      /\ \A k \in 1..n : (u \o v)[k] = u[k]
      /\ \A k \in 1..m : (u \o v)[n + k] = v[k]
  <2> DEFINE t == u \o v
  <2>1. t = u \o v
    OBVIOUS
  <2> HIDE DEF t
  <2>2. t \in Seq(SuperFace) /\ JoinedAs(t, u, v, n, m)
    BY <1>2, <2>1, ChainedAs
  <2> QED BY <2>2 DEF t, JoinedAs
<1>6. ASSUME NEW k \in 1..Len(w) PROVE w[k] = (u \o v)[k]
  <2>1. k \in 1..(n + m) /\ w[k] = [mesh |-> i, face |-> ab[k]]
    BY <1>3, <1>4
  <2>2. CASE k \in 1..n
    BY <1>1, <1>4, <1>5, <2>1, <2>2
  <2>3. CASE k \notin 1..n
    <3> DEFINE j == k - n
    <3>1. j \in 1..m /\ k = n + j
      BY <1>1, <2>1, <2>3
    <3> HIDE DEF j
    <3> QED BY <1>1, <1>4, <1>5, <2>1, <3>1
  <2> QED BY <2>2, <2>3
<1>7. w = u \o v
  BY <1>3, <1>5, <1>6, SameSequence
<1> QED BY <1>7 DEF u, v, w, ab

\* Chunks, and one more behind them that is of mesh i alone.
OneMoreChunk(cs, new, i) ==
  /\ new \in Seq(Chunk) \ {<<>>} /\ Len(new) = Len(cs) + 1
  /\ \A n \in 1..Len(cs) : new[n] = cs[n]
  /\ MeshesOfChunk(new[Len(cs) + 1]) = {i} /\ Last(new).meshes # <<>>

LEMMA LayPart ==
  ASSUME NEW cs, NEW vs, NEW fs, NEW all, LaidOut(cs, vs, fs, all),
         NEW i \in Nat \ {0}, NEW part, PartOK(part), NEW new,
         new = Grow(Append(cs, NewChunk(EndVertex(cs), EndFace(cs))), i,
                    Len(part.vertices), Len(part.faces))
  PROVE  /\ LaidOut(new, vs \o part.vertices, fs \o part.faces, all \o Marked(PartFaces(part), i))
         /\ OneMoreChunk(cs, new, i)
<1> DEFINE c == NewChunk(EndVertex(cs), EndFace(cs))
           at == Append(cs, c)
           n == Len(part.vertices)
           m == Len(part.faces)
<1>1. c.meshes = <<>> /\ c.vertTo = EndVertex(cs) /\ c.vertFrom = EndVertex(cs)
      /\ c.triTo = EndFace(cs) /\ c.triFrom = EndFace(cs)
  BY DEF NewChunk
<1>2. new = Grow(at, i, n, m)
  OBVIOUS
<1>3. LaidTo(at, vs, fs, all) /\ c \in Chunk /\ cs \in Seq(Chunk)
  <2>1. LaidTo(at, vs, fs, all) /\ c \in Chunk
    BY BeginChunk
  <2>2. cs \in Seq(Chunk)
    BY DEF LaidOut, LaidTo
  <2> QED BY <2>1, <2>2
<1> HIDE DEF c
<1>4. /\ at \in Seq(Chunk) \ {<<>>} /\ Len(at) = Len(cs) + 1 /\ Len(cs) \in Nat /\ Last(at) = c
      /\ at[Len(cs) + 1] = c /\ \A q \in 1..Len(cs) : at[q] = cs[q]
  BY <1>3, Appended
<1> HIDE DEF at
<1>5. /\ part.faces \in Seq(Seq(Nat)) /\ n \in Nat \ {0} /\ m \in Nat \ {0}
      /\ n <= MaxChunkVertices /\ m <= MaxChunkFaces
  BY DEF PartOK, PartFits, Part
<1>6. EndVertex(cs) \in Nat /\ EndFace(cs) \in Nat
  BY <1>1, <1>3 DEF Chunk
<1>7. Room(c) = 0 /\ c.triTo - c.triFrom = 0
  BY <1>1, <1>6 DEF Room
<1>8. HasRoomFor(Last(at), part)
  <2>1. 0 + n <= MaxChunkVertices /\ 0 + m <= MaxChunkFaces
    BY <1>5
  <2> QED BY <1>4, <1>7, <2>1 DEF HasRoomFor
<1>9. LaidOut(Grow(at, i, n, m), vs \o part.vertices,
              fs \o Shifted(part.faces, Room(Last(at))), all \o Marked(PartFaces(part), i))
  BY <1>3, <1>4, <1>8, LayMore
<1>10. Shifted(part.faces, Room(Last(at))) = part.faces
  BY <1>4, <1>5, <1>7, ShiftNone
<1>11. Grown(at, new, i, n, m)
  <2> HIDE DEF n, m
  <2> QED BY <1>2, <1>4, <1>5, GrownChunk
<1> DEFINE d == new[Len(at)]
           en == [mesh |-> i, vertFrom |-> c.vertTo, vertTo |-> c.vertTo + n,
                  triFrom |-> c.triTo, triTo |-> c.triTo + m]
<1>12. /\ new \in Seq(Chunk) \ {<<>>} /\ Len(new) = Len(at) /\ Last(new) = d
       /\ \A q \in 1..(Len(at) - 1) : new[q] = at[q]
       /\ ToSet(d.meshes) = ToSet(c.meshes) \cup {en}
  <2>1. at[Len(at)] = c
    BY <1>4
  <2> HIDE DEF n, m
  <2> QED BY <1>11, <2>1 DEF Grown
<1>13. MeshesOfChunk(d) = {i} /\ d.meshes # <<>>
  <2>1. ToSet(<<>>) = {}
    BY DEF ToSet
  <2>2. ToSet(d.meshes) = {en} /\ en.mesh = i
    BY <1>1, <1>12, <2>1
  <2> HIDE DEF d, en
  <2> QED BY <2>1, <2>2 DEF MeshesOfChunk
<1>14. \A q \in 1..Len(cs) : new[q] = cs[q]
  <2>1. Len(at) - 1 = Len(cs)
    BY <1>4
  <2> QED BY <1>4, <1>12, <2>1
<1>15. OneMoreChunk(cs, new, i)
  BY <1>4, <1>12, <1>13, <1>14 DEF OneMoreChunk
<1> QED BY <1>2, <1>9, <1>10, <1>15

VerticesOf(parts) == [p \in 1..Len(parts) |-> parts[p].vertices]

FacesOfParts(parts) == [p \in 1..Len(parts) |-> parts[p].faces]

Shown(parts) == [p \in 1..Len(parts) |-> PartFaces(parts[p])]

\* Behind cs, each part has a chunk of its own.
PartChunks(cs, new, i, n) ==
  /\ new \in Seq(Chunk) \ {<<>>} /\ Len(new) = Len(cs) + n
  /\ \A m \in 1..Len(cs) : new[m] = cs[m]
  /\ \A m \in (Len(cs) + 1)..(Len(cs) + n) : MeshesOfChunk(new[m]) = {i}

LEMMA PutPartIs ==
  ASSUME NEW cs \in Seq(Chunk) \ {<<>>}, NEW part \in Part, NEW i \in Nat \ {0}
  PROVE  /\ PutPart(cs, part, i) \in Seq(Chunk) \ {<<>>}
         /\ Last(cs).meshes = <<>> =>
              PutPart(cs, part, i) = Grow(cs, i, Len(part.vertices), Len(part.faces))
         /\ Last(cs).meshes # <<>> =>
              PutPart(cs, part, i) = Grow(Append(cs, NewChunk(EndVertex(cs), EndFace(cs))), i,
                                          Len(part.vertices), Len(part.faces))
<1> DEFINE n == Len(part.vertices)
           m == Len(part.faces)
           c == NewChunk(EndVertex(cs), EndFace(cs))
           at == IF Last(cs).meshes = <<>> THEN cs ELSE Append(cs, c)
<1>1. n \in Nat /\ m \in Nat
  BY DEF Part
<1>2. Last(cs) \in Chunk
  BY FrontAndLast
<1>3. EndVertex(cs) = Last(cs).vertTo /\ EndFace(cs) = Last(cs).triTo
  BY DEF EndVertex, EndFace
<1>4. EndVertex(cs) \in Nat /\ EndFace(cs) \in Nat
  BY <1>2, <1>3 DEF Chunk
<1>5. c \in Chunk
  BY <1>4 DEF NewChunk, Chunk
<1>6. PutPart(cs, part, i) = Grow(at, i, n, m)
  BY <1>3 DEF PutPart
<1> HIDE DEF c, n, m
<1>7. at \in Seq(Chunk) \ {<<>>}
  BY <1>5, Appended
<1> HIDE DEF at
<1>8. Grown(at, Grow(at, i, n, m), i, n, m)
  BY <1>1, <1>7, GrownChunk
<1>9. Grow(at, i, n, m) \in Seq(Chunk) \ {<<>>}
  BY <1>8 DEF Grown
<1> QED BY <1>6, <1>9 DEF at, c, n, m

LEMMA PartsLaid ==
  ASSUME NEW cs, NEW vs, NEW fs, NEW all, LaidOut(cs, vs, fs, all), NEW i \in Nat \ {0},
         NEW parts \in Seq(Part) \ {<<>>}, \A p \in 1..Len(parts) : PartOK(parts[p]),
         NEW at, at = Append(cs, NewChunk(EndVertex(cs), EndFace(cs))),
         NEW new, new = PutParts(at, parts, i)
  PROVE  /\ LaidOut(new, vs \o FlattenSeq(VerticesOf(parts)), fs \o FlattenSeq(FacesOfParts(parts)),
                    all \o Marked(PartsFaces(parts), i))
         /\ PartChunks(cs, new, i, Len(parts))
<1> DEFINE A == Seq(Chunk) \ {<<>>}
           S == {part \in Part : PartOK(part)}
           n == Len(parts)
           V == VerticesOf(parts)
           F == FacesOfParts(parts)
           G == Shown(parts)
           l == Len(cs)
<1>1. n \in Nat \ {0}
  OBVIOUS
<1>2. \A p \in 1..n : parts[p] \in Part /\ PartOK(parts[p])
  OBVIOUS
<1>3. parts \in Seq(S)
  <2>1. \A p \in 1..n : parts[p] \in S
    BY <1>2
  <2>2. parts = [p \in 1..n |-> parts[p]]
    OBVIOUS
  <2> HIDE DEF S, n
  <2>3. [p \in 1..n |-> parts[p]] \in Seq(S)
    BY <1>1, <2>1
  <2> QED BY <2>2, <2>3
<1>4. ASSUME NEW p \in 1..n
      PROVE  /\ parts[p].vertices \in Seq(Nat) /\ parts[p].faces \in Seq(Seq(Nat))
             /\ PartFaces(parts[p]) \in Seq(Seq(Nat))
  <2>1. PartFits(parts[p])
    BY <1>2 DEF PartOK
  <2> QED BY <2>1, PartFacesType DEF PartFits, Part
<1>5. /\ V \in Seq(Seq(Nat)) /\ Len(V) = n /\ \A p \in 1..n : V[p] = parts[p].vertices
      /\ F \in Seq(Seq(Seq(Nat))) /\ Len(F) = n /\ \A p \in 1..n : F[p] = parts[p].faces
      /\ G \in Seq(Seq(Seq(Nat))) /\ Len(G) = n /\ \A p \in 1..n : G[p] = PartFaces(parts[p])
  <2>1. V = [p \in 1..n |-> parts[p].vertices]
    BY DEF VerticesOf
  <2>2. F = [p \in 1..n |-> parts[p].faces]
    BY DEF FacesOfParts
  <2>3. G = [p \in 1..n |-> PartFaces(parts[p])]
    BY DEF Shown
  <2> HIDE DEF V, F, G, n
  <2>4. V \in Seq(Seq(Nat)) /\ Len(V) = n /\ \A p \in 1..n : V[p] = parts[p].vertices
    BY <1>1, <1>4, <2>1
  <2>5. F \in Seq(Seq(Seq(Nat))) /\ Len(F) = n /\ \A p \in 1..n : F[p] = parts[p].faces
    BY <1>1, <1>4, <2>2
  <2>6. G \in Seq(Seq(Seq(Nat))) /\ Len(G) = n /\ \A p \in 1..n : G[p] = PartFaces(parts[p])
    BY <1>1, <1>4, <2>3
  <2> QED BY <2>4, <2>5, <2>6
<1>6. PartsFaces(parts) = FlattenSeq(G)
  BY DEF PartsFaces, Shown
<1>7. /\ cs \in Seq(Chunk) /\ l \in Nat /\ vs \in Seq(Nat) /\ fs \in Seq(Seq(Nat)) /\ all \in Seq(SuperFace)
  BY DEF LaidOut, LaidTo
<1>8. at \in A /\ Last(at).meshes = <<>>
  <2> DEFINE c == NewChunk(EndVertex(cs), EndFace(cs))
  <2>1. c \in Chunk /\ c.meshes = <<>>
    BY BeginChunk DEF NewChunk
  <2>2. at = Append(cs, c)
    OBVIOUS
  <2> HIDE DEF c
  <2> QED BY <1>7, <2>1, <2>2, Appended
<1>9. PICK p \in [0..n -> A] :
        /\ p[0] = at /\ new = p[n]
        /\ \A k \in 1..n : p[k] = PutPart(p[k - 1], parts[k], i)
  <2>1. \A a \in A, x \in S : PutPart(a, x, i) \in A
    BY PutPartIs
  <2> HIDE DEF A, S
  <2>2. PutPartTo(A, at, parts, i)
    BY <1>3, <1>8, <2>1, PutPartInTurn
  <2> QED BY <2>2 DEF PutPartTo
<1> HIDE DEF V, F, G
<1>10. FlattensTo(Nat, V) /\ FlattensTo(Seq(Nat), F) /\ FlattensTo(Seq(Nat), G)
  <2>1. FlattensTo(Nat, V)
    BY <1>5, FlattenNext
  <2>2. FlattensTo(Seq(Nat), F)
    BY <1>5, FlattenNext
  <2>3. FlattensTo(Seq(Nat), G)
    BY <1>5, FlattenNext
  <2> QED BY <2>1, <2>2, <2>3
<1> DEFINE Laid(k) == /\ LaidOut(p[k], vs \o FlattenTo(V, k), fs \o FlattenTo(F, k),
                                 all \o Marked(FlattenTo(G, k), i))
                      /\ PartChunks(cs, p[k], i, k)
                      /\ Last(p[k]).meshes # <<>>
           K == {k \in 0..n : k # 0 => Laid(k)}
<1> HIDE DEF n, l
<1>11. 0 \in K
  BY <1>1
<1>12. ASSUME NEW k \in 1..n, k - 1 \in K PROVE k \in K
  <2> DEFINE j == k - 1
             part == parts[k]
             FV == FlattenTo(V, j)
             FF == FlattenTo(F, j)
             FG == FlattenTo(G, j)
  <2>1. j \in 0..n /\ k \in 0..n /\ k \in Nat \ {0} /\ j \in Nat /\ k = j + 1
    BY <1>1
  <2>2. p[k] = PutPart(p[j], part, i) /\ p[j] \in A /\ part \in Part /\ PartOK(part)
    BY <1>2, <1>9, <2>1 DEF n
  <2>3. /\ FV \in Seq(Nat) /\ FlattenTo(V, k) = FV \o part.vertices /\ part.vertices \in Seq(Nat)
    BY <1>4, <1>5, <1>10, <2>1 DEF FlattensTo, n
  <2>4. /\ FF \in Seq(Seq(Nat)) /\ FlattenTo(F, k) = FF \o part.faces /\ part.faces \in Seq(Seq(Nat))
    BY <1>4, <1>5, <1>10, <2>1 DEF FlattensTo, n
  <2>5. /\ FG \in Seq(Seq(Nat)) /\ FlattenTo(G, k) = FG \o PartFaces(part)
        /\ PartFaces(part) \in Seq(Seq(Nat))
    BY <1>4, <1>5, <1>10, <2>1 DEF FlattensTo, n
  <2>6. k # 1 => Laid(j)
    BY <1>12, <2>1
  <2>7. k = 1 => FV = <<>> /\ FF = <<>> /\ FG = <<>>
    BY <1>10, <2>1 DEF FlattensTo
  <2> DEFINE before == IF k = 1 THEN cs ELSE p[j]
  <2>8. p[k] = Grow(Append(before, NewChunk(EndVertex(before), EndFace(before))), i,
                    Len(part.vertices), Len(part.faces))
    <3>1. CASE k = 1
      <4>1. p[j] = at /\ before = cs
        BY <1>9, <3>1
      <4> HIDE DEF j, part, before
      <4>2. p[k] = Grow(at, i, Len(part.vertices), Len(part.faces))
        BY <1>8, <2>2, <4>1, PutPartIs
      <4> QED BY <4>1, <4>2
    <3>2. CASE k # 1
      <4>1. Last(p[j]).meshes # <<>> /\ before = p[j]
        BY <2>6, <3>2
      <4> HIDE DEF j, part, before
      <4>2. p[k] = Grow(Append(p[j], NewChunk(EndVertex(p[j]), EndFace(p[j]))), i,
                        Len(part.vertices), Len(part.faces))
        BY <2>2, <4>1, PutPartIs
      <4> QED BY <4>1, <4>2
    <3> QED BY <3>1, <3>2
  <2>9. k # 1 => /\ LaidOut(before, vs \o FV, fs \o FF, all \o Marked(FG, i))
                 /\ PartChunks(cs, before, i, j)
    BY <2>6
  <2>10. LaidOut(before, vs \o FV, fs \o FF, all \o Marked(FG, i))
    <3>1. CASE k # 1
      BY <2>9, <3>1
    <3>2. CASE k = 1
      <4>1. Marked(<<>>, i) = <<>>
        <5>1. Len(<<>>) = 0 /\ 1..0 = {}
          OBVIOUS
        <5> QED BY <5>1 DEF Marked
      <4>2. vs \o <<>> = vs /\ fs \o <<>> = fs /\ all \o <<>> = all
        BY <1>7, WithNothing
      <4>3. before = cs
        BY <3>2
      <4> QED BY <2>7, <3>2, <4>1, <4>2, <4>3
    <3> QED BY <3>1, <3>2
  <2> HIDE DEF part, FV, FF, FG, j
  <2>11. /\ LaidOut(p[k], (vs \o FV) \o part.vertices, (fs \o FF) \o part.faces,
                    (all \o Marked(FG, i)) \o Marked(PartFaces(part), i))
         /\ OneMoreChunk(before, p[k], i)
    <3> HIDE DEF before
    <3> QED BY <2>2, <2>8, <2>10, LayPart
  <2>12. (vs \o FV) \o part.vertices = vs \o FlattenTo(V, k)
    <3> DEFINE w == part.vertices
    <3>1. vs \in Seq(Nat) /\ FV \in Seq(Nat) /\ w \in Seq(Nat)
      BY <1>7, <2>3
    <3> HIDE DEF w
    <3>2. Regrouped(vs, FV, w)
      BY <3>1, ChainedThrice
    <3> QED BY <2>3, <3>2 DEF w, Regrouped
  <2>13. (fs \o FF) \o part.faces = fs \o FlattenTo(F, k)
    <3> DEFINE w == part.faces
    <3>1. fs \in Seq(Seq(Nat)) /\ FF \in Seq(Seq(Nat)) /\ w \in Seq(Seq(Nat))
      BY <1>7, <2>4
    <3> HIDE DEF w
    <3>2. Regrouped(fs, FF, w)
      BY <3>1, ChainedThrice
    <3> QED BY <2>4, <3>2 DEF w, Regrouped
  <2>14. (all \o Marked(FG, i)) \o Marked(PartFaces(part), i) = all \o Marked(FlattenTo(G, k), i)
    <3>1. Marked(FG, i) \in Seq(SuperFace) /\ Marked(PartFaces(part), i) \in Seq(SuperFace)
      BY <2>5, MarkedType
    <3>2. Marked(FlattenTo(G, k), i) = Marked(FG, i) \o Marked(PartFaces(part), i)
      BY <2>5, MarkedTogether
    <3> DEFINE a == Marked(FG, i)
               b == Marked(PartFaces(part), i)
    <3>3. all \in Seq(SuperFace) /\ a \in Seq(SuperFace) /\ b \in Seq(SuperFace)
      BY <1>7, <3>1
    <3> HIDE DEF a, b
    <3>4. Regrouped(all, a, b)
      BY <3>3, ChainedThrice
    <3> QED BY <3>2, <3>4 DEF a, b, Regrouped
  <2>15. LaidOut(p[k], vs \o FlattenTo(V, k), fs \o FlattenTo(F, k),
                 all \o Marked(FlattenTo(G, k), i))
    BY <2>11, <2>12, <2>13, <2>14
  <2>16. PartChunks(cs, p[k], i, k)
    <3>1. /\ Len(before) = l + j /\ \A q \in 1..l : before[q] = cs[q]
          /\ \A q \in (l + 1)..(l + j) : MeshesOfChunk(before[q]) = {i}
      <4>1. CASE k = 1
        <5>1. before = cs /\ j = 0 /\ (l + 1)..(l + j) = {} /\ Len(cs) = l
          BY <1>7, <2>1, <4>1 DEF l
        <5> QED BY <1>7, <5>1
      <4>2. CASE k # 1
        BY <2>9, <4>2 DEF PartChunks, l
      <4> QED BY <4>1, <4>2
    <3> HIDE DEF before
    <3>2. /\ p[k] \in Seq(Chunk) \ {<<>>} /\ Len(p[k]) = Len(before) + 1
          /\ \A q \in 1..Len(before) : p[k][q] = before[q]
          /\ MeshesOfChunk(p[k][Len(before) + 1]) = {i}
      BY <2>11 DEF OneMoreChunk
    <3>3. Len(p[k]) = l + k
      BY <1>7, <2>1, <3>1, <3>2
    <3>4. ASSUME NEW q \in 1..l PROVE p[k][q] = cs[q]
      <4>1. q \in 1..Len(before)
        BY <1>7, <2>1, <3>1
      <4> QED BY <3>1, <3>2, <4>1
    <3>5. ASSUME NEW q \in (l + 1)..(l + k) PROVE MeshesOfChunk(p[k][q]) = {i}
      <4>1. CASE q = l + k
        <5>1. q = Len(before) + 1
          BY <1>7, <2>1, <3>1, <4>1
        <5> QED BY <3>2, <5>1
      <4>2. CASE q # l + k
        <5>1. q \in (l + 1)..(l + j) /\ q \in 1..Len(before)
          BY <1>7, <2>1, <3>1, <4>2
        <5> QED BY <3>1, <3>2, <5>1
      <4> QED BY <4>1, <4>2
    <3> QED BY <3>2, <3>3, <3>4, <3>5 DEF PartChunks, l
  <2>17. Last(p[k]).meshes # <<>>
    BY <2>11 DEF OneMoreChunk
  <2> QED BY <2>1, <2>15, <2>16, <2>17
<1> HIDE DEF K
<1>13. n \in K
  <2>1. \A k \in 0..n : k \in K
    BY <1>1, <1>11, <1>12, UpTo
  <2> QED BY <1>1, <2>1
<1>14. /\ FlattenTo(V, n) = FlattenSeq(V) /\ FlattenTo(F, n) = FlattenSeq(F)
       /\ FlattenTo(G, n) = FlattenSeq(G)
  BY <1>5, <1>10 DEF FlattensTo, n
<1>15. Laid(n)
  BY <1>1, <1>13 DEF K
<1> QED BY <1>6, <1>9, <1>14, <1>15 DEF V, F, n

-----------------------------------------------------------------------------
(* The meshes of the supermesh.                                            *)

MeshFacts(i) ==
  LET mesh == meshMapping[i]
      z == FacesOfMesh(i)
  IN  /\ mesh.vertices \in Nat \ {0} /\ mesh.faces \in Seq(Seq(Nat))
      /\ Len(mesh.faces) \in Nat \ {0} /\ VertexOffset(i) \in Nat
      /\ z \in Seq(Seq(Nat) \ {<<>>}) /\ z # <<>> /\ z \in Seq(Seq(Nat))
      /\ Len(z) = Len(mesh.faces) /\ Listed(i) = Marked(z, i)
      /\ \A j \in 1..Len(mesh.faces) :
           /\ Len(mesh.faces[j]) \in Nat \ {0} /\ mesh.faces[j] \in Seq(Nat)
           /\ Len(z[j]) = Len(mesh.faces[j]) /\ Len(z[j]) <= MaxChunkVertices
           /\ z[j] = [k \in 1..Len(mesh.faces[j]) |-> mesh.faces[j][k] + VertexOffset(i)]
           /\ \A k \in 1..Len(mesh.faces[j]) :
                mesh.faces[j][k] \in Nat /\ mesh.faces[j][k] < mesh.vertices

LEMMA MeshesAre ==
  ASSUME meshMapping \in RemappedSupermeshes
  PROVE  /\ meshMapping \in Seq(MappedMesh) /\ Len(meshMapping) \in Nat \ {0}
         /\ DOMAIN meshMapping = 1..Len(meshMapping)
BY ChunkAssumption DEF MappedMesh

LEMMA MeshIs ==
  ASSUME meshMapping \in RemappedSupermeshes, NEW i \in 1..Len(meshMapping)
  PROVE  MeshFacts(i)
<1> DEFINE mesh == meshMapping[i]
           fs == mesh.faces
           z == FacesOfMesh(i)
           off == VertexOffset(i)
           n == Len(fs)
<1>1. /\ meshMapping \in Seq(MappedMesh) /\ Len(meshMapping) \in Nat
      /\ DOMAIN meshMapping = 1..Len(meshMapping)
  BY MeshesAre
<1>2. mesh \in MappedMesh
  BY <1>1, ElementOfSeq
<1>3. mesh.vertices \in Nat /\ fs \in Seq(Seq(Nat) \ {<<>>}) \ {<<>>}
  BY <1>2 DEF MappedMesh
<1>4. off \in Nat
  BY <1>1, OffsetsAre
<1>5. ASSUME NEW j \in DOMAIN fs
      PROVE  Len(fs[j]) <= MaxChunkVertices /\ ToSet(fs[j]) \subseteq 0..(mesh.vertices - 1)
  BY <1>1, ChunkAssumption
<1>6. z = [j \in DOMAIN fs |-> [k \in DOMAIN fs[j] |-> fs[j][k] + off]]
  BY DEF FacesOfMesh
<1>7. Listed(i) = [j \in DOMAIN z |-> [mesh |-> i, face |-> z[j]]]
  BY DEF Listed
<1> HIDE DEF mesh, fs, z, off
<1>8. fs \in Seq(Seq(Nat)) /\ n \in Nat \ {0} /\ DOMAIN fs = 1..n
      /\ \A j \in 1..n : fs[j] \in Seq(Nat) \ {<<>>}
  BY <1>3
<1>9. ASSUME NEW j \in 1..n
      PROVE  /\ Len(fs[j]) \in Nat \ {0} /\ DOMAIN fs[j] = 1..Len(fs[j])
             /\ \A k \in 1..Len(fs[j]) : fs[j][k] \in Nat /\ fs[j][k] < mesh.vertices
             /\ z[j] = [k \in 1..Len(fs[j]) |-> fs[j][k] + off]
             /\ z[j] \in Seq(Nat) \ {<<>>} /\ Len(z[j]) = Len(fs[j])
             /\ Len(z[j]) <= MaxChunkVertices
  <2> DEFINE g == fs[j]
             l == Len(g)
  <2>1. g \in Seq(Nat) \ {<<>>} /\ j \in DOMAIN fs
    BY <1>8
  <2>2. l \in Nat \ {0} /\ DOMAIN g = 1..l /\ \A k \in 1..l : g[k] \in Nat
    BY <2>1
  <2>3. \A k \in 1..l : g[k] < mesh.vertices
    <3> TAKE k \in 1..l
    <3>1. g[k] \in ToSet(g)
      BY <2>2 DEF ToSet
    <3>2. g[k] \in 0..(mesh.vertices - 1)
      BY <1>5, <2>1, <3>1
    <3> DEFINE x == g[k]
               y == mesh.vertices
    <3>3. y \in Nat /\ x \in 0..(y - 1)
      BY <1>3, <3>2
    <3> HIDE DEF x, y
    <3>4. x < y
      BY <3>3
    <3> QED BY <3>4 DEF x, y
  <2>4. z[j] = [k \in 1..l |-> g[k] + off]
    BY <1>6, <2>1, <2>2
  <2>5. l <= MaxChunkVertices
    BY <1>5, <2>1
  <2> HIDE DEF g, l
  <2>6. \A k \in 1..l : g[k] + off \in Nat
    BY <1>4, <2>2
  <2>7. z[j] \in Seq(Nat) /\ Len(z[j]) = l
    BY <2>2, <2>4, <2>6
  <2>8. z[j] # <<>>
    BY <2>2, <2>7
  <2> QED BY <2>2, <2>3, <2>4, <2>5, <2>7, <2>8 DEF g, l
<1>10. DOMAIN z = 1..n
  BY <1>6, <1>8
<1>11. z = [j \in 1..n |-> z[j]]
  BY <1>6, <1>10
<1> HIDE DEF n
<1>12. ASSUME NEW T, \A j \in 1..n : z[j] \in T PROVE z \in Seq(T) /\ Len(z) = n
  <2>1. [j \in 1..n |-> z[j]] \in Seq(T) /\ Len([j \in 1..n |-> z[j]]) = n
    BY <1>8, <1>12
  <2> QED BY <1>11, <2>1
<1>13. /\ z \in Seq(Seq(Nat) \ {<<>>}) /\ z \in Seq(Seq(Nat)) /\ Len(z) = n /\ z # <<>>
  <2>1. \A j \in 1..n : z[j] \in Seq(Nat) \ {<<>>} /\ z[j] \in Seq(Nat)
    BY <1>9
  <2>2. z \in Seq(Seq(Nat) \ {<<>>}) /\ z \in Seq(Seq(Nat)) /\ Len(z) = n
    BY <1>12, <2>1
  <2>3. z # <<>>
    <3>1. Len(<<>>) = 0 /\ n # 0
      BY <1>8
    <3> QED BY <2>2, <3>1
  <2> QED BY <2>2, <2>3
<1>14. Listed(i) = Marked(z, i)
  BY <1>7, <1>10, <1>13 DEF Marked
<1>15. mesh.vertices # 0
  <2>1. 1 \in 1..n
    BY <1>8
  <2>2. 1 \in 1..Len(fs[1])
    <3> DEFINE l == Len(fs[1])
    <3>1. l \in Nat \ {0}
      BY <1>9, <2>1
    <3> HIDE DEF l
    <3>2. 1 \in 1..l
      BY <3>1
    <3> QED BY <3>2 DEF l
  <2> DEFINE x == fs[1][1]
  <2>3. x \in Nat /\ x < mesh.vertices
    BY <1>9, <2>1, <2>2
  <2> HIDE DEF x
  <2> QED BY <1>3, <2>3
<1>16. /\ mesh.vertices \in Nat \ {0} /\ fs \in Seq(Seq(Nat))
       /\ Len(fs) \in Nat \ {0} /\ off \in Nat
       /\ z \in Seq(Seq(Nat) \ {<<>>}) /\ z # <<>> /\ z \in Seq(Seq(Nat))
       /\ Len(z) = Len(fs) /\ Listed(i) = Marked(z, i)
       /\ \A j \in 1..Len(fs) :
           /\ Len(fs[j]) \in Nat \ {0} /\ fs[j] \in Seq(Nat)
           /\ Len(z[j]) = Len(fs[j]) /\ Len(z[j]) <= MaxChunkVertices
           /\ z[j] = [k \in 1..Len(fs[j]) |-> fs[j][k] + off]
           /\ \A k \in 1..Len(fs[j]) : fs[j][k] \in Nat /\ fs[j][k] < mesh.vertices
  BY <1>3, <1>4, <1>8, <1>9, <1>13, <1>14, <1>15, Zenon DEF n
<1> QED BY <1>16 DEF MeshFacts, mesh, fs, z, off

LEMMA FacesToAre ==
  ASSUME meshMapping \in RemappedSupermeshes
  PROVE  /\ FacesTo(0) = <<>>
         /\ \A k \in 0..Len(meshMapping) : FacesTo(k) \in Seq(SuperFace)
         /\ \A k \in 1..Len(meshMapping) : FacesTo(k) = FacesTo(k - 1) \o Listed(k)
<1> DEFINE n == Len(meshMapping)
           z == [i \in 1..n |-> Listed(i)]
<1>1. n \in Nat
  BY MeshesAre
<1>2. ASSUME NEW i \in 1..n PROVE Listed(i) \in Seq(SuperFace)
  <2>1. MeshFacts(i)
    BY MeshIs
  <2>2. Listed(i) = Marked(FacesOfMesh(i), i) /\ FacesOfMesh(i) \in Seq(Seq(Nat))
    BY <2>1 DEF MeshFacts
  <2>3. i \in Nat
    BY <1>1
  <2> QED BY <2>2, <2>3, MarkedType
<1> HIDE DEF n
<1>3. z \in Seq(Seq(SuperFace)) /\ Len(z) = n /\ \A i \in 1..n : z[i] = Listed(i)
  BY <1>1, <1>2
<1> HIDE DEF z
<1>4. ASSUME NEW k \in 0..n PROVE FacesTo(k) = FlattenTo(z, k)
  <2> DEFINE s == SubSeq(z, 1, k)
             t == [i \in 1..k |-> Listed(i)]
  <2>1. k \in Nat /\ \A i \in 1..k : i \in 1..n
    BY <1>1
  <2>2. s \in Seq(Seq(SuperFace)) /\ Len(s) = k
    BY <1>1, <1>3
  <2>3. \A i \in 1..k : s[i] = z[i]
    BY <1>1, <1>3
  <2>4. \A i \in 1..k : Listed(i) \in Seq(SuperFace)
    BY <1>2, <2>1
  <2>5. t \in Seq(Seq(SuperFace)) /\ Len(t) = k /\ \A i \in 1..k : t[i] = Listed(i)
    BY <2>1, <2>4
  <2>6. \A i \in 1..k : s[i] = t[i]
    BY <1>3, <2>1, <2>3, <2>5
  <2> HIDE DEF s, t
  <2>7. s = t
    BY <2>2, <2>5, <2>6, SameSequence
  <2> QED BY <2>7 DEF FacesTo, FlattenTo, s, t
<1>5. FlattensTo(SuperFace, z)
  BY <1>3, FlattenNext
<1>6. \A k \in 1..n : k - 1 \in 0..n /\ k \in 0..n
  BY <1>1
<1>7. 0 \in 0..n
  BY <1>1
<1> QED BY <1>3, <1>4, <1>5, <1>6, <1>7 DEF FlattensTo, n

\* The vertices of a mesh, as the supermesh has them.
Own(i) == [v \in 1..meshMapping[i].vertices |-> VertexOffset(i) + v - 1]

LEMMA OffsetsRise ==
  ASSUME meshMapping \in RemappedSupermeshes
  PROVE  \A i \in 1..(Len(meshMapping) + 1) : VertexOffset(i) <= VertexOffset(Len(meshMapping) + 1)
<1> DEFINE n == Len(meshMapping)
           K == {d \in 0..n : VertexOffset(n + 1 - d) <= VertexOffset(n + 1)}
<1>1. n \in Nat /\ meshMapping \in Seq(MappedMesh)
  BY MeshesAre
<1>2. /\ \A i \in 1..(n + 1) : VertexOffset(i) \in Nat
      /\ \A i \in 1..n : VertexOffset(i + 1) = VertexOffset(i) + meshMapping[i].vertices
      /\ \A i \in 1..n : meshMapping[i].vertices \in Nat
  <2>1. \A i \in 1..n : meshMapping[i].vertices \in Nat
    BY MeshIs DEF MeshFacts
  <2> QED BY <1>1, <2>1, OffsetsAre
<1> HIDE DEF n
<1>3. 0 \in K
  <2>1. n + 1 \in 1..(n + 1) /\ n + 1 - 0 = n + 1
    BY <1>1
  <2>2. VertexOffset(n + 1) <= VertexOffset(n + 1)
    BY <1>2, <2>1
  <2> QED BY <1>1, <2>1, <2>2
<1>4. ASSUME NEW d \in 1..n, d - 1 \in K PROVE d \in K
  <2> DEFINE i == n + 1 - d
  <2>1. i \in 1..n /\ i \in 1..(n + 1) /\ i + 1 = n + 1 - (d - 1) /\ i + 1 \in 1..(n + 1) /\ d \in 0..n
    BY <1>1
  <2>2. VertexOffset(i + 1) <= VertexOffset(n + 1)
    BY <1>4, <2>1
  <2> HIDE DEF i
  <2> DEFINE x == VertexOffset(i)
             y == VertexOffset(i + 1)
             u == meshMapping[i].vertices
             w == VertexOffset(n + 1)
  <2>3. n + 1 \in 1..(n + 1)
    BY <1>1
  <2>4. x \in Nat /\ u \in Nat /\ w \in Nat /\ y = x + u /\ y <= w
    BY <1>2, <2>1, <2>2, <2>3
  <2> HIDE DEF x, y, u, w
  <2>5. x <= w
    BY <2>4
  <2> QED BY <2>1, <2>5 DEF x, w, i
<1> HIDE DEF K
<1>5. \A d \in 0..n : d \in K
  BY <1>1, <1>3, <1>4, UpTo
<1>6. ASSUME NEW i \in 1..(n + 1) PROVE VertexOffset(i) <= VertexOffset(n + 1)
  <2>1. n + 1 - i \in 0..n /\ n + 1 - (n + 1 - i) = i
    BY <1>1
  <2>2. n + 1 - i \in K
    BY <1>5, <2>1
  <2> QED BY <2>1, <2>2 DEF K
<1> QED BY <1>6 DEF n

LEMMA RestIs ==
  ASSUME meshMapping \in RemappedSupermeshes, NEW i \in 1..Len(meshMapping)
  PROVE  /\ Own(i) \in Seq(Nat) /\ Len(Own(i)) = meshMapping[i].vertices
         /\ Rest(i) \in Seq(Nat) /\ Rest(i - 1) = Own(i) \o Rest(i)
<1> DEFINE n == Len(meshMapping)
           x == VertexOffset(i)
           y == VertexOffset(i + 1)
           u == meshMapping[i].vertices
           w == VertexOffset(n + 1)
           a == Own(i)
           b == Rest(i)
           c == Rest(i - 1)
<1>1. n \in Nat /\ meshMapping \in Seq(MappedMesh) /\ i \in Nat
  BY MeshesAre
<1>2. i \in 1..(n + 1) /\ i + 1 \in 1..(n + 1) /\ n + 1 \in 1..(n + 1) /\ (i - 1) + 1 = i
  BY <1>1
<1>3. u \in Nat
  BY MeshIs DEF MeshFacts
<1>4. x \in Nat /\ y \in Nat /\ w \in Nat /\ y = x + u
  BY <1>1, <1>2, OffsetsAre
<1>5. y <= w
  BY <1>2, OffsetsRise
<1>6. /\ a = [v \in 1..u |-> x + v - 1]
      /\ b = [v \in 1..(w - y) |-> y + v - 1]
      /\ c = [v \in 1..(w - x) |-> x + v - 1]
  BY <1>2 DEF Own, Rest
<1> HIDE DEF x, y, u, w, a, b, c, n
<1>7. w - y \in Nat /\ w - x \in Nat /\ w - x = u + (w - y)
  BY <1>3, <1>4, <1>5
<1>8. a \in Seq(Nat) /\ Len(a) = u /\ \A v \in 1..u : a[v] = x + v - 1
  <2>1. \A v \in 1..u : x + v - 1 \in Nat
    BY <1>3, <1>4
  <2> QED BY <1>3, <1>6, <2>1
<1>9. b \in Seq(Nat) /\ Len(b) = w - y /\ \A v \in 1..(w - y) : b[v] = y + v - 1
  <2>1. \A v \in 1..(w - y) : y + v - 1 \in Nat
    BY <1>4, <1>7
  <2> QED BY <1>6, <1>7, <2>1
<1>10. c \in Seq(Nat) /\ Len(c) = w - x /\ \A v \in 1..(w - x) : c[v] = x + v - 1
  <2>1. \A v \in 1..(w - x) : x + v - 1 \in Nat
    BY <1>4, <1>7
  <2> QED BY <1>6, <1>7, <2>1
<1> DEFINE t == a \o b
           m == w - y
<1>11. t = a \o b /\ m = w - y
  OBVIOUS
<1> HIDE DEF t, m
<1>12. t \in Seq(Nat) /\ JoinedAs(t, a, b, u, m)
  BY <1>8, <1>9, <1>11, ChainedAs
<1>13. /\ Len(t) = u + m /\ \A v \in 1..u : t[v] = a[v]
       /\ \A v \in 1..m : t[u + v] = b[v]
  BY <1>12 DEF JoinedAs
<1>14. ASSUME NEW v \in 1..Len(c) PROVE c[v] = t[v]
  <2>1. v \in 1..(w - x) /\ c[v] = x + v - 1
    BY <1>10
  <2>2. CASE v \in 1..u
    BY <1>8, <1>13, <2>1, <2>2
  <2>3. CASE v \notin 1..u
    <3> DEFINE j == v - u
    <3>1. j \in 1..m /\ v = u + j
      BY <1>3, <1>4, <1>7, <1>11, <2>1, <2>3
    <3> HIDE DEF j
    <3>2. t[v] = y + j - 1
      BY <1>9, <1>11, <1>13, <3>1
    <3>3. x + v - 1 = y + j - 1
      BY <1>3, <1>4, <1>7, <1>11, <3>1
    <3> QED BY <2>1, <3>2, <3>3
  <2> QED BY <2>2, <2>3
<1>15. c = t
  BY <1>7, <1>10, <1>11, <1>12, <1>13, <1>14, SameSequence
<1> QED BY <1>8, <1>9, <1>11, <1>15 DEF a, b, c, u

-----------------------------------------------------------------------------
(* A mesh is placed.                                                       *)

LEMMA InFront ==
  ASSUME NEW X, NEW a \in Seq(X), NEW b \in Seq(X), NEW s, s = a \o b, NEW n, n = Len(a)
  PROVE  SubSeq(s, 1, n) = a
<1> DEFINE t == SubSeq(s, 1, n)
<1>1. s \in Seq(X) /\ JoinedAs(s, a, b, n, Len(b))
  BY ChainedAs
<1>2. n \in Nat /\ Len(b) \in Nat /\ Len(s) = n + Len(b) /\ \A v \in 1..n : s[v] = a[v]
  BY <1>1 DEF JoinedAs
<1>3. t \in Seq(X) /\ Len(t) = n /\ \A v \in 1..n : t[v] = s[v]
  BY <1>1, <1>2
<1> HIDE DEF t
<1>4. t = a
  BY <1>2, <1>3, SameSequence
<1> QED BY <1>4 DEF t

LEMMA Behind ==
  ASSUME NEW X, NEW a \in Seq(X), NEW b \in Seq(X), NEW s, s = a \o b, NEW n, n = Len(a)
  PROVE  SubSeq(s, n + 1, Len(s)) = b
<1> DEFINE t == SubSeq(s, n + 1, Len(s))
           m == Len(b)
<1>1. s \in Seq(X) /\ JoinedAs(s, a, b, n, m)
  BY ChainedAs
<1>2. n \in Nat /\ m \in Nat /\ Len(s) = n + m /\ \A v \in 1..m : s[n + v] = b[v]
  BY <1>1 DEF JoinedAs
<1>3. t = SubSeq(s, n + 1, n + m)
  BY <1>2
<1> HIDE DEF t, m
<1>4. \A v \in (n + 1)..(n + m) : s[v] \in X
  BY <1>1, <1>2, ElementOfSeq
<1>5. /\ t \in Seq(X) /\ Len(t) = (IF n + 1 <= n + m THEN n + m - (n + 1) + 1 ELSE 0)
      /\ \A v \in 1..(n + m - (n + 1) + 1) : t[v] = s[n + 1 + v - 1]
  BY <1>2, <1>3, <1>4, SubSeqProperties
<1>6. Len(t) = m
  BY <1>2, <1>5
<1>7. ASSUME NEW v \in 1..m PROVE t[v] = b[v]
  <2>1. v \in 1..(n + m - (n + 1) + 1) /\ n + 1 + v - 1 = n + v
    <3>1. n + m - (n + 1) + 1 = m /\ v \in Nat
      BY <1>2
    <3> QED BY <1>2, <3>1
  <2> QED BY <1>2, <1>5, <2>1
<1>8. t = b
  BY <1>5, <1>6, <1>7, SameSequence DEF m
<1> QED BY <1>8 DEF t

IsBehind(s, n, b) == SubSeq(s, n + 1, Len(s)) = b

LEMMA BehindIs ==
  ASSUME NEW X, NEW a \in Seq(X), NEW b \in Seq(X), NEW s, s = a \o b, NEW n, n = Len(a)
  PROVE  IsBehind(s, n, b)
BY Behind DEF IsBehind

\* Where mesh i goes: to the chunk in work, which has room, or to one that is begun.
StartedAs(i, cs) ==
  /\ cs \in Seq(Chunk) \ {<<>>}
  /\ LaidTo(cs, SubSeq(vertices, 1, EndVertex(chunks)), faces, FacesTo(i - 1))
  /\ \/ cs = chunks
     \/ cs = Append(chunks, NewChunk(EndVertex(chunks), EndFace(chunks)))
  /\ IsLarge(meshMapping[i]) => cs = Append(chunks, NewChunk(EndVertex(chunks), EndFace(chunks)))
  /\ ~ IsLarge(meshMapping[i]) =>
       /\ Room(Last(cs)) + meshMapping[i].vertices <= MaxChunkVertices
       /\ Last(cs).triTo - Last(cs).triFrom + Len(meshMapping[i].faces) <= MaxChunkFaces

LEMMA Started ==
  ASSUME RemapInv, NEW i, i = Len(splitMap) + 1, i <= Len(meshMapping)
  PROVE  LET at == StartChunk(meshMapping[i])
         IN  /\ StartedAs(i, at.chunks) /\ at.vertices = Room(Last(at.chunks))
             /\ at.faces = Last(at.chunks).triTo - Last(at.chunks).triFrom
<1> DEFINE mesh == meshMapping[i]
           at == StartChunk(mesh)
           c == NewChunk(EndVertex(chunks), EndFace(chunks))
           begun == Append(chunks, c)
           vs == SubSeq(vertices, 1, EndVertex(chunks))
           fresh == \/ room.finished
                    \/ room.vertices + mesh.vertices > MaxChunkVertices
                    \/ room.faces + Len(mesh.faces) > MaxChunkFaces
           n == Len(splitMap)
<1>1. /\ meshMapping \in RemappedSupermeshes /\ n \in Nat /\ Len(meshMapping) \in Nat
      /\ LaidOut(chunks, vs, faces, FacesTo(n)) /\ RoomOK
  BY MeshesAre DEF RemapInv
<1>2. i \in 1..Len(meshMapping) /\ i - 1 = n
  BY <1>1
<1>3. mesh.vertices \in Nat /\ Len(mesh.faces) \in Nat /\ MaxChunkVertices \in Nat /\ MaxChunkFaces \in Nat
  BY <1>1, <1>2, MeshIs, ChunkAssumption DEF MeshFacts
<1>4. LaidTo(chunks, vs, faces, FacesTo(n)) /\ chunks \in Seq(Chunk)
  BY <1>1 DEF LaidOut, LaidTo
<1>5. LaidTo(begun, vs, faces, FacesTo(n)) /\ c \in Chunk
  <2> HIDE DEF vs
  <2> QED BY <1>1, BeginChunk
<1>6. c.vertFrom = EndVertex(chunks) /\ c.vertTo = EndVertex(chunks)
      /\ c.triFrom = EndFace(chunks) /\ c.triTo = EndFace(chunks)
  BY DEF NewChunk
<1>7. c = IF chunks = <<>> THEN NewChunk(0, 0) ELSE NewChunk(Last(chunks).vertTo, Last(chunks).triTo)
  BY DEF EndVertex, EndFace
<1>8. fresh => at.chunks = begun /\ at.vertices = 0 /\ at.faces = 0
  BY <1>7 DEF StartChunk
<1>9. ~ fresh => at.chunks = chunks /\ at.vertices = room.vertices /\ at.faces = room.faces
  BY DEF StartChunk
<1>10. EndVertex(chunks) \in Nat /\ EndFace(chunks) \in Nat
  BY <1>5, <1>6 DEF Chunk
<1> HIDE DEF at, c
<1>11. begun \in Seq(Chunk) \ {<<>>} /\ Last(begun) = c
  BY <1>4, <1>5, Appended
<1>12. Room(c) = 0 /\ c.triTo - c.triFrom = 0
  BY <1>6, <1>10 DEF Room
<1>13. CASE fresh
  <2>1. ~ IsLarge(mesh) => 0 + mesh.vertices <= MaxChunkVertices /\ 0 + Len(mesh.faces) <= MaxChunkFaces
    BY <1>3 DEF IsLarge
  <2>2. /\ at.chunks = begun /\ at.vertices = Room(Last(at.chunks))
        /\ at.faces = Last(at.chunks).triTo - Last(at.chunks).triFrom
    BY <1>8, <1>11, <1>12, <1>13
  <2> HIDE DEF begun, vs, fresh, mesh
  <2>3. StartedAs(i, begun)
    <3>1. LaidTo(begun, vs, faces, FacesTo(i - 1))
      BY <1>2, <1>5
    <3>2. ~ IsLarge(mesh) => /\ Room(Last(begun)) + mesh.vertices <= MaxChunkVertices
                             /\ Last(begun).triTo - Last(begun).triFrom + Len(mesh.faces) <= MaxChunkFaces
      BY <1>11, <1>12, <2>1
    <3> QED BY <1>11, <3>1, <3>2 DEF StartedAs, begun, c, vs, mesh
  <2> QED BY <2>2, <2>3 DEF at, mesh
<1>14. CASE ~ fresh
  <2>1. /\ chunks # <<>> /\ room.vertices = Room(Last(chunks))
        /\ room.faces = Last(chunks).triTo - Last(chunks).triFrom
        /\ room.vertices \in Nat /\ room.faces \in Nat
    BY <1>1, <1>14 DEF RoomOK
  <2>2. /\ room.vertices + mesh.vertices <= MaxChunkVertices
        /\ room.faces + Len(mesh.faces) <= MaxChunkFaces
    BY <1>3, <1>14, <2>1
  <2>3. ~ IsLarge(mesh)
    BY <1>3, <2>1, <2>2 DEF IsLarge
  <2>4. /\ at.chunks = chunks /\ at.vertices = Room(Last(at.chunks))
        /\ at.faces = Last(at.chunks).triTo - Last(at.chunks).triFrom
    BY <1>9, <1>14, <2>1
  <2> HIDE DEF vs, fresh, mesh
  <2>5. StartedAs(i, chunks)
    <3>1. LaidTo(chunks, vs, faces, FacesTo(i - 1))
      BY <1>2, <1>4
    <3>2. /\ Room(Last(chunks)) + mesh.vertices <= MaxChunkVertices
          /\ Last(chunks).triTo - Last(chunks).triFrom + Len(mesh.faces) <= MaxChunkFaces
      BY <2>1, <2>2
    <3> QED BY <1>4, <2>1, <2>3, <3>1, <3>2 DEF StartedAs, vs, mesh
  <2> QED BY <2>4, <2>5 DEF at, mesh
<1> QED BY <1>13, <1>14

MeshesHad(cs, n) == IF n \in 1..Len(cs) THEN MeshesOfChunk(cs[n]) ELSE {}

MeshesNew(T, n, i) == IF n - 1 \in ToSet(T) THEN {i} ELSE {}

\* The chunks that mesh i is in are new to the map, and have its number.
NewNames(cs, ds, T, i) ==
  /\ ds \in Seq(Chunk) /\ cs \in Seq(Chunk) /\ Len(cs) <= Len(ds) /\ T \in Seq(Nat)
  /\ ToSet(T) \subseteq {n - 1 : n \in 1..Len(ds)}
  /\ \A n \in 1..Len(ds) : MeshesOfChunk(ds[n]) = MeshesHad(cs, n) \cup MeshesNew(T, n, i)

LEMMA NamesMore ==
  ASSUME NEW cs, NEW sm \in Seq(Seq(Nat)), NamesChunks(cs, sm), NEW ds, NEW T,
         NewNames(cs, ds, T, Len(sm) + 1)
  PROVE  NamesChunks(ds, Append(sm, T)) /\ Append(sm, T) \in Seq(Seq(Nat))
<1> DEFINE i == Len(sm) + 1
           new == Append(sm, T)
<1>1. /\ ds \in Seq(Chunk) /\ cs \in Seq(Chunk) /\ Len(cs) <= Len(ds) /\ T \in Seq(Nat)
      /\ ToSet(T) \subseteq {n - 1 : n \in 1..Len(ds)}
      /\ \A n \in 1..Len(ds) : MeshesOfChunk(ds[n]) = MeshesHad(cs, n) \cup MeshesNew(T, n, i)
  BY DEF NewNames
<1>2. /\ new \in Seq(Seq(Nat)) /\ Len(new) = i /\ Len(sm) \in Nat
      /\ new[i] = T /\ \A j \in 1..Len(sm) : new[j] = sm[j]
  <2>1. T \in Seq(Nat)
    BY <1>1
  <2> QED BY <2>1
<1>3. /\ DOMAIN cs = 1..Len(cs) /\ DOMAIN ds = 1..Len(ds) /\ DOMAIN sm = 1..Len(sm)
      /\ Len(cs) \in Nat /\ Len(ds) \in Nat
  BY <1>1
<1>4. /\ \A n \in 1..Len(cs) : MeshesOfChunk(cs[n]) \subseteq 1..Len(sm)
      /\ \A j \in 1..Len(sm) :
           ToSet(sm[j]) = {n - 1 : n \in {m \in 1..Len(cs) : j \in MeshesOfChunk(cs[m])}}
  BY <1>3 DEF NamesChunks
<1>5. DOMAIN new = 1..i
  BY <1>2
<1> HIDE DEF new, i
<1>6. i \in Nat \ {0} /\ i = Len(sm) + 1
  BY <1>2 DEF i
<1>7. ASSUME NEW n \in 1..Len(ds) PROVE MeshesOfChunk(ds[n]) \subseteq 1..i
  <2>1. MeshesHad(cs, n) \subseteq 1..i
    <3>1. \A j \in 1..Len(sm) : j \in 1..i
      BY <1>2, <1>6
    <3> QED BY <1>4, <3>1 DEF MeshesHad
  <2>2. MeshesNew(T, n, i) \subseteq 1..i
    BY <1>6 DEF MeshesNew
  <2> QED BY <1>1, <2>1, <2>2
<1>8. ASSUME NEW j \in 1..Len(sm)
      PROVE  ToSet(new[j]) = {n - 1 : n \in {m \in 1..Len(ds) : j \in MeshesOfChunk(ds[m])}}
  <2>1. j # i /\ new[j] = sm[j]
    BY <1>2, <1>6
  <2>2. {m \in 1..Len(ds) : j \in MeshesOfChunk(ds[m])} = {m \in 1..Len(cs) : j \in MeshesOfChunk(cs[m])}
    <3>1. \A m \in 1..Len(cs) : m \in 1..Len(ds)
      BY <1>1, <1>3
    <3>2. ASSUME NEW m \in 1..Len(ds)
          PROVE  j \in MeshesOfChunk(ds[m]) <=> j \in MeshesHad(cs, m)
      <4>1. j \notin MeshesNew(T, m, i)
        BY <2>1 DEF MeshesNew
      <4> QED BY <1>1, <4>1
    <3> QED BY <3>1, <3>2 DEF MeshesHad
  <2> QED BY <1>4, <2>1, <2>2
<1>9. ToSet(new[i]) = {n - 1 : n \in {m \in 1..Len(ds) : i \in MeshesOfChunk(ds[m])}}
  <2>1. ASSUME NEW m \in 1..Len(ds) PROVE i \in MeshesOfChunk(ds[m]) <=> m - 1 \in ToSet(T)
    <3>1. i \notin MeshesHad(cs, m)
      <4>1. i \notin 1..Len(sm)
        BY <1>2, <1>6
      <4> QED BY <1>4, <4>1 DEF MeshesHad
    <3> QED BY <1>1, <3>1 DEF MeshesNew
  <2>2. {m \in 1..Len(ds) : i \in MeshesOfChunk(ds[m])} = {m \in 1..Len(ds) : m - 1 \in ToSet(T)}
    BY <2>1
  <2>3. ToSet(T) = {n - 1 : n \in {m \in 1..Len(ds) : m - 1 \in ToSet(T)}}
    BY <1>1
  <2> QED BY <1>2, <2>2, <2>3
<1>10. \A j \in 1..i : j \in 1..Len(sm) \/ j = i
  BY <1>2, <1>6
<1>11. NamesChunks(ds, new)
  BY <1>3, <1>5, <1>7, <1>8, <1>9, <1>10 DEF NamesChunks
<1> QED BY <1>2, <1>11 DEF new

\* What is to be shown of a step for the invariant to hold after it.
LEMMA InvAfter ==
  ASSUME RemapInv, meshMapping' = meshMapping, NEW i, i = Len(splitMap) + 1, i <= Len(meshMapping),
         NEW T, splitMap' = Append(splitMap, T), NewNames(chunks, chunks', T, i),
         NEW ws, LaidOut(chunks', ws, faces', FacesTo(i)), vertices' = ws \o Rest(i), RoomOK'
  PROVE  RemapInv'
<1>1. /\ meshMapping \in RemappedSupermeshes /\ splitMap \in Seq(Seq(Nat))
      /\ NamesChunks(chunks, splitMap) /\ Len(meshMapping) \in Nat
  BY MeshesAre DEF RemapInv
<1>2. NamesChunks(chunks', splitMap') /\ splitMap' \in Seq(Seq(Nat))
  BY <1>1, NamesMore
<1>3. Len(splitMap') = i /\ i \in 1..Len(meshMapping)
  BY <1>1
<1>4. FacesTo(Len(splitMap))' = FacesTo(i)
  BY <1>3 DEF FacesTo, Listed, FacesOfMesh, VertexOffset
<1>5. Rest(Len(splitMap))' = Rest(i)
  BY <1>3 DEF Rest, VertexOffset
<1>6. Rest(i) \in Seq(Nat)
  BY <1>1, <1>3, RestIs
<1>7. ws \in Seq(Nat) /\ Len(ws) = EndVertex(chunks')
  BY DEF LaidOut, LaidTo
<1>8. SubSeq(vertices', 1, EndVertex(chunks')) = ws
  BY <1>6, <1>7, InFront
<1>9. LaidOut(chunks', SubSeq(vertices', 1, EndVertex(chunks')), faces', FacesTo(Len(splitMap))')
  BY <1>4, <1>8
<1>10. vertices' = SubSeq(vertices', 1, EndVertex(chunks')) \o Rest(Len(splitMap))'
  BY <1>5, <1>8
<1> QED BY <1>1, <1>2, <1>3, <1>9, <1>10 DEF RemapInv

\* A mesh within the limits joins the chunk in work, or begins one.
LEMMA PlaceMeshKeeps ==
  ASSUME RemapInv, NEW i, i = Len(splitMap) + 1, i <= Len(meshMapping), PlaceMesh(i)
  PROVE  RemapInv'
<1> DEFINE mesh == meshMapping[i]
           at == StartChunk(mesh)
           cs == at.chunks
           vs == SubSeq(vertices, 1, EndVertex(chunks))
           part == [vertices |-> Own(i), faces |-> mesh.faces]
           c == NewChunk(EndVertex(chunks), EndFace(chunks))
           T == <<Len(cs) - 1>>
           nv == mesh.vertices
           nf == Len(mesh.faces)
           off == VertexOffset(i)
           z == FacesOfMesh(i)
           fs == mesh.faces
<1>1. /\ ~ IsLarge(mesh) /\ chunks' = Grow(cs, i, nv, nf)
      /\ faces' = faces \o [j \in DOMAIN fs |-> [k \in DOMAIN fs[j] |-> z[j][k] + at.vertices - off]]
      /\ splitMap' = Append(splitMap, T)
      /\ room' = [vertices |-> at.vertices + nv, faces |-> at.faces + nf, finished |-> FALSE]
      /\ meshMapping' = meshMapping /\ vertices' = vertices
  BY DEF PlaceMesh
<1>2. /\ meshMapping \in RemappedSupermeshes /\ Len(splitMap) \in Nat /\ Len(meshMapping) \in Nat
      /\ vertices = vs \o Rest(Len(splitMap))
      /\ LaidOut(chunks, vs, faces, FacesTo(Len(splitMap)))
  <2>1. meshMapping \in RemappedSupermeshes /\ splitMap \in Seq(Seq(Nat))
    BY DEF RemapInv
  <2>2. Len(splitMap) \in Nat /\ Len(meshMapping) \in Nat
    BY <2>1, MeshesAre
  <2>3. /\ vertices = vs \o Rest(Len(splitMap))
        /\ LaidOut(chunks, vs, faces, FacesTo(Len(splitMap)))
    BY DEF RemapInv
  <2> QED BY <2>1, <2>2, <2>3
<1>3. i \in 1..Len(meshMapping) /\ i \in Nat \ {0} /\ i - 1 = Len(splitMap)
  BY <1>2
<1>4. MeshFacts(i)
  BY <1>2, <1>3, MeshIs
<1>5. /\ nv \in Nat \ {0} /\ nf \in Nat \ {0} /\ fs \in Seq(Seq(Nat)) /\ off \in Nat
      /\ z \in Seq(Seq(Nat)) /\ Len(z) = nf /\ Listed(i) = Marked(z, i) /\ DOMAIN fs = 1..nf
      /\ \A j \in 1..nf :
           /\ Len(fs[j]) \in Nat \ {0} /\ fs[j] \in Seq(Nat) /\ DOMAIN fs[j] = 1..Len(fs[j])
           /\ z[j] = [k \in 1..Len(fs[j]) |-> fs[j][k] + off]
           /\ \A k \in 1..Len(fs[j]) : fs[j][k] \in Nat /\ fs[j][k] < nv
  <2>1. fs \in Seq(Seq(Nat))
    BY <1>4 DEF MeshFacts
  <2>2. DOMAIN fs = 1..nf
    BY <2>1
  <2>3. \A j \in 1..nf : fs[j] \in Seq(Nat) => DOMAIN fs[j] = 1..Len(fs[j])
    OBVIOUS
  <2> QED BY <1>4, <2>2, <2>3 DEF MeshFacts
<1>6. /\ StartedAs(i, cs) /\ at.vertices = Room(Last(cs))
      /\ at.faces = Last(cs).triTo - Last(cs).triFrom
  BY Started
<1>7. /\ cs \in Seq(Chunk) \ {<<>>} /\ LaidTo(cs, vs, faces, FacesTo(i - 1))
      /\ cs = chunks \/ cs = Append(chunks, c)
      /\ Room(Last(cs)) + nv <= MaxChunkVertices
      /\ Last(cs).triTo - Last(cs).triFrom + nf <= MaxChunkFaces
  BY <1>1, <1>6 DEF StartedAs
<1>8. /\ Own(i) \in Seq(Nat) /\ Len(Own(i)) = nv /\ Rest(i) \in Seq(Nat)
      /\ Rest(i - 1) = Own(i) \o Rest(i)
  BY <1>2, <1>3, RestIs
<1>9. part.vertices = Own(i) /\ part.faces = fs /\ part \in Part
  BY <1>5, <1>8 DEF Part
<1>10. MaxChunkVertices \in Nat /\ MaxChunkFaces \in Nat
  BY ChunkAssumption
<1>11. Last(cs) \in Chunk /\ Len(cs) \in Nat \ {0} /\ Last(cs) = cs[Len(cs)]
  BY <1>7, FrontAndLast
<1>12. Room(Last(cs)) \in Nat /\ Last(cs).triTo - Last(cs).triFrom \in Nat
  <2>1. ChunkOK(cs, Len(cs))
    <3>1. Len(cs) \in 1..Len(cs)
      BY <1>11
    <3> QED BY <1>7, <3>1 DEF LaidTo
  <2> QED BY <1>10, <1>11, <2>1 DEF ChunkOK
<1> HIDE DEF at, cs, vs, part, c, nv, nf, off, z, fs, mesh, T
<1>13. PartOK(part)
  <2>1. nv <= MaxChunkVertices /\ nf <= MaxChunkFaces
    <3> DEFINE x == Room(Last(cs))
               y == Last(cs).triTo - Last(cs).triFrom
    <3>1. x \in Nat /\ y \in Nat /\ x + nv <= MaxChunkVertices /\ y + nf <= MaxChunkFaces
      BY <1>7, <1>12
    <3> HIDE DEF x, y
    <3> QED BY <1>5, <1>10, <3>1
  <2>2. Len(fs) = nf
    BY DEF fs, nf
  <2>3. Own(i) # <<>> /\ fs # <<>>
    <3>1. Len(<<>>) = 0
      OBVIOUS
    <3> QED BY <1>5, <1>8, <2>2, <3>1
  <2> QED BY <1>5, <1>8, <1>9, <2>1, <2>2, <2>3 DEF PartOK, PartFits
<1>14. PartFaces(part) = z
  <2> DEFINE w == PartFaces(part)
  <2>1. w \in Seq(Seq(Nat)) /\ Len(w) = Len(fs)
    BY <1>9, <1>13, PartFacesType DEF PartOK
  <2>2. Len(fs) = nf
    BY DEF fs, nf
  <2>3. ASSUME NEW j \in 1..nf PROVE w[j] = z[j]
    <3> DEFINE g == fs[j]
    <3>1. w[j] = [k \in 1..Len(g) |-> Own(i)[g[k] + 1]]
      BY <1>9, <2>2 DEF PartFaces
    <3>2. z[j] = [k \in 1..Len(g) |-> g[k] + off] /\ \A k \in 1..Len(g) : g[k] \in Nat /\ g[k] < nv
      BY <1>5
    <3> HIDE DEF g, w
    <3>3. ASSUME NEW k \in 1..Len(g) PROVE Own(i)[g[k] + 1] = g[k] + off
      <4> DEFINE x == g[k]
      <4>1. x \in Nat /\ x < nv
        BY <3>2
      <4> HIDE DEF x
      <4>2. x + 1 \in 1..nv
        BY <1>5, <4>1
      <4>3. Own(i) = [v \in 1..nv |-> off + v - 1]
        BY DEF Own, nv, off, mesh
      <4>4. Own(i)[x + 1] = off + (x + 1) - 1
        BY <4>2, <4>3
      <4>5. off + (x + 1) - 1 = x + off
        BY <1>5, <4>1
      <4> QED BY <4>4, <4>5 DEF x
    <3> QED BY <3>1, <3>2, <3>3
  <2> HIDE DEF w
  <2>4. w = z
    BY <1>5, <2>1, <2>2, <2>3, SameSequence
  <2> QED BY <2>4 DEF w
<1>15. HasRoomFor(Last(cs), part)
  <2>1. Len(part.vertices) = nv /\ Len(part.faces) = nf
    BY <1>8, <1>9 DEF fs, nf
  <2> QED BY <1>7, <2>1 DEF HasRoomFor
<1>16. LaidOut(Grow(cs, i, Len(part.vertices), Len(part.faces)), vs \o part.vertices,
               faces \o Shifted(part.faces, Room(Last(cs))), FacesTo(i - 1) \o Marked(PartFaces(part), i))
  BY <1>3, <1>7, <1>13, <1>15, LayMore
<1>17. chunks' = Grow(cs, i, Len(part.vertices), Len(part.faces))
  <2>1. Len(part.vertices) = nv /\ Len(part.faces) = nf
    BY <1>8, <1>9 DEF fs, nf
  <2> QED BY <1>1, <2>1
<1>18. faces' = faces \o Shifted(fs, Room(Last(cs)))
  <2> DEFINE r == at.vertices
             moved == [j \in DOMAIN fs |-> [k \in DOMAIN fs[j] |-> z[j][k] + r - off]]
  <2>1. Shifted(fs, r) = [j \in 1..nf |-> [k \in 1..Len(fs[j]) |-> fs[j][k] + r]]
    BY DEF Shifted, nf, fs
  <2>2. r \in Nat /\ r = Room(Last(cs))
    BY <1>6, <1>12
  <2>3. faces' = faces \o moved
    BY <1>1
  <2> HIDE DEF r
  <2>4. ASSUME NEW j \in 1..nf
        PROVE  [k \in DOMAIN fs[j] |-> z[j][k] + r - off] = [k \in 1..Len(fs[j]) |-> fs[j][k] + r]
    <3> DEFINE g == fs[j]
    <3>1. /\ DOMAIN g = 1..Len(g) /\ z[j] = [k \in 1..Len(g) |-> g[k] + off]
          /\ \A k \in 1..Len(g) : g[k] \in Nat
      BY <1>5
    <3> HIDE DEF g
    <3>2. ASSUME NEW k \in 1..Len(g) PROVE z[j][k] + r - off = g[k] + r
      <4>1. z[j][k] = g[k] + off /\ g[k] \in Nat
        BY <3>1
      <4> DEFINE x == g[k]
      <4>2. x \in Nat
        BY <4>1
      <4> HIDE DEF x
      <4>3. x + off + r - off = x + r
        BY <1>5, <2>2, <4>2
      <4> QED BY <4>1, <4>3 DEF x
    <3>3. [k \in DOMAIN g |-> z[j][k] + r - off] = [k \in 1..Len(g) |-> g[k] + r]
      BY <3>1, <3>2
    <3> QED BY <3>3 DEF g
  <2>5. moved = Shifted(fs, r)
    BY <1>5, <2>1, <2>4
  <2> QED BY <2>2, <2>3, <2>5
<1>19. FacesTo(i) = FacesTo(i - 1) \o Marked(z, i)
  BY <1>2, <1>3, <1>5, FacesToAre
<1>20. LaidOut(chunks', vs \o Own(i), faces', FacesTo(i))
  BY <1>9, <1>14, <1>16, <1>17, <1>18, <1>19
<1>21. vertices' = (vs \o Own(i)) \o Rest(i)
  <2>1. vs \in Seq(Nat)
    BY <1>2 DEF LaidOut, LaidTo
  <2>2. Regrouped(vs, Own(i), Rest(i))
    BY <1>8, <2>1, ChainedThrice
  <2> QED BY <1>1, <1>2, <1>3, <1>8, <2>2 DEF Regrouped
<1>22. Grown(cs, chunks', i, nv, nf)
  BY <1>1, <1>3, <1>5, <1>7, GrownChunk
<1> DEFINE d == chunks'[Len(cs)]
           b == cs[Len(cs)]
<1>23. /\ chunks' \in Seq(Chunk) \ {<<>>} /\ Len(chunks') = Len(cs)
       /\ \A q \in 1..(Len(cs) - 1) : chunks'[q] = cs[q]
       /\ Last(chunks') = d /\ Last(cs) = b /\ d \in Chunk /\ b \in Chunk
       /\ d.vertFrom = b.vertFrom /\ d.triFrom = b.triFrom
       /\ d.vertTo = b.vertTo + nv /\ d.triTo = b.triTo + nf
       /\ MeshesOfChunk(d) = MeshesOfChunk(b) \cup {i}
  <2>1. MeshesOfChunk(d) = MeshesOfChunk(b) \cup {i}
    <3> DEFINE en == [mesh |-> i, vertFrom |-> b.vertTo, vertTo |-> b.vertTo + nv,
                      triFrom |-> b.triTo, triTo |-> b.triTo + nf]
    <3>1. ToSet(d.meshes) = ToSet(b.meshes) \cup {en} /\ en.mesh = i
      BY <1>22 DEF Grown
    <3> HIDE DEF en
    <3> QED BY <3>1 DEF MeshesOfChunk
  <2> QED BY <1>22, <2>1 DEF Grown
<1> HIDE DEF d, b
<1>24. NewNames(chunks, chunks', T, i)
  <2>1. chunks \in Seq(Chunk) /\ Len(chunks) \in Nat
    BY <1>2 DEF LaidOut, LaidTo
  <2>2. /\ Len(chunks) <= Len(cs) /\ Len(cs) \in Nat \ {0}
        /\ \A n \in 1..Len(cs) : MeshesOfChunk(cs[n]) = MeshesHad(chunks, n)
    <3>1. CASE cs = chunks
      BY <1>11, <2>1, <3>1 DEF MeshesHad
    <3>2. CASE cs = Append(chunks, c)
      <4>1. c \in Chunk /\ c.meshes = <<>>
        BY <1>2, BeginChunk DEF c, NewChunk
      <4>2. /\ Len(cs) = Len(chunks) + 1 /\ cs[Len(chunks) + 1] = c
            /\ \A n \in 1..Len(chunks) : cs[n] = chunks[n]
        BY <2>1, <3>2, <4>1, Appended
      <4>3. MeshesOfChunk(c) = {}
        <5>1. ToSet(<<>>) = {}
          BY DEF ToSet
        <5> QED BY <4>1, <5>1 DEF MeshesOfChunk
      <4>4. \A n \in 1..Len(cs) : n \in 1..Len(chunks) \/ (n = Len(chunks) + 1 /\ n \notin 1..Len(chunks))
        BY <2>1, <4>2
      <4>5. ASSUME NEW n \in 1..Len(cs) PROVE MeshesOfChunk(cs[n]) = MeshesHad(chunks, n)
        BY <4>2, <4>3, <4>4 DEF MeshesHad
      <4>6. Len(chunks) <= Len(cs)
        BY <2>1, <4>2
      <4> QED BY <1>11, <4>5, <4>6
    <3> QED BY <1>7, <3>1, <3>2
  <2>3. /\ T \in Seq(Nat) /\ ToSet(T) = {Len(cs) - 1}
    <3>1. Len(cs) - 1 \in Nat
      BY <2>2
    <3>2. DOMAIN <<Len(cs) - 1>> = {1} /\ <<Len(cs) - 1>>[1] = Len(cs) - 1
      OBVIOUS
    <3> QED BY <3>1, <3>2 DEF T, ToSet
  <2>4. ASSUME NEW n \in 1..Len(cs)
        PROVE  MeshesOfChunk(chunks'[n]) = MeshesHad(chunks, n) \cup MeshesNew(T, n, i)
    <3>1. CASE n = Len(cs)
      <4>1. MeshesNew(T, n, i) = {i}
        BY <2>3, <3>1 DEF MeshesNew
      <4>2. MeshesOfChunk(chunks'[n]) = MeshesOfChunk(cs[n]) \cup {i}
        BY <1>23, <3>1 DEF d, b
      <4> QED BY <2>2, <4>1, <4>2
    <3>2. CASE n # Len(cs)
      <4>1. n \in 1..(Len(cs) - 1) /\ n - 1 # Len(cs) - 1
        BY <2>2, <3>2
      <4>2. MeshesNew(T, n, i) = {}
        BY <2>3, <4>1 DEF MeshesNew
      <4> QED BY <1>23, <2>2, <4>1, <4>2
    <3> QED BY <3>1, <3>2
  <2>5. ToSet(T) \subseteq {n - 1 : n \in 1..Len(chunks')}
    BY <1>23, <2>2, <2>3
  <2> QED BY <1>23, <2>1, <2>2, <2>3, <2>4, <2>5 DEF NewNames
<1>25. RoomOK'
  <2>1. Room(d) = Room(b) + nv /\ d.triTo - d.triFrom = (b.triTo - b.triFrom) + nf
    <3>1. b.vertTo \in Nat /\ b.vertFrom \in Nat /\ b.triTo \in Nat /\ b.triFrom \in Nat
      BY <1>23 DEF Chunk
    <3>2. Room(b) = b.vertTo - b.vertFrom /\ Room(d) = (b.vertTo + nv) - b.vertFrom
      BY <1>23 DEF Room
    <3> DEFINE x == b.vertTo
               y == b.vertFrom
               u == b.triTo
               w == b.triFrom
    <3>3. /\ x \in Nat /\ y \in Nat /\ u \in Nat /\ w \in Nat
          /\ Room(b) = x - y /\ Room(d) = (x + nv) - y
          /\ d.triTo - d.triFrom = (u + nf) - w
      BY <1>23, <3>1, <3>2
    <3> HIDE DEF x, y, u, w
    <3>4. (x + nv) - y = (x - y) + nv /\ (u + nf) - w = (u - w) + nf
      BY <1>5, <3>3
    <3> QED BY <3>3, <3>4 DEF u, w
  <2>2. at.vertices = Room(b) /\ Room(b) \in Nat /\ b.triTo - b.triFrom \in Nat
    BY <1>6, <1>12, <1>23
  <2>3. at.faces = b.triTo - b.triFrom
    BY <1>6, <1>23
  <2>4. room'.vertices = Room(d) /\ room'.faces = d.triTo - d.triFrom /\ ~ room'.finished
    BY <1>1, <2>1, <2>2, <2>3
  <2>5. at.vertices + nv \in Nat /\ at.faces + nf \in Nat
    BY <1>5, <2>2, <2>3
  <2>6. room' \in [vertices : Nat, faces : Nat, finished : BOOLEAN]
    BY <1>1, <2>5
  <2> QED BY <1>23, <2>4, <2>6 DEF RoomOK
<1> QED BY <1>1, <1>3, <1>20, <1>21, <1>24, <1>25, InvAfter

\* A mesh beyond the limits is cut, and each part begins a chunk.
LEMMA SplitLargeMeshKeeps ==
  ASSUME RemapInv, NEW i, i = Len(splitMap) + 1, i <= Len(meshMapping), SplitLargeMesh(i)
  PROVE  RemapInv'
<1> DEFINE mesh == meshMapping[i]
           at == StartChunk(mesh)
           cs == at.chunks
           vs == SubSeq(vertices, 1, EndVertex(chunks))
           c == NewChunk(EndVertex(chunks), EndFace(chunks))
           z == FacesOfMesh(i)
           parts == CutFaces(z)
           P == Len(parts)
           l == Len(chunks)
           from == Last(cs).vertFrom
           nv == mesh.vertices
           V == FlattenSeq([p \in DOMAIN parts |-> parts[p].vertices])
           F == FlattenSeq([p \in DOMAIN parts |-> parts[p].faces])
           T == [p \in DOMAIN parts |-> Len(cs) + p - 2]
<1>1. /\ IsLarge(mesh) /\ chunks' = PutParts(cs, parts, i) /\ faces' = faces \o F
      /\ vertices' = Fit(from, nv, V) /\ splitMap' = Append(splitMap, T)
      /\ room' = [vertices |-> 0, faces |-> 0, finished |-> TRUE] /\ meshMapping' = meshMapping
  BY DEF SplitLargeMesh
<1>2. /\ meshMapping \in RemappedSupermeshes /\ Len(splitMap) \in Nat /\ Len(meshMapping) \in Nat
      /\ vertices = vs \o Rest(Len(splitMap))
      /\ LaidOut(chunks, vs, faces, FacesTo(Len(splitMap)))
  <2>1. meshMapping \in RemappedSupermeshes /\ splitMap \in Seq(Seq(Nat))
    BY DEF RemapInv
  <2>2. Len(splitMap) \in Nat /\ Len(meshMapping) \in Nat
    BY <2>1, MeshesAre
  <2>3. /\ vertices = vs \o Rest(Len(splitMap))
        /\ LaidOut(chunks, vs, faces, FacesTo(Len(splitMap)))
    BY DEF RemapInv
  <2> QED BY <2>1, <2>2, <2>3
<1>3. i \in 1..Len(meshMapping) /\ i \in Nat \ {0} /\ i - 1 = Len(splitMap)
  BY <1>2
<1>4. MeshFacts(i)
  BY <1>2, <1>3, MeshIs
<1>5. /\ nv \in Nat \ {0} /\ z \in Seq(Seq(Nat) \ {<<>>}) /\ z # <<>> /\ Listed(i) = Marked(z, i)
      /\ \A j \in 1..Len(z) : Len(z[j]) <= MaxChunkVertices
  BY <1>4 DEF MeshFacts
<1>6. StartedAs(i, cs)
  BY Started
<1>7. cs = Append(chunks, c)
  BY <1>1, <1>6 DEF StartedAs
<1>8. /\ Own(i) \in Seq(Nat) /\ Len(Own(i)) = nv /\ Rest(i) \in Seq(Nat)
      /\ Rest(i - 1) = Own(i) \o Rest(i)
  BY <1>2, <1>3, RestIs
<1>9. c \in Chunk /\ c.vertFrom = EndVertex(chunks)
  BY <1>2, BeginChunk DEF NewChunk
<1>10. /\ chunks \in Seq(Chunk) /\ l \in Nat /\ vs \in Seq(Nat) /\ Len(vs) = EndVertex(chunks)
  BY <1>2 DEF LaidOut, LaidTo
<1> HIDE DEF mesh, at, cs, vs, c, z
<1>11. /\ parts \in Seq(Part) \ {<<>>} /\ \A n \in 1..P : PartOK(parts[n])
       /\ PartsFaces(parts) = z
  BY <1>5, CutFacesShow
<1> HIDE DEF parts
<1>12. P \in Nat \ {0} /\ DOMAIN parts = 1..P
  BY <1>11
<1>13. V = FlattenSeq(VerticesOf(parts)) /\ F = FlattenSeq(FacesOfParts(parts))
  BY <1>12 DEF VerticesOf, FacesOfParts
<1> HIDE DEF V, F
<1>14. /\ LaidOut(chunks', vs \o V, faces \o F, FacesTo(i - 1) \o Marked(z, i))
       /\ PartChunks(chunks, chunks', i, P)
  <2>1. cs = Append(chunks, NewChunk(EndVertex(chunks), EndFace(chunks)))
    BY <1>7 DEF c
  <2>2. LaidOut(chunks, vs, faces, FacesTo(i - 1))
    BY <1>2, <1>3
  <2>3. /\ LaidOut(chunks', vs \o FlattenSeq(VerticesOf(parts)), faces \o FlattenSeq(FacesOfParts(parts)),
                   FacesTo(i - 1) \o Marked(PartsFaces(parts), i))
        /\ PartChunks(chunks, chunks', i, P)
    BY <1>1, <1>3, <1>11, <2>1, <2>2, PartsLaid
  <2> QED BY <1>11, <1>13, <2>3
<1>15. LaidOut(chunks', vs \o V, faces', FacesTo(i))
  <2>1. FacesTo(i) = FacesTo(i - 1) \o Marked(z, i)
    BY <1>2, <1>3, <1>5, FacesToAre
  <2> QED BY <1>1, <1>14, <2>1
<1>16. V \in Seq(Nat)
  <2>1. \A p \in 1..P : parts[p].vertices \in Seq(Nat)
    BY <1>11 DEF PartOK, PartFits, Part
  <2> DEFINE w == VerticesOf(parts)
  <2>2. w \in Seq(Seq(Nat))
    BY <1>12, <2>1 DEF VerticesOf
  <2> HIDE DEF w
  <2>3. FlattensTo(Nat, w) /\ Len(w) \in Nat
    BY <2>2, FlattenNext
  <2>4. FlattenSeq(w) \in Seq(Nat)
    BY <2>3 DEF FlattensTo
  <2> QED BY <1>13, <2>4 DEF w
<1>17. vertices' = (vs \o V) \o Rest(i)
  <2> DEFINE n == Len(vs)
  <2>1. n \in Nat
    BY <1>10
  <2>2. from = n
    <3>1. Last(cs) = c
      BY <1>7, <1>9, <1>10, Appended
    <3> QED BY <1>9, <1>10, <3>1
  <2>3. vertices = vs \o (Own(i) \o Rest(i))
    BY <1>2, <1>3, <1>8
  <2>4. Own(i) \o Rest(i) \in Seq(Nat)
    BY <1>8, Chained
  <2> DEFINE both == vs \o Own(i)
             rest == Own(i) \o Rest(i)
  <2>5. both \in Seq(Nat) /\ Len(both) = n + nv
    <3>1. both \in Seq(Nat) /\ JoinedAs(both, vs, Own(i), n, nv)
      BY <1>8, <1>10, ChainedAs
    <3> QED BY <3>1 DEF JoinedAs
  <2>6. vertices = both \o Rest(i)
    <3>1. Regrouped(vs, Own(i), Rest(i))
      BY <1>8, <1>10, ChainedThrice
    <3> QED BY <2>3, <3>1 DEF Regrouped
  <2>7. rest \in Seq(Nat) /\ vertices = vs \o rest
    BY <2>3, <2>4
  <2> HIDE DEF both, n, rest
  <2>8. SubSeq(vertices, 1, n) = vs
    BY <1>10, <2>7, InFront DEF n
  <2>9. SubSeq(vertices, n + nv + 1, Len(vertices)) = Rest(i)
    <3> DEFINE m == n + nv
    <3>1. m = Len(both)
      BY <2>5
    <3> HIDE DEF m
    <3>2. IsBehind(vertices, m, Rest(i))
      BY <1>8, <2>5, <2>6, <3>1, BehindIs
    <3> QED BY <3>2 DEF m, IsBehind
  <2>10. Fit(from, nv, V) = SubSeq(vertices, 1, n) \o V \o SubSeq(vertices, n + nv + 1, Len(vertices))
    BY <2>2 DEF Fit
  <2> QED BY <1>1, <2>8, <2>9, <2>10
<1>18. NewNames(chunks, chunks', T, i)
  <2>1. /\ chunks' \in Seq(Chunk) /\ Len(chunks') = l + P
        /\ \A m \in 1..l : chunks'[m] = chunks[m]
        /\ \A m \in (l + 1)..(l + P) : MeshesOfChunk(chunks'[m]) = {i}
    BY <1>14 DEF PartChunks
  <2>2. Len(cs) = l + 1
    BY <1>7, <1>9, <1>10, Appended
  <2>3. T = [p \in 1..P |-> l + p - 1]
    <3>1. \A p \in 1..P : Len(cs) + p - 2 = l + p - 1
      BY <1>10, <1>12, <2>2
    <3> QED BY <1>12, <3>1
  <2> HIDE DEF P, l, T
  <2>4. T \in Seq(Nat)
    <3>1. \A p \in 1..P : l + p - 1 \in Nat
      BY <1>10, <1>12
    <3> QED BY <1>12, <2>3, <3>1
  <2>5. ToSet(T) = {l + p - 1 : p \in 1..P}
    BY <1>12, <2>3 DEF ToSet
  <2>6. ASSUME NEW n \in 1..(l + P)
        PROVE  /\ n \in 1..l => n - 1 \notin ToSet(T)
               /\ n \notin 1..l => n - 1 \in ToSet(T) /\ n \in (l + 1)..(l + P)
    <3>1. CASE n \in 1..l
      <4>1. \A p \in 1..P : l + p - 1 # n - 1
        BY <1>10, <1>12, <3>1
      <4> QED BY <2>5, <3>1, <4>1
    <3>2. CASE n \notin 1..l
      <4> DEFINE p == n - l
      <4>1. p \in 1..P /\ n - 1 = l + p - 1 /\ n \in (l + 1)..(l + P)
        BY <1>10, <1>12, <3>2
      <4> HIDE DEF p
      <4> QED BY <2>5, <3>2, <4>1
    <3> QED BY <3>1, <3>2
  <2>7. ASSUME NEW n \in 1..(l + P)
        PROVE  MeshesOfChunk(chunks'[n]) = MeshesHad(chunks, n) \cup MeshesNew(T, n, i)
    <3>1. CASE n \in 1..l
      BY <2>1, <2>6, <3>1 DEF MeshesHad, MeshesNew, l
    <3>2. CASE n \notin 1..l
      BY <2>1, <2>6, <3>2 DEF MeshesHad, MeshesNew, l
    <3> QED BY <3>1, <3>2
  <2>8. ToSet(T) \subseteq {n - 1 : n \in 1..(l + P)}
    <3> SUFFICES ASSUME NEW x \in ToSet(T) PROVE x \in {n - 1 : n \in 1..(l + P)}
      OBVIOUS
    <3>1. PICK p \in 1..P : x = l + p - 1
      BY <2>5
    <3>2. l + p \in 1..(l + P) /\ x = (l + p) - 1
      BY <1>10, <1>12, <3>1
    <3> QED BY <3>2
  <2>9. Len(chunks) <= l + P
    BY <1>10, <1>12 DEF l
  <2> QED BY <1>10, <2>1, <2>4, <2>7, <2>8, <2>9 DEF NewNames
<1>19. RoomOK'
  BY <1>1 DEF RoomOK
<1> QED BY <1>1, <1>3, <1>15, <1>17, <1>18, <1>19, InvAfter

LEMMA RemapFirst == Init => RemapInv
<1> SUFFICES ASSUME Init PROVE RemapInv
  OBVIOUS
<1>1. RemapInit
  BY DEF Init
<1>2. /\ meshMapping \in RemappedSupermeshes /\ faces = <<>> /\ chunks = <<>> /\ splitMap = <<>>
      /\ vertices = [v \in 1..VertexOffset(Len(meshMapping) + 1) |-> v - 1]
      /\ room = [vertices |-> 0, faces |-> 0, finished |-> TRUE]
  BY <1>1 DEF RemapInit
<1>3. meshMapping \in Seq(MappedMesh) /\ Len(meshMapping) \in Nat
  BY <1>2, MeshesAre
<1>4. Len(splitMap) = 0 /\ EndVertex(chunks) = 0 /\ EndFace(chunks) = 0
  BY <1>2 DEF EndVertex, EndFace
<1> DEFINE w == VertexOffset(Len(meshMapping) + 1)
<1>5. w \in Nat /\ VertexOffset(1) = 0
  <2>1. Len(meshMapping) + 1 \in 1..(Len(meshMapping) + 1)
    BY <1>3
  <2> QED BY <1>3, <2>1, OffsetsAre
<1>6. vertices = Rest(0)
  <2>1. Rest(0) = [v \in 1..(w - 0) |-> 0 + v - 1]
    BY <1>5 DEF Rest
  <2> HIDE DEF w
  <2>2. 1..(w - 0) = 1..w /\ \A v \in 1..w : 0 + v - 1 = v - 1
    BY <1>5
  <2> QED BY <1>2, <2>1, <2>2 DEF w
<1>7. SubSeq(vertices, 1, 0) = <<>> /\ vertices = <<>> \o vertices
  <2>1. vertices \in Seq(Nat)
    <3> HIDE DEF w
    <3>1. \A v \in 1..w : v - 1 \in Nat
      BY <1>5
    <3>2. vertices = [v \in 1..w |-> v - 1]
      BY <1>2 DEF w
    <3> QED BY <1>5, <3>1, <3>2
  <2> QED BY <2>1, WithNothing
<1>8. LaidOut(<<>>, <<>>, <<>>, <<>>)
  <2>1. Len(<<>>) = 0 /\ 1..0 = {} /\ 1..(0 - 1) = {}
    OBVIOUS
  <2>2. EndVertex(<<>>) = 0 /\ EndFace(<<>>) = 0
    BY DEF EndVertex, EndFace
  <2> QED BY <2>1, <2>2 DEF LaidOut, LaidTo
<1>9. FacesTo(0) = <<>>
  BY <1>2, FacesToAre
<1>10. NamesChunks(<<>>, <<>>)
  BY DEF NamesChunks
<1>11. RoomOK
  BY <1>2 DEF RoomOK
<1>12. SubSeq(vertices, 1, EndVertex(chunks)) = <<>>
  BY <1>4, <1>7
<1>13. LaidOut(chunks, SubSeq(vertices, 1, EndVertex(chunks)), faces, FacesTo(Len(splitMap)))
  BY <1>2, <1>4, <1>8, <1>9, <1>12
<1>14. vertices = SubSeq(vertices, 1, EndVertex(chunks)) \o Rest(Len(splitMap))
  BY <1>4, <1>6, <1>7, <1>12
<1>15. NamesChunks(chunks, splitMap)
  BY <1>2, <1>10
<1>16. splitMap \in Seq(Seq(Nat)) /\ Len(splitMap) <= Len(meshMapping)
  BY <1>2, <1>3, <1>4
<1>17. meshMapping \in RemappedSupermeshes
  BY <1>2
<1> QED BY <1>11, <1>13, <1>14, <1>15, <1>16, <1>17 DEF RemapInv

LEMMA RemapNext == RemapInv /\ [Next]_vars => RemapInv'
<1> SUFFICES ASSUME RemapInv, [Next]_vars PROVE RemapInv'
  OBVIOUS
<1>1. CASE RemapStep
  <2> DEFINE i == Len(splitMap) + 1
  <2>1. i <= Len(meshMapping) /\ (PlaceMesh(i) \/ SplitLargeMesh(i))
    BY <1>1 DEF RemapStep
  <2> QED BY <2>1, PlaceMeshKeeps, SplitLargeMeshKeeps
<1>2. CASE UNCHANGED remapVars
  BY <1>2 DEF remapVars, RemapInv, RoomOK, Rest, FacesTo, Listed, FacesOfMesh, VertexOffset
<1> QED BY <1>1, <1>2 DEF Next, vars

\* After each mesh, what has been placed is laid out as it is to be drawn, and the vertices
\* of the meshes that are still to come are behind it, where they are read from
\* (performSplitting, splitLargeMesh).
THEOREM RemappedSoFar == Spec => []RemapInv
BY RemapFirst, RemapNext, PTL DEF Spec

\* What the invariant says when no mesh is left.
LEMMA WholeSupermesh ==
  ASSUME RemapInv, Len(splitMap) = Len(meshMapping)
  PROVE  /\ LaidOut(chunks, vertices, faces, FacesTo(Len(meshMapping))) /\ chunks # <<>>
         /\ NamesChunks(chunks, splitMap) /\ DOMAIN splitMap = DOMAIN meshMapping
<1> DEFINE n == Len(meshMapping)
           vs == SubSeq(vertices, 1, EndVertex(chunks))
<1>1. /\ meshMapping \in RemappedSupermeshes /\ splitMap \in Seq(Seq(Nat)) /\ n \in Nat \ {0}
      /\ LaidOut(chunks, vs, faces, FacesTo(n)) /\ vertices = vs \o Rest(n)
      /\ NamesChunks(chunks, splitMap) /\ DOMAIN meshMapping = 1..n
  <2>1. meshMapping \in RemappedSupermeshes /\ splitMap \in Seq(Seq(Nat))
    BY DEF RemapInv
  <2>2. LaidOut(chunks, vs, faces, FacesTo(n)) /\ vertices = vs \o Rest(n)
        /\ NamesChunks(chunks, splitMap)
    BY DEF RemapInv
  <2> QED BY <2>1, <2>2, MeshesAre
<1>2. vs \in Seq(Nat) /\ chunks \in Seq(Chunk) /\ Len(FacesTo(n)) = EndFace(chunks)
  BY <1>1 DEF LaidOut, LaidTo
<1>3. Rest(n) = <<>>
  <2>1. n + 1 \in 1..(n + 1)
    BY <1>1
  <2> DEFINE w == VertexOffset(n + 1)
  <2>2. w \in Nat
    BY <1>1, <2>1, MeshesAre, OffsetsAre
  <2>3. Rest(n) = [v \in 1..(w - w) |-> w + v - 1]
    BY DEF Rest
  <2> HIDE DEF w
  <2>4. 1..(w - w) = {}
    BY <2>2
  <2> QED BY <2>3, <2>4
<1>4. vertices = vs
  BY <1>1, <1>2, <1>3, WithNothing
<1>5. chunks # <<>>
  <2> DEFINE a == FacesTo(n - 1)
             b == Listed(n)
  <2>1. n \in 1..n /\ n - 1 \in 0..n
    BY <1>1
  <2>2. a \in Seq(SuperFace) /\ FacesTo(n) = a \o b
    BY <1>1, <2>1, FacesToAre
  <2>3. b = Marked(FacesOfMesh(n), n) /\ FacesOfMesh(n) \in Seq(Seq(Nat))
        /\ Len(FacesOfMesh(n)) \in Nat \ {0}
    BY <1>1, <2>1, MeshIs DEF MeshFacts
  <2>4. b \in Seq(SuperFace) /\ Len(b) \in Nat \ {0}
    BY <1>1, <2>3, MarkedType
  <2> HIDE DEF a, b
  <2>5. Len(a \o b) = Len(a) + Len(b) /\ Len(a) \in Nat
    BY <2>2, <2>4, Chained
  <2>6. EndFace(chunks) # 0
    BY <1>2, <2>2, <2>4, <2>5
  <2> QED BY <2>6 DEF EndFace
<1>6. DOMAIN splitMap = 1..n
  BY <1>1
<1> QED BY <1>1, <1>4, <1>5, <1>6

LEMMA WholeIsRight == RemapInv => ChunksShowSupermesh
<1> SUFFICES ASSUME RemapInv, Len(splitMap) = Len(meshMapping)
             PROVE  ChunksShowSupermesh
  BY DEF ChunksShowSupermesh
<1> DEFINE all == FacesTo(Len(meshMapping))
<1>1. /\ LaidOut(chunks, vertices, faces, all) /\ chunks # <<>>
      /\ NamesChunks(chunks, splitMap) /\ DOMAIN splitMap = DOMAIN meshMapping
  BY WholeSupermesh
<1>2. FacesOfAll = all
  <2>1. DOMAIN meshMapping = 1..Len(meshMapping)
    BY MeshesAre DEF RemapInv
  <2> QED BY <2>1 DEF FacesTo, Listed, FacesOfAll
<1> HIDE DEF all
<1>3. /\ chunks \in Seq(Chunk) /\ DOMAIN chunks = 1..Len(chunks) /\ Len(chunks) \in Nat
      /\ Len(vertices) = Last(chunks).vertTo /\ Len(faces) = Last(chunks).triTo
      /\ Len(all) = Last(chunks).triTo
      /\ \A n \in 1..Len(chunks) : ChunkOK(chunks, n) /\ Filled(chunks[n])
      /\ \A n \in 1..Len(chunks) : \A f \in (chunks[n].triFrom + 1)..chunks[n].triTo :
           ShowsFace(chunks[n], f, vertices, faces, all)
  <2>1. LaidTo(chunks, vertices, faces, all) /\ \A n \in 1..Len(chunks) : Filled(chunks[n])
    BY <1>1 DEF LaidOut
  <2>2. EndVertex(chunks) = Last(chunks).vertTo /\ EndFace(chunks) = Last(chunks).triTo
    BY <1>1 DEF EndVertex, EndFace
  <2>3. chunks \in Seq(Chunk)
    BY <2>1 DEF LaidTo
  <2>4. DOMAIN chunks = 1..Len(chunks) /\ Len(chunks) \in Nat
    BY <2>3
  <2> QED BY <2>1, <2>2, <2>3, <2>4 DEF LaidTo
<1>4. ASSUME NEW n \in DOMAIN chunks
      PROVE  /\ chunks[n].vertFrom = (IF n = 1 THEN 0 ELSE chunks[n - 1].vertTo)
             /\ chunks[n].triFrom = (IF n = 1 THEN 0 ELSE chunks[n - 1].triTo)
             /\ chunks[n].vertTo - chunks[n].vertFrom \in 1..MaxChunkVertices
             /\ chunks[n].triTo - chunks[n].triFrom \in 1..MaxChunkFaces
             /\ Len(chunks[n].ids) = chunks[n].vertTo - chunks[n].vertFrom
  <2> DEFINE c == chunks[n]
  <2>1. n \in 1..Len(chunks)
    BY <1>3
  <2>2. c \in Chunk
    BY <1>3, <2>1, ElementOfSeq
  <2>3. /\ c.vertTo \in Nat /\ c.vertFrom \in Nat /\ c.triTo \in Nat /\ c.triFrom \in Nat
        /\ Room(c) = c.vertTo - c.vertFrom
    BY <2>2 DEF Chunk, Room
  <2>4. /\ c.vertFrom = (IF n = 1 THEN 0 ELSE chunks[n - 1].vertTo)
        /\ c.triFrom = (IF n = 1 THEN 0 ELSE chunks[n - 1].triTo)
        /\ Room(c) \in 0..MaxChunkVertices /\ c.triTo - c.triFrom \in 0..MaxChunkFaces
        /\ Len(c.ids) = Room(c) /\ c.vertFrom < c.vertTo /\ c.triFrom < c.triTo
    BY <1>3, <2>1 DEF ChunkOK, Filled
  <2> HIDE DEF c
  <2>5. MaxChunkVertices \in Nat /\ MaxChunkFaces \in Nat
    BY ChunkAssumption
  <2>6. c.vertTo - c.vertFrom \in 1..MaxChunkVertices /\ c.triTo - c.triFrom \in 1..MaxChunkFaces
    <3> DEFINE x == c.vertTo
               y == c.vertFrom
               u == c.triTo
               w == c.triFrom
    <3>1. /\ x \in Nat /\ y \in Nat /\ u \in Nat /\ w \in Nat /\ y < x /\ w < u
          /\ x - y \in 0..MaxChunkVertices /\ u - w \in 0..MaxChunkFaces
      BY <2>3, <2>4
    <3> HIDE DEF x, y, u, w
    <3>2. x - y \in 1..MaxChunkVertices /\ u - w \in 1..MaxChunkFaces
      BY <2>5, <3>1
    <3> QED BY <3>2 DEF x, y, u, w
  <2> QED BY <2>3, <2>4, <2>6 DEF c
<1>5. ASSUME NEW n \in DOMAIN chunks, NEW f \in (chunks[n].triFrom + 1)..chunks[n].triTo
      PROVE  /\ Drawn(chunks[n], f) =
                  [k \in DOMAIN faces[f] |-> [vertex |-> all[f].face[k], mesh |-> all[f].mesh - 1]]
             /\ \E e \in ToSet(chunks[n].meshes) :
                  e.mesh = all[f].mesh /\ f \in (e.triFrom + 1)..e.triTo
             /\ n - 1 \in ToSet(splitMap[all[f].mesh])
  <2> DEFINE c == chunks[n]
             i == all[f].mesh
  <2>1. ShowsFace(c, f, vertices, faces, all)
    BY <1>3
  <2>2. /\ \A k \in DOMAIN faces[f] :
             /\ vertices[c.vertFrom + faces[f][k] + 1] = all[f].face[k]
             /\ c.ids[faces[f][k] + 1] = i - 1
        /\ ListsFace(c, i, f)
    BY <2>1 DEF ShowsFace
  <2>3. PICK e \in ToSet(c.meshes) : e.mesh = i /\ f \in (e.triFrom + 1)..e.triTo
    BY <2>2 DEF ListsFace
  <2>4. i \in MeshesOfChunk(c)
    BY <2>3 DEF MeshesOfChunk
  <2>5. i \in DOMAIN splitMap
    BY <1>1, <2>4 DEF NamesChunks
  <2>6. n - 1 \in ToSet(splitMap[i])
    BY <1>1, <2>4, <2>5 DEF NamesChunks
  <2>7. Drawn(c, f) = [k \in DOMAIN faces[f] |-> [vertex |-> all[f].face[k], mesh |-> i - 1]]
    BY <2>2 DEF Drawn
  <2> QED BY <2>3, <2>6, <2>7
<1>6. ASSUME NEW i \in DOMAIN meshMapping, NEW n \in ToSet(splitMap[i])
      PROVE  \E e \in ToSet(chunks[n + 1].meshes) : e.mesh = i
  <2>1. PICK m \in DOMAIN chunks : i \in MeshesOfChunk(chunks[m]) /\ n = m - 1
    BY <1>1 DEF NamesChunks
  <2>2. n + 1 = m
    BY <1>3, <2>1
  <2> QED BY <2>1, <2>2 DEF MeshesOfChunk
<1>7. Last(chunks).vertTo = Len(vertices) /\ Last(chunks).triTo = Len(faces) /\ Len(faces) = Len(all)
  BY <1>3
<1> QED BY <1>2, <1>4, <1>5, <1>6, <1>7 DEF ChunksShowSupermesh

\* ChunksShowSupermesh: when the meshes have been placed the chunks are within the
\* limits, follow one another, and draw each face with its own vertices and its own mesh,
\* and splitMap names where (performSplitting, splitLargeMesh).
THEOREM ChunksAreRight == Spec => []ChunksShowSupermesh
BY RemappedSoFar, WholeIsRight, PTL
=============================================================================
