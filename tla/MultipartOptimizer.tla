------------------------- MODULE MultipartOptimizer -------------------------
(***************************************************************************)
(* MultipartOptimizer::processScene: the stored meshes of a revision are   *)
(* put together into supermeshes, which the exporter stores as bundles.    *)
(* Each job selects meshes of one kind; those of a job are grouped, a      *)
(* group is cut into clusters and the meshes of a cluster are streamed     *)
(* into supermeshes.  Positions are left out: bounding boxes decide how    *)
(* meshes are sorted and what a hierarchy of bounds looks like, so any     *)
(* order and any hierarchy may come out.  A supermesh is the set of its    *)
(* faces, a face the set of its vertices.                                  *)
(***************************************************************************)
EXTENDS Integers, SequencesExt

CONSTANTS
  Meshes,
  Attributes,      \* of each mesh: primitive, opacity, texture, uvs, ...
  MeshFaces,       \* the faces of each mesh
  FaceVertices,    \* the vertices of each face
  Scenes,          \* the sets of meshes a revision may have
  Textures, NoTexture,
  Transforms, RootTransform,
  Above,           \* the parent of every other transformation
  FloorTags,       \* the metadata nodes that name a floor
  NoFloor,
  SplitByFloor,
  MaxVertices,     \* REPO_MP_MAX_VERTEX_COUNT
  MaxMeshes,       \* REPO_MP_MAX_MESHES_IN_SUPERMESH
  LeafSize         \* REPO_BVH_MAX_LEAF_SIZE

FacesOf(ms) == UNION {MeshFaces[m] : m \in ms}

NumVertices(fs) == Cardinality(UNION {FaceVertices[f] : f \in fs})

\* An importer drops meshes without faces; a supermesh has room for the faces of a
\* leaf of a hierarchy.
ASSUME MeshAssumption ==
  /\ IsFiniteSet(Meshes) /\ Scenes \subseteq SUBSET Meshes
  /\ MaxVertices \in Nat /\ MaxMeshes \in Nat \ {0} /\ LeafSize \in Nat \ {0}
  /\ \A m \in Meshes :
       /\ MeshFaces[m] # {} /\ IsFiniteSet(MeshFaces[m])
       /\ \A f \in MeshFaces[m] : FaceVertices[f] # {} /\ IsFiniteSet(FaceVertices[f])
       /\ \A fs \in SUBSET MeshFaces[m] :
            Cardinality(fs) <= LeafSize => NumVertices(fs) <= MaxVertices
  /\ \A m, n \in Meshes : m # n =>
       \A f \in MeshFaces[m], g \in MeshFaces[n] : FaceVertices[f] \cap FaceVertices[g] = {}

ASSUME AttributesAssumption ==
  /\ IsFiniteSet(Textures) /\ Textures \cap {"transparent", "opaque", NoTexture} = {}
  /\ \A m \in Meshes :
       /\ Attributes[m].parent \in Transforms
       /\ Attributes[m].opacity \in {"transparent", "opaque"}
       /\ Attributes[m].texture \in Textures \cup {NoTexture}
       /\ Attributes[m].normals \in BOOLEAN

\* Transformations form a tree, and what names a floor is not the absence of one.
ASSUME TransformAssumption ==
  /\ IsFiniteSet(Transforms) /\ RootTransform \in Transforms
  /\ \A t \in Transforms \ {RootTransform} : Above[t] \in Transforms
  /\ \A S \in SUBSET Transforms :
       S # {} => \E t \in S : t = RootTransform \/ Above[t] \notin S
  /\ IsFiniteSet(FloorTags) /\ \A g \in FloorTags : g.floor # NoFloor

VARIABLES
  stage,        \* what processScene is doing
  present,      \* the meshes of the revision
  floorOf,      \* the branch group of each transformation
  jobs,         \* the jobs to come
  groups,       \* the groups of this job to come
  tag,          \* the name of the group in work
  clusters,     \* its clusters to come, with the one in work first
  streaming,    \* the meshes of this cluster the database has yet to send
  current,      \* currentSupermesh
  supermeshes   \* what the exporter has been given

optimiserVars ==
  <<stage, present, floorOf, jobs, groups, tag, clusters, streaming, current, supermeshes>>
-----------------------------------------------------------------------------
\* The materialProperties a mesh node is stored with.
Look(m) ==
  LET a == Attributes[m]
  IN  IF a.texture # NoTexture /\ a.uvs THEN a.texture ELSE a.opacity

Batch(p, look) == [i \in 1..2 |-> [primitive |-> p, look |-> look, normals |-> i = 2]]

Jobs(texIds) ==
  FoldLeft(LAMBDA done, look : done \o Batch(2, look) \o Batch(3, look),
           Batch(2, "transparent") \o Batch(2, "opaque")
             \o Batch(3, "transparent") \o Batch(3, "opaque"),
           texIds)

Selects(job, m) ==
  job = [primitive |-> Attributes[m].primitive, look |-> Look(m),
         normals |-> Attributes[m].normals]

\* What s has of S.
OnlyIn(s, S) ==
  FoldLeft(LAMBDA kept, x : IF x \in S THEN Append(kept, x) ELSE kept, <<>>, s)

\* The floor the metadata nodes give to a transformation: the last one counts.
Tagged(tags) ==
  [t \in Transforms |->
     LET named == OnlyIn(tags, {g \in FloorTags : SplitByFloor /\ t \in g.parents})
     IN  IF named = <<>> THEN NoFloor ELSE Last(named).floor]

\* Variant: a transformation takes over what its parent has.
InheritAlways(own) ==
  LET f[t \in Transforms] ==
        IF t = RootTransform \/ f[Above[t]] = NoFloor THEN own[t] ELSE f[Above[t]]
  IN  f

Inherit(own) ==
  LET f[t \in Transforms] ==
        IF own[t] # NoFloor \/ t = RootTransform THEN own[t] ELSE f[Above[t]]
  IN  f

ReadScene ==
  /\ stage = "read"
  /\ \E tags \in SetToSeqs(FloorTags), texIds \in SetToSeqs(Textures) :
       /\ floorOf' = Inherit(Tagged(tags))
       /\ jobs' = Jobs(texIds)
  /\ stage' = "jobs"
  /\ UNCHANGED <<present, groups, tag, clusters, streaming, current, supermeshes>>

GroupKey(m) == <<Attributes[m].grouping, floorOf[Attributes[m].parent]>>

TakeJob ==
  /\ stage = "jobs" /\ groups = {} /\ jobs # <<>>
  /\ LET selected == {m \in present : Selects(Head(jobs), m)}
     IN  groups' = {{n \in selected : GroupKey(n) = GroupKey(m)} : m \in selected}
  /\ jobs' = Tail(jobs)
  /\ UNCHANGED <<stage, present, floorOf, tag, clusters, streaming, current, supermeshes>>
-----------------------------------------------------------------------------
\* The meshes in the order of their efficiency, until one more than the
\* vertices of a supermesh have been taken: a cluster per full bin, and one of
\* what is left in the bin.  The share of the model that this should be, at
\* least, is a fraction in an integer constant, and so 0.
Take(acc, m) ==
  LET bin == Append(acc.bin, m)
  IN  IF acc.taken > MaxVertices THEN [acc EXCEPT !.rest = @ \cup {m}]
      ELSE IF NumVertices(FacesOf(ToSet(bin))) >= MaxVertices
      THEN [acc EXCEPT !.taken = @ + NumVertices(MeshFaces[m]),
                       !.full = Append(@, bin), !.bin = <<>>]
      ELSE [acc EXCEPT !.taken = @ + NumVertices(MeshFaces[m]), !.bin = bin]

TakeLow(order) ==
  FoldLeft(Take, [taken |-> 0, bin |-> <<>>, full |-> <<>>, rest |-> {}], order)

\* The clusters that the branches of a hierarchy of bounds give: from the top, a
\* branch is one when it has few enough vertices or is a leaf.
BranchClusters(all) ==
  LET f[ms \in SUBSET all] ==
        LET whole == {{ms}}
            below == UNION {{b[1] \cup b[2] : b \in f[left] \X f[ms \ left]} :
                            left \in (SUBSET ms) \ {{}, ms}}
        IN  IF Cardinality(ms) = 1 \/ NumVertices(FacesOf(ms)) < MaxVertices THEN whole
            ELSE IF Cardinality(ms) <= LeafSize THEN whole \cup below
            ELSE below
  IN  IF all = {} THEN {{}} ELSE f[all]

\* Variant: a part is full when it has more meshes than the limit.
PushLate(acc, m) ==
  IF Len(acc.part) >= MaxMeshes
  THEN [parts |-> Append(acc.parts, Append(acc.part, m)), part |-> <<>>]
  ELSE [acc EXCEPT !.part = Append(@, m)]

Push(acc, m) ==
  IF Len(acc.part) + 1 >= MaxMeshes
  THEN [parts |-> Append(acc.parts, Append(acc.part, m)), part |-> <<>>]
  ELSE [acc EXCEPT !.part = Append(@, m)]

\* A part that is not full at the end of a cluster is stored, and yet what it
\* holds is where the next cluster's first part begins.
SplitCluster(acc, c) ==
  LET done == FoldLeft(Push, acc, c)
  IN  IF done.part = <<>> THEN done
      ELSE [done EXCEPT !.parts = Append(@, done.part)]

SplitBigClusters(cs) ==
  LET big == {c \in ToSet(cs) : Len(c) > MaxMeshes}
  IN  OnlyIn(cs, ToSet(cs) \ big)
        \o FoldLeft(SplitCluster, [parts |-> <<>>, part |-> <<>>], OnlyIn(cs, big)).parts

\* clusterMeshNodes, for a group, an order of its meshes by efficiency, and an
\* order in which the branches are walked.
Clusters(order, walk, cut) ==
  LET low == TakeLow(order)
      left == IF low.bin = <<>> THEN <<>> ELSE <<low.bin>>
      branches == [i \in DOMAIN cut |-> OnlyIn(walk, cut[i])]
  IN  SplitBigClusters(low.full \o left \o branches)

TakeGroup ==
  /\ stage = "jobs"
  /\ \E g \in groups :
       /\ \E order \in SetToSeqs(g) :
            LET rest == TakeLow(order).rest
            IN  \E branches \in BranchClusters(rest) :
                \E walk \in SetToSeqs(rest), cut \in SetToSeqs(branches) :
                  clusters' = Clusters(order, walk, cut)
       /\ groups' = groups \ {g}
       /\ tag' = floorOf[Attributes[CHOOSE m \in g : TRUE].parent]
  /\ stage' = "clusters"
  /\ UNCHANGED <<present, floorOf, jobs, streaming, current, supermeshes>>
-----------------------------------------------------------------------------
Supermesh(fs) == [faces |-> fs, tag |-> tag]

OpenCluster ==
  /\ stage = "clusters" /\ clusters # <<>>
  /\ streaming' = ToSet(Head(clusters))
  /\ current' = {}
  /\ stage' = "streaming"
  /\ UNCHANGED <<present, floorOf, jobs, groups, tag, clusters, supermeshes>>

Fits(m) == NumVertices(current) + NumVertices(MeshFaces[m]) <= MaxVertices

AppendMesh(m) ==
  /\ m \in streaming /\ Fits(m)
  /\ current' = current \cup MeshFaces[m]
  /\ streaming' = streaming \ {m}
  /\ UNCHANGED <<stage, present, floorOf, jobs, groups, tag, clusters, supermeshes>>

\* Variant: when one child has been cut off, what the other has stays with it.
AdvanceBoth(l, r) ==
  LET both == l.front \cup r.front
      parts == l.parts \cup r.parts
  IN  IF l.front # {} /\ r.front # {} /\ NumVertices(both) <= MaxVertices
      THEN [front |-> both, parts |-> parts]
      ELSE [front |-> {}, parts |-> parts \cup
              (IF l.front # {} /\ r.front # {} THEN {l.front, r.front} ELSE {})]

\* What the front has at a branch of the hierarchy: the faces passed on from the
\* two children, and the parts that have been cut off so far.
Advance(l, r) ==
  LET both == l.front \cup r.front
      parts == l.parts \cup r.parts
  IN  IF NumVertices(both) <= MaxVertices
      THEN [front |-> both, parts |-> parts]
      ELSE [front |-> {}, parts |-> parts \cup ({l.front, r.front} \ {{}})]

\* The parts a mesh may be split into, for any hierarchy of its faces.
Splits(m) ==
  LET f[fs \in SUBSET MeshFaces[m]] ==
        (UNION {{Advance(b[1], b[2]) : b \in f[left] \X f[fs \ left]} :
                left \in (SUBSET fs) \ {{}, fs}})
          \cup (IF Cardinality(fs) <= LeafSize THEN {[front |-> fs, parts |-> {}]} ELSE {})
  IN  {r.parts \cup ({r.front} \ {{}}) : r \in f[MeshFaces[m]]}

SplitMesh(m) ==
  /\ m \in streaming /\ ~ Fits(m)
  /\ NumVertices(MeshFaces[m]) > MaxVertices
  /\ \E parts \in Splits(m) :
       LET s == SetToSeq(parts)
       IN  supermeshes' = supermeshes \o [i \in DOMAIN s |-> Supermesh(s[i])]
  /\ streaming' = streaming \ {m}
  /\ UNCHANGED <<stage, present, floorOf, jobs, groups, tag, clusters, current>>

StartAnother(m) ==
  /\ m \in streaming /\ ~ Fits(m)
  /\ NumVertices(MeshFaces[m]) <= MaxVertices
  /\ supermeshes' = Append(supermeshes, Supermesh(current))
  /\ current' = MeshFaces[m]
  /\ streaming' = streaming \ {m}
  /\ UNCHANGED <<stage, present, floorOf, jobs, groups, tag, clusters>>

CloseCluster ==
  /\ stage = "streaming" /\ streaming = {}
  /\ supermeshes' =
       IF current = {} THEN supermeshes ELSE Append(supermeshes, Supermesh(current))
  /\ clusters' = Tail(clusters)
  /\ stage' = "clusters"
  /\ UNCHANGED <<present, floorOf, jobs, groups, tag, streaming, current>>

CloseGroup ==
  /\ stage = "clusters" /\ clusters = <<>>
  /\ stage' = "jobs"
  /\ UNCHANGED
       <<present, floorOf, jobs, groups, tag, clusters, streaming, current, supermeshes>>

\* The exporter is finalised.
FinishScene ==
  /\ stage = "jobs" /\ groups = {} /\ jobs = <<>>
  /\ stage' = "finalised"
  /\ UNCHANGED
       <<present, floorOf, jobs, groups, tag, clusters, streaming, current, supermeshes>>
-----------------------------------------------------------------------------
OptimiserInit ==
  /\ stage = "read"
  /\ present \in Scenes
  /\ floorOf = [t \in Transforms |-> NoFloor]
  /\ jobs = <<>> /\ groups = {} /\ tag = NoFloor
  /\ clusters = <<>> /\ streaming = {} /\ current = {}
  /\ supermeshes = <<>>

StreamMesh(m) == AppendMesh(m) \/ SplitMesh(m) \/ StartAnother(m)

OptimiserStep ==
  \/ ReadScene \/ TakeJob \/ TakeGroup
  \/ OpenCluster \/ \E m \in Meshes : StreamMesh(m)
  \/ CloseCluster \/ CloseGroup \/ FinishScene
-----------------------------------------------------------------------------
MeshesIn(fs) == {m \in Meshes : MeshFaces[m] \cap fs # {}}

\* What the jobs are for: there is none for points and for meshes of unknown
\* primitives.
Wanted == {m \in present : Attributes[m].primitive \in {2, 3}}

\* When processScene has finalised the exporter, each face of each mesh it is for
\* is in one supermesh: clustering (low bins, branches and the parts of clusters
\* that are too big), streaming and the splitting of a mesh neither lose a face
\* nor show it twice (clusterMeshNodes, createSuperMeshes, splitMesh).
EachFaceOnce ==
  stage = "finalised" =>
    \A f \in FacesOf(Wanted) :
      Cardinality({i \in DOMAIN supermeshes : f \in supermeshes[i].faces}) = 1

\* No supermesh is larger than a bundle may be, in vertices, nor has so many
\* meshes that its mapping does not fit into a document (createSuperMeshes,
\* splitMesh and splitBigClusters keep the limits at different places).
SupermeshesBounded ==
  \A i \in DOMAIN supermeshes :
    /\ NumVertices(supermeshes[i].faces) <= MaxVertices
    /\ Cardinality(MeshesIn(supermeshes[i].faces)) <= MaxMeshes

\* t is at u or below it.
IsBelow(t, u) ==
  LET f[x \in Transforms] == x = u \/ (x # RootTransform /\ f[Above[x]])
  IN  f[t]

\* A floor that the tag of a mesh of this supermesh may come from.
NearestFloors(t) ==
  LET at == {u \in Transforms : IsBelow(t, u) /\ \E g \in FloorTags : u \in g.parents}
  IN  IF at = {} THEN {NoFloor}
      ELSE {g.floor : g \in {h \in FloorTags :
              \E u \in at : u \in h.parents /\ \A v \in at : IsBelow(u, v)}}

\* A viewer shows or hides a floor by the bundles of its name: each mesh is in a
\* supermesh of the floor named nearest above it, and of meshes that are drawn in
\* the same way (traverseTransformTree, clusterAndSupermesh).
SupermeshesOfOneFloor ==
  \A i \in DOMAIN supermeshes :
    LET ms == MeshesIn(supermeshes[i].faces)
    IN  \A m, n \in ms :
          /\ SplitByFloor => supermeshes[i].tag \in NearestFloors(Attributes[m].parent)
          /\ Look(m) = Look(n)
          /\ Attributes[m].grouping = Attributes[n].grouping
=============================================================================
