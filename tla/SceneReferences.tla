-------------------------- MODULE SceneReferences --------------------------
(***************************************************************************)
(* The references RepoSceneBuilder keeps while meshes are added: which     *)
(* material node a mesh becomes a parent of, and which texture node that   *)
(* material node becomes a parent of.  How a parent reaches the database   *)
(* is the matter of SceneBuilder; here it is there at once.  Materials are *)
(* told apart by their checksum, which covers every field of them.         *)
(***************************************************************************)
EXTENDS Integers, Sequences, FiniteSets

CONSTANTS
  AddedMeshes, MaterialOf,  \* the meshes that may be added, in any order
  TexturePath, NoPath,      \* the texture each material names
  ReadablePaths,            \* the textures whose file can be opened
  MaxUsage                  \* MAX_MATERIALNODE_USAGE

Materials == {MaterialOf[m] : m \in AddedMeshes}

ASSUME ReferenceAssumption == MaxUsage \in Nat \ {0} /\ NoPath \notin ReadablePaths

VARIABLES
  added,             \* the meshes that have been added
  materialNodes,     \* the material nodes, in the order they were made
  materialToNode,    \* materialToUniqueId: the node in use, and how often it is
  textureNodes,      \* textureToUniqueId, and the parents of each texture node
  meshTexture,       \* textureId of a mesh node
  isMissingTextures

referenceVars ==
  <<added, materialNodes, materialToNode, textureNodes, meshTexture, isMissingTextures>>

AddTextureReference(path, node) ==
  IF path \in DOMAIN textureNodes
  THEN /\ textureNodes' = [textureNodes EXCEPT ![path] = @ \cup {node}]
       /\ UNCHANGED isMissingTextures
  ELSE IF path \in ReadablePaths
  THEN /\ textureNodes' = [p \in DOMAIN textureNodes \cup {path} |->
            IF p = path THEN {node} ELSE textureNodes[p]]
       /\ UNCHANGED isMissingTextures
  ELSE isMissingTextures' = TRUE /\ UNCHANGED textureNodes

\* Variant: only the first node of a material is entered under its texture.
MakeFirstWithTexture(mat, mesh) ==
  LET node == Len(materialNodes) + 1
  IN  /\ materialNodes' = Append(materialNodes, [material |-> mat, parents |-> {mesh}])
      /\ materialToNode' = [materialToNode EXCEPT ![mat] = [node |-> node, usage |-> 1]]
      /\ IF TexturePath[mat] = NoPath \/ materialToNode[mat].node # 0
         THEN UNCHANGED <<textureNodes, isMissingTextures>>
         ELSE AddTextureReference(TexturePath[mat], node)

MakeMaterialNode(mat, mesh) ==
  LET node == Len(materialNodes) + 1
  IN  /\ materialNodes' = Append(materialNodes, [material |-> mat, parents |-> {mesh}])
      /\ materialToNode' = [materialToNode EXCEPT ![mat] = [node |-> node, usage |-> 1]]
      /\ IF TexturePath[mat] = NoPath
         THEN UNCHANGED <<textureNodes, isMissingTextures>>
         ELSE AddTextureReference(TexturePath[mat], node)

AddMaterialReference(mat, mesh) ==
  LET entry == materialToNode[mat]
  IN  IF entry.node = 0 \/ entry.usage >= MaxUsage
      THEN MakeMaterialNode(mat, mesh)
      ELSE /\ materialNodes' = [materialNodes EXCEPT ![entry.node].parents = @ \cup {mesh}]
           /\ materialToNode' = [materialToNode EXCEPT ![mat].usage = @ + 1]
           /\ UNCHANGED <<textureNodes, isMissingTextures>>

\* addNode of a mesh; the texture is looked up after the material is entered.
AddMesh(mesh) ==
  LET mat == MaterialOf[mesh]
      path == TexturePath[mat]
  IN  /\ mesh \notin added
      /\ added' = added \cup {mesh}
      /\ AddMaterialReference(mat, mesh)
      /\ meshTexture' = [meshTexture EXCEPT ![mesh] =
           IF path # NoPath /\ path \in DOMAIN textureNodes' THEN path ELSE NoPath]

ReferenceInit ==
  /\ added = {}
  /\ materialNodes = <<>>
  /\ materialToNode = [mat \in Materials |-> [node |-> 0, usage |-> 0]]
  /\ textureNodes = [p \in {} |-> {}]
  /\ meshTexture = [m \in AddedMeshes |-> NoPath]
  /\ isMissingTextures = FALSE

ReferenceStep == \E mesh \in AddedMeshes : AddMesh(mesh)

\* However often a material is used and in whatever order the meshes come: a mesh
\* has one material node, of its material, no material node has more parents than
\* a document may hold, and the texture of a mesh is the one that a viewer finds
\* by way of its material node; a missing file is noticed (addMaterialReference,
\* makeMaterialNode, addTextureReference, addNode).
MeshHasMaterial ==
  \A mesh \in added :
    LET nodes == {i \in DOMAIN materialNodes : mesh \in materialNodes[i].parents}
    IN  \E i \in nodes :
          /\ nodes = {i}
          /\ materialNodes[i].material = MaterialOf[mesh]
          /\ {p \in DOMAIN textureNodes : i \in textureNodes[p]}
               = {meshTexture[mesh]} \ {NoPath}
          /\ Cardinality(materialNodes[i].parents) <= MaxUsage
          /\ TexturePath[MaterialOf[mesh]] \notin {meshTexture[mesh]} => isMissingTextures
=============================================================================
