\* Two runs that process one drawing.
SPECIFICATION Spec
CONSTANTS
  Clients <- MCClients
  Callers = {"caller1", "caller2"}
  Names <- MCNames
  MaxUploads = 3
  FileFaults = {"full", "folder", "reference", "remove", "killed"}
  Writers = {"context", "many"}
  Readers = {"reader"}
  Nodes <- MCNodes
  Size <- MCSize
  MaxFile = 3
  Kind <- MCKind
  Work <- MCWork
  MaxBatch = 2
  WriteFaults = TRUE
  Drawers = {"run1", "run2"}
  DrawingOf <- MCDrawingOf
  DatabaseFaults = TRUE
  AddedMeshes <- MCAdded
  MaterialOf <- MCMaterialOf
  TexturePath <- MCTexturePath
  NoPath = ""
  ReadablePaths = {"brick.png"}
  MaxUsage = 2
  Meshes <- MCMeshes
  Attributes <- MCAttributes
  MeshFaces <- MCFaces
  FaceVertices <- MCVertices
  Scenes <- OneBigCluster
  Textures = {"brick"}
  NoTexture = "none"
  Transforms <- MCTransforms
  RootTransform = "root"
  Above <- MCAbove
  FloorTags <- MCFloorTags
  NoFloor = ""
  SplitByFloor = TRUE
  MaxVertices = 4
  MaxMeshes = 2
  LeafSize = 2
  RemappedSupermeshes <- MCRemapped
  MaxChunkVertices = 4
  MaxChunkFaces = 3
  Groups <- DrawingGroup
PROPERTY StaysComplete
CHECK_DEADLOCK FALSE
