\* Writers of nodes with binary data beside a reader, two runs that process one
\* drawing, two callers of the file service, the references a scene builder keeps,
\* the optimiser with scenes of one big cluster at most, the reorganiser, processes
\* of one machine or two with one seat, or tasks that run processes.
SPECIFICATION MachineSpec
CONSTANTS
  Clients <- MCClients
  Callers = {"caller1", "caller2"}
  Names <- MCNames
  MaxUploads = 3
  FileFaults = {"full", "folder", "reference", "remove", "killed"}
  Writers = {"context", "many"}
  Readers = {"reader"}
  Nodes <- MCNodes
  Size <- MCSize
  MaxFile = 3
  Kind <- MCKind
  Work <- MCWork
  MaxBatch = 2
  WriteFaults = TRUE
  Drawers = {"run1", "run2"}
  DrawingOf <- MCDrawingOf
  DatabaseFaults = TRUE
  AddedMeshes <- MCAdded
  MaterialOf <- MCMaterialOf
  TexturePath <- MCTexturePath
  NoPath = ""
  ReadablePaths = {"brick.png"}
  MaxUsage = 2
  Meshes <- MCMeshes
  Attributes <- MCAttributes
  MeshFaces <- MCFaces
  FaceVertices <- MCVertices
  Scenes <- OneBigCluster
  Textures = {"brick"}
  NoTexture = "none"
  Transforms <- MCTransforms
  RootTransform = "root"
  Above <- MCAbove
  FloorTags <- MCFloorTags
  NoFloor = ""
  SplitByFloor = TRUE
  MaxVertices = 4
  MaxMeshes = 2
  LeafSize = 2
  RemappedSupermeshes <- MCRemapped
  MaxChunkVertices = 4
  MaxChunkFaces = 3
  Groups <- GroupsOrNone
  Processes = {"p1", "p2", "p3"}
  MachineOf <- MCMachineOf
  Configured = {"m1"}
  Commands = {"import", "drawing", "stash", "stash all", "clash", "test", "version", "invalid"}
  PoolSize = 1
  Seats = 1
  MaxRevisions = 2
  ClientFaults = {"network", "revoked", "operation", "exception", "killed"}
  Tasks = {"draw", "redraw", "clash"}
  Rid <- MCRid
  Handler <- MCHandler
  RunsOf <- MCRunsOf
  SlowStart = TRUE
INVARIANTS
  RefsHaveFiles
  GetsAreWhole
  DataIsSomewhere
  ReadsOwnData
  ImageIsStored
  ProcessedIsWhole
  MeshHasMaterial
  EachFaceOnce
  SupermeshesBounded
  SupermeshesOfOneFloor
  ChunksShowSupermesh
  SeatWhileWorking
  SeatReleased
  ExitTellsTruth
  ReportsCoverTask
  NothingKept
PROPERTY CommandsEnd
\* The processes end.
CHECK_DEADLOCK FALSE
