CONSTANTS
  Meshes <- MCMeshes
  MeshesOf <- MCMeshesOf
  Size <- MCSize
  Close <- MCClose
  Clashing <- MCClashing
  TooLarge = {"t"}
  Configs <- MCConfigs
  Faults = {"database", "load", "degenerate"}
SPECIFICATION FairSpec
INVARIANTS TestsUndisturbed ReportIsExact LocksInOrder
PROPERTY ClashEnds
CHECK_DEADLOCK FALSE
