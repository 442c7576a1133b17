CONSTANTS
  Meshes <- MCMeshes
  MeshesOf <- MCMeshesOf
  Size <- MCSize
  Close <- MCClose
  Clashing <- MCClashing
  TooLarge = {"t"}
  Configs <- SelfClearance
  Faults = {}
SPECIFICATION Spec
INVARIANT NotWithItself
CHECK_DEADLOCK FALSE
