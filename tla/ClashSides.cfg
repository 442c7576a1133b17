CONSTANTS
  Meshes <- MCMeshes
  MeshesOf <- MCMeshesOf
  Size <- MCSize
  Close <- MCClose
  Clashing <- MCClashing
  TooLarge = {"t"}
  Configs <- TwoSets
  Faults = {}
SPECIFICATION Spec
INVARIANT AOnTheLeft
CHECK_DEADLOCK FALSE
