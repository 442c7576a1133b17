CONSTANTS
  i1 = i1
  i2 = i2
  s = s
  v1 = v1
  v2 = v2
  Runs = {i1, i2, s}
  Revisions = {v1}
  Nodes = {"root", "leaf"}
  Root = "root"
  TreeFiles = {"fulltree", "idMap"}
  Command <- SameRevision
  Streams <- SecondStreams
  Failures = {"killed"}
SPECIFICATION Spec
INVARIANT OneRootWhenVisible
