CONSTANTS
  n1 = n1
  n2 = n2
  Nodes = {n1, n2}
  Parents = {p1, p2}
  NodeSize <- Oversized
  UpdateSize = 1
  Threshold = 3
  BulkLimit = 3
  MaxUpdates = 1
  Failures = {"context", "append", "execute"}
  ParentsWhileHeld = FALSE
  MaxFinalise = 1
  MaxNotify = 2
SPECIFICATION Spec
INVARIANTS TypeOK QueueSizeExact QueueBounded NoLostWakeup ParentsStored PipelineInOrder ClosedLast
PROPERTIES ImplementsStore CallsReturn
