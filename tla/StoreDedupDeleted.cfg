SPECIFICATION Spec
CONSTANTS
  Ids = {i1, i2}
  Contents = {c1, c2}
  Collections = {l1}
  Edges = {x1}
  None = None
  Unusable = Unusable
  Chunks <- OneChunk
  CleanLimit = 1
  Embedding = TRUE
  Timer = FALSE
  Requests <- PutsAndDeletes
  Faults <- NoFaults
  MaxUsed = 3
  Stops <- Closes
INVARIANT ReplyStored
CHECK_DEADLOCK FALSE
