SPECIFICATION Spec
CONSTANTS
  Ids = {i1, i2, i3}
  Contents = {c1, c2}
  Collections = {l1, l2}
  Edges = {x1, x2}
  None = None
  Unusable = Unusable
  Chunks <- TwoChunks
  CleanLimit = 2
  Embedding = TRUE
  Timer = TRUE
  Requests <- AllRequests
  Faults <- NoFaults
  MaxUsed = 5
  Stops <- Closes
SYMMETRY Symmetry
INVARIANTS TypeOK IndexesAgree StoredOnce
CHECK_DEADLOCK FALSE
