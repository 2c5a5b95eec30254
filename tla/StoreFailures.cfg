SPECIFICATION Spec
CONSTANTS
  Ids = {i1, i2}
  Contents = {c1, c2}
  Collections = {l1}
  Edges = {x1}
  None = None
  Unusable = Unusable
  Chunks <- TwoChunks
  CleanLimit = 1
  Embedding = TRUE
  Timer = TRUE
  Requests <- AllRequests
  Faults <- AllFaults
  MaxUsed = 2
  Stops <- AllStops
SYMMETRY Symmetry
INVARIANTS HitsKnown DuplicatesStored AnswersStored
PROPERTY StoredStaysIndexed
CHECK_DEADLOCK FALSE
