SPECIFICATION Spec
CONSTANTS
  Keys = {k1, k2}
  Values = {v1}
  Tomb = Tomb
  None = None
  NoKey = NoKey
  MemMax = 1
  PutBatches <- SinglePuts
  DeleteBatches <- SingleDeletes
  CompactLimit = 3
  Faults <- NoFaults
  MaxSeq = 4
  FaultSeq = 4
  MaxWal = 2
PROPERTY OnlyRequestsChangeReads
CHECK_DEADLOCK FALSE
