SPECIFICATION Spec
CONSTANTS
  Keys = {k1, k2}
  Values = {v1}
  Tomb = Tomb
  None = None
  NoKey = NoKey
  MemMax = 2
  PutBatches <- SinglePuts
  DeleteBatches <- SingleDeletes
  CompactLimit = 2
  Faults <- NoFaults
  MaxSeq = 2
  FaultSeq = 2
  MaxWal = 2
INVARIANT StartsSucceed
CHECK_DEADLOCK FALSE
