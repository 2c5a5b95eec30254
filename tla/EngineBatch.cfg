SPECIFICATION Spec
CONSTANTS
  Keys = {k1, k2}
  Values = {v1}
  Tomb = Tomb
  None = None
  NoKey = NoKey
  MemMax = 2
  PutBatches <- ShortPuts
  DeleteBatches <- SingleDeletes
  CompactLimit = 2
  Faults <- NoFaults
  MaxSeq = 3
  FaultSeq = 3
  MaxWal = 3
INVARIANT AcknowledgedDurable
CHECK_DEADLOCK FALSE
