SPECIFICATION FairSpec
CONSTANTS
  Keys = {k1, k2}
  Values = {v1}
  Tomb = Tomb
  None = None
  NoKey = NoKey
  MemMax = 1
  PutBatches <- SinglePuts
  DeleteBatches <- SingleDeletes
  CompactLimit = 4
  Faults <- TableFaults
  MaxSeq = 5
  FaultSeq = 5
  MaxWal = 1
INVARIANT LeftoversShadowed
PROPERTIES OnlyShadowedKeysChange LockReleased
CHECK_DEADLOCK FALSE
