SPECIFICATION Spec
CONSTANTS
  Keys = {k1, k2}
  Values = {v1}
  Tomb = Tomb
  None = None
  NoKey = NoKey
  MemMax = 2
  PutBatches <- SinglePuts
  DeleteBatches <- ShortDeletes
  CompactLimit = 2
  Faults <- AllFaults
  MaxSeq = 3
  FaultSeq = 2
  MaxWal = 2
SYMMETRY Symmetry
INVARIANTS TypeOK MemtableLogged
PROPERTIES OnlyRequestsChangeReads ImplementsDurableMap
CHECK_DEADLOCK FALSE
