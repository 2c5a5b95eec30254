SPECIFICATION ProcessSpec
CONSTANTS
  Writers <- OneWriter
  Readers <- TwoReaders
  Nobody = Nobody
  Timer = TRUE
  Keys = {"here"}
  Burst = 1
  One = 3
  Rate = 2
  Second = 1
  Stale = 2
  Nothing = Nothing
  MaxPeriod = 2
  Address <- OneAddress
INVARIANTS ProcessTypeOK SavesBeforeClose ServedOpen Limited RetrySuffices
PROPERTY Terminates
CHECK_DEADLOCK FALSE
