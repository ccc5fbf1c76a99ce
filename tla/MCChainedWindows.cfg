SPECIFICATION ChainSpec
CONSTANTS
  Size = 4
  Advance = 2
  Size2 = 3
  Advance2 = 2
  Lateness = 1
  Interval = 2
  MaxTs = 5
  MaxU64 = 15
  MaxEvents = 4
INVARIANTS
  ChainTypeOK
  StampsInOrder
  StopKeepsPrefix
  TwoStageBatch
