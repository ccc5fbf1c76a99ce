SPECIFICATION FairSpec
CONSTANTS
  NumSlots = 3
  Feeds <- Chain
  MaxSupply = 2
  MaxWrites = 2
  SettledCancel = TRUE
INVARIANTS
  TypeOK
  ExecuteCompletes
  ConsumedBeforeClose
PROPERTIES
  NoWriteAfterClose
  ExecuteReturns
  CancelReturns
