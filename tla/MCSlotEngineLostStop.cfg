SPECIFICATION FairSpec
CONSTANTS
  NumSlots = 1
  Feeds <- Single
  MaxSupply = 0
  MaxWrites = 0
  SettledCancel = FALSE
PROPERTIES
  CancelReturns
