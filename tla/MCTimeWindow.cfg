SPECIFICATION FairSpec
CONSTANTS
  Size = 3
  Advance = 2
  MaxTs = 5
  MaxU64 = 15
  MaxEvents = 3
INVARIANTS
  TypeOK
  WindowsExact
  WindowsInOrder
  NoWindowSkipped
PROPERTY
  CallsReturn
