SPECIFICATION FairSpec
CONSTANTS
  Size = 2
  Advance = 2
  MaxTs = 7
  MaxU64 = 7
  MaxEvents = 1
PROPERTY
  CallsReturn
