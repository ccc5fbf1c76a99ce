SPECIFICATION RecordSpec
CONSTANTS
  Bits32 = 2
  Bits64 = 3
  Opaque = {string}
  Names = {n1, n2}
  MaxFields = 2
  MaxCalls = 4
INVARIANTS
  RecordTypeOK
  Exact
CHECK_DEADLOCK FALSE
