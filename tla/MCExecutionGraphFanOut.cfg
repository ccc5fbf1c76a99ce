SPECIFICATION GraphSpec
CONSTANTS
  Transforms = {"map", "window"}
  Joins = {}
  ForeignIds = {}
  MaxLateness = 0
  MaxNodes = 3
INVARIANTS
  FanOutComplete
CHECK_DEADLOCK FALSE
