SPECIFICATION GraphSpec
CONSTANTS
  Transforms = {"map", "window"}
  Joins = {"window_join"}
  ForeignIds = {4, 9}
  MaxLateness = 1
  MaxNodes = 5
INVARIANTS
  GraphTypeOK
  ValidExactlyBuilt
  QueriesAgreeBuilt
  OrderIsTopological
  PipelinesPaired
  DrawingFaithful
CHECK_DEADLOCK FALSE
