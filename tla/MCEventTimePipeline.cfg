SPECIFICATION PipelineSpec
CONSTANTS
  Size = 3
  Advance = 2
  Lateness = 1
  Interval = 2
  MaxTs = 5
  MaxU64 = 15
  MaxEvents = 4
INVARIANTS
  PipelineTypeOK
  WatermarksIncrease
  WatermarkTrails
  WatermarkFresh
  OnTimeComplete
  StreamingEqualsBatch
