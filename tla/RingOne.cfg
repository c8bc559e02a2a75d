SPECIFICATION Spec
CONSTANTS
  issue = issue
  Producers = {issue}
  BufCount = 3
  BufSize = 64
  Kinds = {"io", "suspend"}
  RawSizes = {15}
  MaxOpens = 2
  OffsetCap = 64
  NULL = NULL
INVARIANTS RecordsFit NothingStranded
PROPERTIES NoWriteIntoSealed FullDelivered
CHECK_DEADLOCK FALSE
