SPECIFICATION LogSpec
CONSTANTS
  issue = issue
  Producers = {issue}
  BufCount = 3
  BufSize = 64
  Kinds = {"io"}
  RawSizes = {15}
  MaxOpens = 2
  OffsetCap = 64
  MaxRecords = 16
  NULL = NULL
INVARIANTS KeptUntilStored BoundedOvertaking
PROPERTIES DropsOnlyWhenFull ImplementsChunkLog
CHECK_DEADLOCK FALSE
