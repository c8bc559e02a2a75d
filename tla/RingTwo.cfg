SPECIFICATION Spec
CONSTANTS
  issue = issue
  complete = complete
  Producers = {issue,complete}
  BufCount = 2
  BufSize = 36
  Kinds = {"io"}
  RawSizes = {15}
  MaxOpens = 1
  OffsetCap = 36
  NULL = NULL
INVARIANTS NoLostWakeUp ReadsSealed
PROPERTIES CallReturns
