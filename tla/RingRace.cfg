SPECIFICATION Spec
CONSTANTS
  issue = issue
  complete = complete
  Producers = {issue,complete}
  BufCount = 3
  BufSize = 64
  Kinds = {"io"}
  RawSizes = {15}
  MaxOpens = 1
  OffsetCap = 64
  NULL = NULL
SYMMETRY ProducerSymmetry
INVARIANT RecordsFit
