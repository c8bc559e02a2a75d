SPECIFICATION LiveSpec
CONSTANTS
  MaxFiles = 10
  MaxTasks = 1
  MaxFaults = 1
  MaxSent = 3
  Ext <- MixedFiles
  Stamp <- Apart
  Small = {3}
  Unreadable = {}
  Overlap = FALSE
  NULL = NULL
INVARIANTS DeletedOnlyAfterUpload SentOnce
PROPERTIES NothingThrown EveryFileUploaded
CHECK_DEADLOCK FALSE
