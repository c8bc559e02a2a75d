SPECIFICATION Spec
CONSTANTS
  MaxFiles = 4
  MaxTasks = 1
  MaxFaults = 1
  MaxSent = 2
  Ext <- IoFiles
  Stamp <- Apart
  Small = {}
  Unreadable = {}
  Overlap = TRUE
  NULL = NULL
INVARIANT OpenFileUntouched
PROPERTY TaskEnds
CHECK_DEADLOCK FALSE
