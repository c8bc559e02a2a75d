SPECIFICATION Spec
CONSTANTS
  p1 = p1
  p2 = p2
  Procs = {p1, p2}
  QueueSizes = {1, 2}
  NrBatching = 2
  PlugLimit = 2
  MaxBios = 3
  MaxRequeues = 1
  NULL = NULL
INVARIANTS CountExact DeadIsEmpty IssuedOnce ReportsIssued
PROPERTIES BiosEnd CleanupEnds
CHECK_DEADLOCK FALSE
