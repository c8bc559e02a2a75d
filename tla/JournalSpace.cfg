SPECIFICATION Spec
CONSTANTS
  Blocks = {b1, b2}
  LogBlocks = 11
  MaxBuffers = 2
  Reserved = 5
  MaxTrans = 4
  MaxCrashes = 2
  MaxFlushes = 1
INVARIANTS LogHasRoom NeverNoWay FlushEmpties
 
CHECK_DEADLOCK FALSE
