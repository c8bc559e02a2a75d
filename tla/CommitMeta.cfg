SPECIFICATION Spec
CONSTANTS
  p1 = p1
  p2 = p2
  Tasks <- TwoTasks
  Calls <- MetadataCalls
  Inodes = {}
  Open <- NothingOpen
  Journalled = {}
  TidMod = 6
  FirstTid = 4
  MaxCredits = 2
  Asks = {1}
  MaxTrans = 2
  MaxWrites = 0
  MaxErrors = 1
  kjournald = kjournald
  Null = Null
  Garbage = Garbage
INVARIANTS CommitsQuietly UpdatesStayLocked CommitHasTransaction NoGarbageMapping
PROPERTIES WaitersReturn TransactionsCommit
CHECK_DEADLOCK FALSE
