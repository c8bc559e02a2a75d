SPECIFICATION TagSpec
CONSTANTS
  p1 = p1
  p2 = p2
  i1 = i1
  i2 = i2
  Tasks <- TwoTasks
  Calls <- TagCalls
  Inodes <- Both
  Open <- OwnInodes
  Journalled = {i2}
  TidMod = 6
  FirstTid = 4
  MaxCredits = 1
  Asks = {1}
  MaxTrans = 2
  MaxWrites = 1
  MaxErrors = 0
  kjournald = kjournald
  Null = Null
  Garbage = Garbage
INVARIANTS TagsAreLive CommitTagged FsyncDurable
CHECK_DEADLOCK FALSE
