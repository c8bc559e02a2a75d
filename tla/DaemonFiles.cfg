SPECIFICATION Spec
CONSTANTS
  IO_FILE_SIZE = 8
  IO_BUF_SIZE = 2
  TRANS_BUFFER_SIZE = 10
  ChunkSizes = {1, 2}
  Rate = 3
  MaxChunks = 10
  MaxSeconds = 3
  MaxCreatFails = 2
  MaxWriteFails = 2
  MaxDeaths = 1
  Stdin = Stdin
  Closed = Closed
INVARIANTS FitsUpload  NeverDeaf
 
CHECK_DEADLOCK FALSE
