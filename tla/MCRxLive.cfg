CONSTANTS
  RingWords = 2
  TransferCount = 3
  FifoWords = 1
  ChunkBytes = 2
  U32 = 4
  SessionCap = 2
  WordCap = 4
SPECIFICATION LiveSpec
PROPERTIES
  SessionsSpec
  Drained
