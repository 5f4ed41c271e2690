CONSTANTS
  RingWords = 2
  TransferCount = 6
  FifoWords = 1
  ChunkBytes = 2
  U32 = 8
  SessionCap = 1
  WordCap = 5
SPECIFICATION Spec
INVARIANTS
  OverwriteLossExact
