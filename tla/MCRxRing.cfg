CONSTANTS
  RingWords = 3
  TransferCount = 6
  FifoWords = 1
  ChunkBytes = 2
  U32 = 8
  SessionCap = 2
  WordCap = 7
SPECIFICATION Spec
INVARIANTS
  TypeOK
  SessionPure
  CopyExact
  Accounted
  StallReported
