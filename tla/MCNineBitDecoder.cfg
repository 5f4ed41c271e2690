CONSTANTS
  ByteBase = 3
  InBytes = 4
  OutWords = 2
  RingBytes = 5
  HostBytes = 8
  LossCap = 2
SPECIFICATION Spec
INVARIANTS
  TypeOK
  ChunksInvisible
  Realigned
CHECK_DEADLOCK FALSE
