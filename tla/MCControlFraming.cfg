CONSTANTS
  ByteBase = 8
  MinPacket = 6
  BufSize = 8
  RingBytes = 3
  Commands <- MCCommands
  HostPackets <- MCHostPackets
  PacketCap = 2
  FlawCap = 1
SPECIFICATION LiveSpec
INVARIANTS
  RoomToRead
  InStep
PROPERTIES
  Recovers
