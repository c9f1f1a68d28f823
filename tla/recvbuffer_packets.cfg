CONSTANTS
  BufferSize = 2
  BufferCount = 2
  HeaderSize = 2
  MaxPacket = 4
  MaxPackets = 3
SPECIFICATION FairSpec
INVARIANTS
  TypeOK
  RoomForMore
  PacketsWhole
PROPERTIES
  EveryPacketHandled
CHECK_DEADLOCK FALSE
