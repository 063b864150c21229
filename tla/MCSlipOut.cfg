CONSTANTS
  BufSize = 8
  PacketLen = {1, 3}
  SendDelay = TRUE
  MaxBytes = 14
SPECIFICATION FairSpec
INVARIANTS TypeOK InOrder EndIsFirst CountIsPackets
PROPERTIES OnePacketPerDelay AllWritten
CHECK_DEADLOCK FALSE
