SPECIFICATION Spec
CONSTANTS
  Byte = {0, 1, 2}
  PKG_HEADER = 2
  PKG_VER_LEN = 1
  PacketLen = 5
  CalCRC8 <- SumOf
  Packet <- AllPackets
INVARIANTS
  SyncIsKept
  OneMissed
