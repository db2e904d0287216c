SPECIFICATION BSSpec
CONSTANTS
  PacketSize = 6
  Len1Size = 4
  MaxSize = 8
  Wrap = 64
  MaxBody = 12
  MaxPackets = 4
  MaxMsgs = 2
INVARIANTS
  FramedAsWritten
  CleanNeverAborts
PROPERTY
  ImplementsFramedStream
CHECK_DEADLOCK FALSE
