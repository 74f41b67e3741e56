CONSTANTS
  WindowSize = 66
  TimeWindow = 1
  MaxPacketID = 130
  PacketIDs = {1, 64, 66, 130}
  Timestamps = {0, 1}
  LongForm = TRUE
  MaxTime = 2
SPECIFICATION ReceiveSpec
INVARIANTS
  AcceptedOnce
  ReassembledWhole
PROPERTIES
  FilterSpec
CHECK_DEADLOCK FALSE
