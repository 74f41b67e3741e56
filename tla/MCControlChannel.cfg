CONSTANTS
  c = c
  s = s
  Client = c
  Server = s
  Payload = {a}
  Empty = empty
  Writes <- WrappedWrites
  Resetters = {s}
  WrappedKeyHolders = {c}
  Closers = {s}
  ReliableSendBufferSize = 2
  ReliableReceiveBufferSize = 2
  MaximumAcknowledgmentsPerPacket = 1
  AcknowledgmentSetCapacity = 2
  FastRetransmissionACKThreshold = 1
  ReadChunksCapacity = 1
  LinkCapacity <- One
SPECIFICATION ChannelSpec
INVARIANTS
  InOrderExactlyOnce
  HeldWhenCovered
PROPERTIES
  TimerPaced
CHECK_DEADLOCK FALSE
