CONSTANTS
  c = c
  s = s
  Client = c
  Server = s
  Payload = {a}
  Empty = empty
  Writes <- LiveWrites
  Resetters = {}
  WrappedKeyHolders = {}
  Closers = {}
  ReliableSendBufferSize = 2
  ReliableReceiveBufferSize = 2
  MaximumAcknowledgmentsPerPacket = 1
  AcknowledgmentSetCapacity = 2
  FastRetransmissionACKThreshold = 1
  ReadChunksCapacity = 1
  LinkCapacity <- One
SPECIFICATION LiveSpec
PROPERTIES
  EveryChunkDelivered
CHECK_DEADLOCK FALSE
