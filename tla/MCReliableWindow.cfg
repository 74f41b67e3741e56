CONSTANTS
  c = c
  s = s
  Client = c
  Server = s
  Payload = {a}
  Empty = empty
  Writes <- PastWindowWrites
  Resetters = {}
  WrappedKeyHolders = {}
  Closers = {}
  ReliableSendBufferSize = 2
  ReliableReceiveBufferSize = 4
  MaximumAcknowledgmentsPerPacket = 1
  AcknowledgmentSetCapacity = 2
  FastRetransmissionACKThreshold = 1
  ReadChunksCapacity = 1
  LinkCapacity <- ManyToFew
SPECIFICATION Spec
INVARIANTS
  AcknowledgedIsHeld
CHECK_DEADLOCK FALSE
