CONSTANTS
  KeyIDMaxValue = 2
  tlsKeyScanSize = 1
  MaxSequence = 3
  Callers = {"client"}
  Closers = {}
  Writers = {"w1", "w2"}
  MaxHandovers = 2
  MaxMessages = 1
SPECIFICATION KeysSpec
INVARIANTS
  KeysKept
  StreamServed
  HandoverBacked
  KeysAgree
  ReadInOrder
CHECK_DEADLOCK FALSE
