CONSTANTS
  w1 = w1
  w2 = w2
  r1 = r1
  r2 = r2
  a1 = a1
  a2 = a2
  Capacity = 2
  Pushers <- TwoPushers
  Readers <- TwoReaders
  Addresses <- TwoAddresses
  Uses <- TwoUses
  LastPacket = 4
SPECIFICATION PathSpec
SYMMETRY Symmetry
INVARIANTS
  NoLostWakeup
  PacketsInOneHand
  WritesAccounted
  StreamInOrder
PROPERTIES
  RingIsFIFO
CHECK_DEADLOCK FALSE
