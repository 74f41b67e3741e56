CONSTANTS
  bytesLimit = 0
  packetsLimit = 2
  aeadUsageLimit = 3
  packetIDWrapTrigger = 3
  MaxUint32 = 4
  RenegotiationInterval = TRUE
  Sizes = {1}
  Batches = {2}
  MaxKey = 1
  MaxReceived = 3
  Options <- Configurations
SPECIFICATION RenewalSpec
INVARIANTS
  PacketIDOnce
  OneResetAtATime
  BudgetOwnTraffic
  IdleTunnelLives
  TimersFire
