SPECIFICATION Spec
CONSTANTS
  MaxSessions = 2
  Remotes = 1
  Addresses = 1
  AddressIndexed = FALSE
  DialErrors = {"retry"}
  StartErrors = {"retry", "terminal"}
  SessionErrors = {"retry"}
  ServerBackoff = 0
  Settings <- AllSettings
  Calls = {"suspend", "restart", "wait", "close", "cancel"}
INVARIANTS
  OneSessionAtATime
  ChallengesTrue
  TunnelTrue
PROPERTIES
  AskedAndSentOnce
CHECK_DEADLOCK FALSE
