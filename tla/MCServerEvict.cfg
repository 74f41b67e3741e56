SPECIFICATION FairSpec
CONSTANTS
  Addresses = {"A"}
  Identities = {}
  Nobody = "nobody"
  MaxClients = 1
  MaxSessions = 3
  Options <- OneAddress
PROPERTIES
  EvictedEnds
CHECK_DEADLOCK FALSE
