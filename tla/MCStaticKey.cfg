CONSTANTS
  StaticKey = TRUE
  WindowSize = 2
  MaxPacketID = 3
  MaxTime = 3
  MaxPackets = 4
  Roles = {"listen", "packets", "dial"}
  MaxSessions = 2
  QueueLimit = 2
  Closes = TRUE
SPECIFICATION ModeSpec
INVARIANTS
  NothingLeftBehind
PROPERTIES
  FreshAccepted
  WindowsAreFilters
CHECK_DEADLOCK FALSE
