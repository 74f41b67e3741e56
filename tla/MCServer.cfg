SPECIFICATION Spec
CONSTANTS
  Addresses = {"A", "B"}
  Identities = {"x", "y"}
  Nobody = "nobody"
  MaxClients = 2
  MaxSessions = 3
  Options <- AllOptions
  Clients = {"c1", "c2"}
  Direct = {"c2"}
  MaxReservations = 1
  initialConnectFrequency = 2
  initialConnectFrequencyPeriod = 2
  connectFrequency = 1
  connectFrequencyPeriod = 1
  handwindow = 3
  Buckets = 8
  CryptV2ForceCookie = FALSE
  MaxResets = 4
  MaxLost = 0
INVARIANTS
  RegistriesTrue
  LeasesTrue
  AdmissionBounded
PROPERTIES
  ActiveKept
  StickyKept
CHECK_DEADLOCK FALSE
