SPECIFICATION FairSpec
CONSTANTS
  com = com
  d1 = d1
  d2 = d2
  None = None
  Ports <- MCPorts
  Devices <- MCDevices
  MaxClients = 2
  MaxSessions = 2
  MaxConns = 3
  MaxListeners = 2
INVARIANTS
  TypeOK
  IndexMatchesSessions
  LinksAreExclusive
  ResourcesAreOwned
PROPERTIES
  HealthySessionsStay
  SessionsSettle
CHECK_DEADLOCK FALSE
