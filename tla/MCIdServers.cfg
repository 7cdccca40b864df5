SPECIFICATION Spec
CONSTANTS
  s1 = s1
  s2 = s2
  c1 = c1
  c2 = c2
  NoServer = NoServer
  Clients <- MCClients
  Servers <- MCTwoServers
  Size = 2
  IntMax = 15
  IdCount = 40
  MaxRequests = 1
  MaxGrants = 2
  MaxSessions = 2
INVARIANTS NoIdConflict
CHECK_DEADLOCK FALSE
