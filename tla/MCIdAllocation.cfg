SPECIFICATION Spec
CONSTANTS
  s1 = s1
  s2 = s2
  c1 = c1
  c2 = c2
  NoServer = NoServer
  Clients <- MCClients
  Servers <- MCOneServer
  Size = 2
  IntMax = 15
  IdCount = 40
  MaxRequests = 2
  MaxGrants = 4
  MaxSessions = 2
INVARIANTS TypeOK GrantsDisjoint OwnIds NoIdConflict
PROPERTIES Admitted
CHECK_DEADLOCK FALSE
