SPECIFICATION MCSpec
CONSTANTS
  p1 = p1
  p2 = p2
  Processes <- MCProcesses
  Process <- MCProcess
  Clients <- MCThree
  Server = Server
  MaxChanges <- MCUneven
  MaxInFlight = 1
INVARIANTS SceneInv ServerKnows OwnerLeads
PROPERTIES NeverBack MovingSeen
CHECK_DEADLOCK FALSE
