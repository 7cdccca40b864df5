SPECIFICATION Spec
CONSTANTS
  p1 = p1
  p2 = p2
  Processes <- MCProcesses
  Process <- MCProcess
  Clients <- MCTwo
  Server = Server
  MaxChanges <- MCOnlyOne
  MaxInFlight = 2
INVARIANTS NoDuplicates
CHECK_DEADLOCK FALSE
