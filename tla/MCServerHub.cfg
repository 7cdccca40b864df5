SPECIFICATION Spec
CONSTANTS
  near = near
  Null = Null
  Conns <- MCThree
  Addresses <- MCAddresses
  LocalAddress <- MCLocalAddress
  KeyCount = 2
  MaxArrivals = 4
  MaxRefreshes = 1
INVARIANTS HubInv EachOnce StatusKept OnlyAcceptDeadlocks
PROPERTIES Handled
CHECK_DEADLOCK FALSE
