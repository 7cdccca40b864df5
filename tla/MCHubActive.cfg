SPECIFICATION Spec
CONSTANTS
  near = near
  Null = Null
  Conns <- MCTwo
  Addresses <- MCAddresses
  LocalAddress <- MCLocalAddress
  KeyCount = 2
  MaxArrivals = 3
  MaxRefreshes = 0
INVARIANTS ActiveOnly
CHECK_DEADLOCK FALSE
