SPECIFICATION Spec
CONSTANTS
  near = near
  Null = Null
  Conns <- MCTwo
  Addresses <- MCAddresses
  LocalAddress <- MCLocalAddress
  KeyCount = 2
  MaxArrivals = 3
  MaxRefreshes = 1
PROPERTIES AllHandled
CHECK_DEADLOCK FALSE
