SPECIFICATION Spec
CONSTANTS
  s1 = s1
  s2 = s2
  l1 = l1
  l2 = l2
  l3 = l3
  l4 = l4
  o1 = o1
  o2 = o2
  o3 = o3
  i1 = i1
  v1 = v1
  Nothing = Nothing
  Nil = Nil
  Nobody = Nobody
  Points <- MCPoints
  Ships <- MCShips
  Where <- MCWhere
  Own = s1
  MaxWaiting = 1
  MaxStack = 2
  Kinds <- MCKinds
  MaxInterfaces = 3
  Objects <- MCObjects
  Inspectors <- MCInspectors
  MaxSelected = 4
  MaxPressed = 2
  MaxLength = 2
  Heights <- MCHeights
  Viewers <- MCViewers
  MaxTyped = 4
  MaxQueued = 2
  Cells <- MCCells
  Places <- MCPlaces
  Widths <- MCWidths
  MaxTurns = 3
  MaxPanned = 6
  Listeners <- MCListeners
  Channels <- MCChannels
  ChannelOf <- MCChannelOf
  Keys <- MCKeys
  MaxWalks = 2
INVARIANTS
  GesturesInv WindowsInv InspectionInv ChatInv
PROPERTIES
  WholeGesture OptionsGo PointKept Triggered
CHECK_DEADLOCK FALSE
