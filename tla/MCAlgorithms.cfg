SPECIFICATION Spec
CONSTANTS
  r1 = r1
  r2 = r2
  r3 = r3
  Unregistered = Unregistered
  Coords <- MCCoords
  Sizes <- MCSizes
  Entries <- MCEntries
  Spots <- MCSpots
  Clicks <- MCClicks
  Parts = 2
  NormalCurves <- MCCurves
  Probes <- MCProbes
  Requests <- MCRequests
  Shapes <- MCShapes
  Amounts <- MCAmounts
  Classes <- MCClasses
  Abstract <- MCAbstract
  ObjectClasses <- MCObjectClasses
  Values <- MCValues
  Moving <- MCMoving
  MaxChanges = 2
  MaxSent = 3
SYMMETRY MCSymmetry
INVARIANTS
   LoadsInv RegistryInv CodecInv
PROPERTIES
  Arrives
CHECK_DEADLOCK FALSE
