SPECIFICATION Spec
CONSTANTS
  MaxGames = 3
  Targets <- MCTargets
  LineRates <- MCLineRates
  Capacities <- MCCapacities
  MaxFuel = 4
  Rates <- MCRates
  Steps <- MCSteps
  Curves <- MCCurves
INVARIANTS
  SessionInv ShipInv
PROPERTIES
  WaitingEnds AlignSettles NoFreePower
CHECK_DEADLOCK FALSE
