CONSTANTS
  MaxSends <- MCMaxSends
  Bodied <- MCBodied
SPECIFICATION Spec
INVARIANTS
  TypeOK
  InOrder
  InStep
  FrontExists
  PumpAwake
PROPERTIES
  CloseSeen
  ImplementsChannel
CHECK_DEADLOCK FALSE
