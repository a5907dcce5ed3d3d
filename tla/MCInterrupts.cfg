CONSTANTS
  Lines <- MCLines
  Mapped <- MCMapped
  MaxRaises = 5
SPECIFICATION Spec
INVARIANTS
  IInv
  TriggeredMeansServed
PROPERTY RequestsServed
CHECK_DEADLOCK FALSE
