SPECIFICATION Spec
CONSTANTS
  None = None
  Wild = Wild
  MaxFlows = 4
  Trunk = Trunk
INVARIANTS
  TypeOK
  NobodyMisled
CHECK_DEADLOCK FALSE
