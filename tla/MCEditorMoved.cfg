SPECIFICATION EditorSpec
CONSTANTS
  None = None
  Wild = Wild
  MaxFlows = 4
  Trunk = Trunk
INVARIANT CablesFollow
CHECK_DEADLOCK FALSE
