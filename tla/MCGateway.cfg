SPECIFICATION Spec
CONSTANTS
  None = None
  Wild = Wild
  Everywhere = Everywhere
  FirstId = 3
  TimeWait = 1
  PublishTimeWait = 1
  MaxFlows = 4
INVARIANTS
  TypeOK
  ConnectionsGoOn
  RightAnswers
PROPERTIES
  FailsOnlyAtLast
  ComesToWork
CHECK_DEADLOCK FALSE
