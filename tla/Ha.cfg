SPECIFICATION FairSpec
CONSTANTS
  Boxes = {1, 2}
  Ifaces = {lan, wan}
  Prios = {1, 2}
  TopPrio = 2
  Adverts = {TRUE, FALSE}
  None = None
  MaxEdits = 2
  MaxLosses = 1
INVARIANTS TypeOK SomebodyWaits OneMaster WayToMaster
PROPERTY Converges
CHECK_DEADLOCK FALSE
