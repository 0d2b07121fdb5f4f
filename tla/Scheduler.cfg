SPECIFICATION Spec
CONSTANTS
    Times = {1, 2}
    Priorities = {0, 1}
    MaxSeq = 6
    NoItem = NoItem
INVARIANTS
    TypeOK
    HeapOrder
PROPERTY QueueSpec
