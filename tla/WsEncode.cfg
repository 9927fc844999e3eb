CONSTANTS
    NMsgs = 5
    Bad = {2, 3}
    Cap = 3
SPECIFICATION Spec
CHECK_DEADLOCK FALSE
INVARIANTS
    DeliveredInOrder
    EndMeansDrained
PROPERTIES
    DrainsThenEnds
