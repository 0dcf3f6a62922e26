SPECIFICATION FairSpec
CONSTANTS
    Data <- MCData
    Buffer = 1
INVARIANT
    InOrder
PROPERTIES
    ResponseArrives
    HalfCloseArrives
    SessionEnds
CHECK_DEADLOCK FALSE
