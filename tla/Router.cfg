SPECIFICATION FairSpec
CONSTANTS
    Weights <- ThreeTwoOne
    Workers = {w1, w2}
    Capacity = 1
CHECK_DEADLOCK FALSE
INVARIANTS
    BoundedOvertaking
    OneLateMessage
PROPERTIES
    NotStarved
    Stops
