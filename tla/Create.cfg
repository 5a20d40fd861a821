SPECIFICATION Spec
CONSTANTS
    Bodies <- MCBodies
    MaxItems = 3
    FaultSets <- AllFaults
CHECK_DEADLOCK FALSE
INVARIANTS
    EachItemAnswered
    AnnouncedAsAnswered
