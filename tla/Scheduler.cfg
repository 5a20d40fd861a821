SPECIFICATION FairSpec
CONSTANTS
    A = A
    B = B
    S = S
    X = X
    i1 = i1
    NoJob = NoJob
    Notifs = {A, B}
    ScheduledAt <- OneTickApart
    MaxTime = 1
    Schedules = {S}
    Cancels = {X}
    ItemsOf <- Together
    Instances = {i1, i2}
    Stops <- FirstOfTwo
    Batch = 2
    MaxCopies = 1
    FaultSets <- MixedFaults
CHECK_DEADLOCK FALSE
INVARIANTS
    TypeOK
    NeverEarly
    ScheduleNotLost
    DispatchedOnce
PROPERTIES
    RemovedStaysOut
    EventuallyDispatched
