SPECIFICATION Spec
CONSTANTS
    Notifs = {N}
    Scheduled = {}
    ScheduledAt <- AtFirstTick
    MaxTime = 0
    Requests = {r1, r2}
    Duplicates = 1
    Attempts = 1
    Process = p
    Instances = {i1}
    Workers = {w1}
    Nothing = Nothing
    FaultSets = {{"crash"}, {"publish"}, {"stop"}}
SYMMETRY Interchangeable
CHECK_DEADLOCK FALSE
PROPERTY
    ImplementsLife
