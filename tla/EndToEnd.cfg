SPECIFICATION FairSpec
CONSTANTS
    Notifs = {L}
    Scheduled = {L}
    ScheduledAt <- AtFirstTick
    MaxTime = 1
    Requests = {r1, r2}
    Duplicates = 2
    Attempts = 2
    Process = p
    Instances = {i1}
    Workers = {w1}
    Nothing = Nothing
    FaultSets = {{"db"}, {"ttl", "timeout"}}
CHECK_DEADLOCK FALSE
INVARIANTS
    AcceptedOnce
    RemovedIsNotSent
PROPERTIES
    ImplementsLife
    AcceptedIsResolved
