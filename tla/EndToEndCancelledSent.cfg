SPECIFICATION FairSpec
CONSTANTS
    Notifs = {L}
    Scheduled = {L}
    ScheduledAt <- AtFirstTick
    MaxTime = 1
    Requests = {r1, r2}
    Duplicates = 2
    Attempts = 1
    Process = p
    Instances = {i1}
    Workers = {w1}
    Nothing = Nothing
    FaultSets = {{}}
CHECK_DEADLOCK FALSE
PROPERTY
    CancelledIsNotSent
