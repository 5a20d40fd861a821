SPECIFICATION FairSpec
CONSTANTS
    N = N
    Notifs = {N, L}
    Scheduled = {L}
    Requests = {r1, r2}
    Consumers = {c1}
    Results <- BothVerdicts
    ResultOf <- Itself
    NoResult = NoResult
    MaxCopies = 1
    FaultSets = {{"db", "publish", "settle", "crash"}, {"slow"}}
CHECK_DEADLOCK FALSE
INVARIANTS
    OneVerdict
    AnnouncedInOrder
    CancelIsDone
PROPERTY
    ReportedIsRecorded
