SPECIFICATION FairSpec
CONSTANTS
    N = N
    Notifs = {N}
    Msgs = {m1, m2}
    NotifOf <- AllForN
    EvtMaxAttempts <- TwoAttempts
    ConfigMaxAttempts = 2
    Workers = {w1, w2}
    FaultSets <- RetryFaults
    NoJob = NoJob
CHECK_DEADLOCK FALSE
INVARIANTS
    CallsWithinBudget
    ExhaustionOnlyBeforeLastCall
    DelayOnSchedule
PROPERTIES
    EventuallySettled
    EventuallyReported
