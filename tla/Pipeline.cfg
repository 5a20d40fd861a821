SPECIFICATION Spec
CONSTANTS
    N = N
    Notifs = {N}
    Msgs = {m1, m2}
    NotifOf <- AllForN
    EvtMaxAttempts <- OneAttempt
    ConfigMaxAttempts = 1
    Workers = {w1, w2}
    FaultSets <- SafetyFaults
    NoJob = NoJob
SYMMETRY Interchangeable
CHECK_DEADLOCK FALSE
INVARIANTS
    TypeOK
    MutualExclusion
    NotificationNotLost
    OncePerMessage
PROPERTY
    MissMeansBusy
