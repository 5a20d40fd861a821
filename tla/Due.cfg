SPECIFICATION FairSpec
CONSTANTS
    A = A
    B = B
    m1 = m1
    m2 = m2
    m3 = m3
    Notifs = {A, B}
    Rows = {A}
    Msgs = {m1, m2, m3}
    NotifOf <- TwiceAndOnce
    Consumers = {c1}
    BatchSize = 3
    Waiting = 1
    FaultSets = {{"db"}, {"publish", "settle"}, {"publish", "crash"}, {"db", "slow"}}
CHECK_DEADLOCK FALSE
INVARIANT
    DueNotLost
PROPERTY
    EventuallyReadied
