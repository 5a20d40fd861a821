SPECIFICATION FairSpec
CONSTANTS
    p1 = p1  p2 = p2  m1 = m1  m2 = m2  m3 = m3
    Msgs = {m1, m2, m3}
    Bad = {m2}
    Processes = {p1, p2}
    Calls <- BothCalls
    FetchSize = 2
    ChanCap = 1
    MaxStops = 1
    MaxExpiries = 1
INVARIANT
    OneOwner
PROPERTIES
    GoodAreHandled
    CancelledEnds
