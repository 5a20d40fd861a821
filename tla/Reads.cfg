SPECIFICATION Spec
CONSTANTS
    Ids = {1, 2, 3}
    MaxTime = 2
    Queries <- AllWalks
    DefaultPageSize = 2
    MaxPageSize = 3
CHECK_DEADLOCK FALSE
INVARIANTS
    KeysetShowsEachOnce
    DefaultOrderShowsAll
    OffsetShowsAll
    CountAgreesWithSelect
