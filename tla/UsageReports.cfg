SPECIFICATION Spec
CONSTANTS
    Calls <- MCCalls
    Queries <- MCQueries
    None = None
    DayLength = 1
    DefaultLimit = 1
    MaxLimit = 2
    DefaultErrors = 1
    MaxErrors = 2
    MaxRows = 3
    MaxTime = 2
    MaxSpanDepth = 2
    FetchCap = 2
INVARIANTS
    TypeOK
    ReportsAddUp
    SeriesFollowTotals
    TreeConserves
    RowsHangWhereLogged
PROPERTIES
    PagesMissNoRow
    MissedRunsGrew
CHECK_DEADLOCK FALSE
