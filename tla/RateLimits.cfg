SPECIFICATION Spec
CONSTANTS
    Users = {user}
    Ops = {op}
    Admins = {admin1, admin2}
    LimitTables <- MCLimitTables
    Windows = {0, 2, 3, 15}
    LargestLimit = 2
    ShortestWindow = 2
    GasLimits = {1}
    MaxUint = 15
    StartTime = 3
    MaxTime = 8
VIEW WithoutUnread
INVARIANTS
    ViewsExact
    BurstBounded
PROPERTIES
    RemainingCountsDown
CHECK_DEADLOCK FALSE
