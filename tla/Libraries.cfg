SPECIFICATION Spec
CONSTANTS
    Entries <- MCEntries
    MaxLen = 5
    Revert = Revert
    MaxUint = 255
    MaxHalf = 15
    Q96 = 4
    PERCENTAGE_FACTOR = 20
    SECONDS_PER_HOUR = 2
    LargestAmount = 45
INVARIANTS
    
    
    LeavesSortedArrangement
PROPERTIES
    SortEnds
CHECK_DEADLOCK FALSE
