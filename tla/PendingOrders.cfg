SPECIFICATION Spec
CONSTANTS
    Traders = {alice, bob}
    Markets = {btc, eth}
    NoAddress = NoAddress
    MaxOrders = 3
    OrderArgs <- MCOrderArgs
    Sizes = {3}
    FillSizes = {1, 2, 3}
    Expiries = {0, 2}
    MaxTime = 2
    MaxBatch = 2
    ReExpires = FALSE
SYMMETRY Symmetry
INVARIANTS
    
    
    MassCallsExact

    
CHECK_DEADLOCK FALSE
