SPECIFICATION Spec
CONSTANTS
    admin = admin
    guardian = guardian
    Accounts = {admin, guardian}
    Admin = admin
    Markets = {btc, eth}
    InitialThresholds <- MCInitialThresholds
    Thresholds <- MCThresholds
    Cooldown = 1
    Prices = {0, 10, 12}
    Volumes = {1, 5}
    LiquidationCounts = {0, 1, 2}
    MaxTime = 3
    MaxTrips = 2
VIEW WithoutReasons
SYMMETRY MarketSymmetry
INVARIANTS
    ResetAfterCooldown
PROPERTIES
    
    ImplementsGates
CHECK_DEADLOCK FALSE
