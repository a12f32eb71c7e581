SPECIFICATION Spec
CONSTANTS
    t1 = t1
    t2 = t2
    Traders = {t1}
    Markets = {btc}
    Engines = {engine}
    LiquidationEngines = {}
    NoAddress = NoAddress
    PositionIds = {0, 1, 2}
    FlippableGates = {"circuit"}
    WAD = 10
    MaxUint = 1000
    MaxQueue = 3
    RiskConfigs <- MCRiskConfigs
    OpenSizes = {10}
    OpenCollaterals = {20}
    OpenPrices = {100}
    Prices = {90, 110, 120}
    Leverages = {20}
    SizeDeltas = {}
    CollateralDeltas = {}
    MaxSize = 20
    MaxCollateral = 20
VIEW WithoutPortfolios
INVARIANTS
    FlagMatchesIndex
    QueueCoversFlags
    QueuesDescending
    CloseNeverBlocked
CHECK_DEADLOCK FALSE
