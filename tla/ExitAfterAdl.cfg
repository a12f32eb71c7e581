SPECIFICATION AdlSpec
CONSTANTS
    t1 = t1
    t2 = t2
    Traders = {t1}
    Markets = {btc}
    Engines = {engine}
    LiquidationEngines = {engine}
    NoAddress = NoAddress
    PositionIds = {0, 1, 2}
    FlippableGates = {}
    WAD = 10
    MaxUint = 1000
    MaxQueue = 3
    RiskConfigs <- MCRiskConfigs
    OpenSizes = {10}
    OpenCollaterals = {10}
    OpenPrices = {100}
    Prices = {100, 110}
    Leverages = {10, 20}
    SizeDeltas = {}
    CollateralDeltas = {}
    MaxSize = 20
    MaxCollateral = 20
    ADLLimits = {2}
    CloseSizes = {5, 15}
    MaxADLEvents = 1
INVARIANTS
    CloseNeverBlocked
CHECK_DEADLOCK FALSE
