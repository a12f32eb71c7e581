SPECIFICATION AdlSpec
CONSTANTS
    t1 = t1
    t2 = t2
    Traders = {t1}
    Markets = {btc}
    Engines = {engine}
    LiquidationEngines = {}
    NoAddress = NoAddress
    PositionIds = {0, 1, 2}
    FlippableGates = {}
    WAD = 10
    MaxUint = 1000
    MaxQueue = 3
    RiskConfigs <- MCRiskConfigs
    OpenSizes = {10}
    OpenCollaterals = {20}
    OpenPrices = {100}
    Prices = {90, 110}
    Leverages = {20}
    SizeDeltas = {}
    CollateralDeltas = {}
    MaxSize = 20
    MaxCollateral = 20
    ADLLimits = {2}
    CloseSizes = {5, 25}
    MaxADLEvents = 1
VIEW WithoutPortfolios
INVARIANTS
    AdlLedgerOK
PROPERTIES
    ADLClosesWhatItRecords
    ReportedWithinClosed
    ADLTouchesOneQueue
CHECK_DEADLOCK FALSE
