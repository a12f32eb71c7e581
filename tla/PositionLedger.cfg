SPECIFICATION Spec
CONSTANTS
    t1 = t1
    t2 = t2
    Traders = {t1, t2}
    Markets = {btc}
    Engines = {engine}
    LiquidationEngines = {engine}
    NoAddress = NoAddress
    PositionIds = {0, 1}
    FlippableGates = {}
    WAD = 10
    MaxUint = 1000
    MaxQueue = 2
    RiskConfigs <- TwoRates
    OpenSizes = {10}
    OpenCollaterals = {20}
    OpenPrices = {100}
    Prices = {95, 110}
    Leverages = {20}
    SizeDeltas <- ResizeDeltas
    CollateralDeltas <- CollateralMoves
    MaxSize = 10
    MaxCollateral = 20
SYMMETRY TraderSymmetry
INVARIANTS
    PortfolioNeverUnderstates
    NoSolventLiquidation
    LedgerExact
    ListsExact
    EntriesOnTheirSide
CHECK_DEADLOCK FALSE
