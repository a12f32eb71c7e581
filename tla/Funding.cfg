SPECIFICATION FundingSpec
CONSTANTS
    t1 = t1
    t2 = t2
    Traders = {t1}
    Markets = {btc}
    Engines = {engine}
    LiquidationEngines = {engine}
    NoAddress = NoAddress
    PositionIds = {0, 1}
    FlippableGates = {"protocol", "ADL_ENGINE", "halt", "circuit"}
    WAD = 10
    MaxUint = 1000
    MaxQueue = 2
    RiskConfigs <- MCRiskConfigs
    OpenSizes = {10, 30}
    OpenCollaterals = {40}
    OpenPrices = {100}
    Prices = {110}
    Leverages = {20}
    SizeDeltas = {}
    CollateralDeltas = {}
    MaxSize = 30
    MaxCollateral = 40
    ThisEngine = fundingContract
    FundingEngines = {fundingContract, placeholder}
    OtherCallers = {anyone}
    WrittenFunding = {0}
    FundingConfigs <- MCFundingConfigs
    FUNDING_PERIOD = 2
    StartTime = 3
    MaxTime = 5
VIEW WithoutPortfolios
INVARIANTS
    NoPeriodChargedTwice
PROPERTIES
    
    CrowdedSidePays
    PaidOutIsCollected
CHECK_DEADLOCK FALSE
