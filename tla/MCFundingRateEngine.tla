-------------------------- MODULE MCFundingRateEngine --------------------------
(* Small instances of FundingRateEngine.  A rate of 3000 bps on a size of   *)
(* 10 is 3 per period; a clock that starts at 3 with a period of 2 leaves   *)
(* one period and a half to the first application.                          *)
EXTENDS FundingRateEngine

CONSTANTS t1, t2

MCRiskConfigs ==
    { [maintenanceMarginBps |-> 500, initialMarginBps |-> 1000, maxLeverage |-> 20] }

MCFundingConfigs ==
    { [maxFundingRateBps |-> 3000, fundingEnabled |-> TRUE, fundingInterval |-> 1] }

(* No guard and no property of this run reads the portfolio summaries.      *)
WithoutPortfolios ==
    <<positions, positionIdCounter, userPositions, marketPositions, openInterest,
      adminVars, adlVars, fundingVars>>

=============================================================================
