--------------------------- MODULE MCAutoDeleverage ---------------------------
(* Small instances of AutoDeleverage: one market, shortfalls of half a      *)
(* position, one position and one and a half.                               *)
EXTENDS AutoDeleverage

CONSTANTS t1, t2

MCRiskConfigs ==
    { [maintenanceMarginBps |-> 500, initialMarginBps |-> 1000, maxLeverage |-> 20] }

(* No guard and no property of these runs reads the portfolio summaries, so *)
(* states that differ in them alone count as one.                           *)
WithoutPortfolios ==
    <<positions, positionIdCounter, userPositions, marketPositions, openInterest,
      adminVars, adlVars, engineVars>>

Shrink == {-10}
NoMove == {0}

=============================================================================
