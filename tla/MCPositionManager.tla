--------------------------- MODULE MCPositionManager ---------------------------
(* Small instances of PositionManager.  With WAD = 10, a size of 10 is one  *)
(* unit; entry at 100 needs 10 of collateral at a 10% initial margin, and   *)
(* marks at 90 or 95 are a loss, at 110 a gain.                             *)
EXTENDS PositionManager

CONSTANTS t1, t2

MCRiskConfigs ==
    { [maintenanceMarginBps |-> 500, initialMarginBps |-> 1000, maxLeverage |-> 20] }

(* Two maintenance rates, 9% and 1% of the notional: the admin changes one  *)
(* for the other under positions that are open.                             *)
TwoRates ==
    { [maintenanceMarginBps |-> 900, initialMarginBps |-> 1000, maxLeverage |-> 20],
      [maintenanceMarginBps |-> 100, initialMarginBps |-> 1000, maxLeverage |-> 20] }

ResizeDeltas == {0, -10, 10}
CollateralMoves == {0, -10}
NoMove == {0}

(* No guard reads the portfolio summaries: a run whose properties do not    *)
(* either counts states that differ in them alone as one.                   *)
WithoutPortfolios ==
    <<positions, positionIdCounter, userPositions, marketPositions, openInterest,
      adminVars, adlVars>>

TraderSymmetry == Permutations(Traders)

=============================================================================
