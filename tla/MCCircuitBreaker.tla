--------------------------- MODULE MCCircuitBreaker ---------------------------
(* Small instances of CircuitBreaker.  A price of 10 moved to 12 is a       *)
(* change of 20 %, a volume of 1 moved to 5 one of 400 %, and one position  *)
(* of two liquidated is 50 %: beyond the constructor's thresholds, and      *)
(* within the loose ones.                                                   *)
EXTENDS CircuitBreaker, TLC

CONSTANTS admin, guardian

MCInitialThresholds == [price |-> 1000, volume |-> 30000, liquidation |-> 2000]

MCThresholds == { MCInitialThresholds, [price |-> 2000, volume |-> 40000, liquidation |-> 5000] }

(* No guard and no property but TypeOK reads the reason of a trip, which   *)
(* each call that trips sets to a name of its own.                          *)
WithoutReasons ==
    <<now, globalHalt, guardians, thresholds, isEnabled,
      [m \in Markets |-> [circuitStates[m] EXCEPT !.tripReason = "NONE"]]>>

MarketSymmetry == Permutations(Markets)

=============================================================================
