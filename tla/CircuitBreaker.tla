---------------------------- MODULE CircuitBreaker ----------------------------
(***************************************************************************)
(* security/CircuitBreaker.sol: a circuit per market, tripped by three      *)
(* checks anyone may call or by a guardian, and reset by a guardian after a *)
(* cooldown; a global halt beside them.  Time passes between calls.         *)
(***************************************************************************)
EXTENDS Integers, FiniteSets

CONSTANTS
    Markets, Accounts, Admin,   \* callers; the constructor's address
    InitialThresholds,          \* the constructor's thresholds, in basis points
    Thresholds,                 \* arguments of updateConfig
    Cooldown,                   \* config.cooldownPeriod, which no call changes
    Prices, Volumes,            \* arguments of the checks and the reset
    LiquidationCounts,          \* arguments of checkLiquidationCascade
    MaxTime, MaxTrips           \* bounds on block.timestamp and on tripCount

ThresholdConfig == [price : Nat, volume : Nat, liquidation : Nat]

ASSUME AdminAssumption == Admin \in Accounts
ASSUME ThresholdsAssumption ==
    InitialThresholds \in ThresholdConfig /\ Thresholds \subseteq ThresholdConfig
ASSUME TimesAssumption == Cooldown \in Nat /\ MaxTime \in Nat /\ MaxTrips \in Nat
ASSUME AmountsAssumption ==
    Prices \subseteq Nat /\ Volumes \subseteq Nat /\ LiquidationCounts \subseteq Nat

VARIABLES
    now, globalHalt, guardians,
    thresholds, isEnabled,      \* the fields of config that calls change
    circuitStates

breakerVars == <<now, globalHalt, guardians, thresholds, isEnabled, circuitStates>>

BPS == 10000

TripReason == {"NONE", "PRICE_DEVIATION", "VOLUME_SPIKE", "LIQUIDATION_CASCADE", "MANUAL_HALT"}

CircuitState ==
    [isTripped : BOOLEAN, tripReason : TripReason, tripTime : Nat, lastResetTime : Nat,
     tripCount : Nat, referencePrice : Nat, referenceVolume : Nat]

NeverTripped ==
    [isTripped |-> FALSE, tripReason |-> "NONE", tripTime |-> 0, lastResetTime |-> 0,
     tripCount |-> 0, referencePrice |-> 0, referenceVolume |-> 0]

TypeOK ==
    /\ now \in Nat \ {0}
    /\ globalHalt \in BOOLEAN
    /\ guardians \subseteq Accounts
    /\ thresholds \in ThresholdConfig
    /\ isEnabled \in BOOLEAN
    /\ circuitStates \in [Markets -> CircuitState]

IsTripped(m) == circuitStates[m].isTripped

(* Change against a baseline, in basis points, rounded down.                *)
ChangeBps(baseline, current) ==
    ((IF current > baseline THEN current - baseline ELSE baseline - current) * BPS) \div baseline

-----------------------------------------------------------------------------
Init ==
    /\ now = 1
    /\ globalHalt = FALSE
    /\ guardians = {Admin}
    /\ thresholds = InitialThresholds
    /\ isEnabled = TRUE
    /\ circuitStates = [m \in Markets |-> NeverTripped]

SetCircuit(m, c) ==
    /\ circuitStates' = [circuitStates EXCEPT ![m] = c]
    /\ UNCHANGED <<now, globalHalt, guardians, thresholds, isEnabled>>

(* Slip: the trip takes every market down.                                  *)
MutTripsAll(m, reason) ==
    /\ circuitStates[m].tripCount < MaxTrips
    /\ circuitStates' = [n \in Markets |->
          [circuitStates[n] EXCEPT !.isTripped = TRUE, !.tripReason = reason,
                                   !.tripTime = now, !.tripCount = @ + 1]]
    /\ UNCHANGED <<now, globalHalt, guardians, thresholds, isEnabled>>

(* _tripCircuit; a circuit that is tripped already is tripped again.        *)
tripCircuit(m, reason) ==
    /\ circuitStates[m].tripCount < MaxTrips
    /\ SetCircuit(m, [circuitStates[m] EXCEPT !.isTripped = TRUE, !.tripReason = reason,
                                              !.tripTime = now, !.tripCount = @ + 1])

(* Slip: the baseline follows the price.                                    *)
MutFollowsPrice(m, currentPrice) ==
    /\ isEnabled
    /\ SetCircuit(m, [circuitStates[m] EXCEPT !.referencePrice = currentPrice])

(* The first price seen, whatever it is, is the baseline.                   *)
checkPriceDeviation(m, currentPrice) ==
    LET baseline == circuitStates[m].referencePrice
    IN  /\ isEnabled
        /\ IF baseline = 0
           THEN SetCircuit(m, [circuitStates[m] EXCEPT !.referencePrice = currentPrice])
           ELSE /\ ChangeBps(baseline, currentPrice) > thresholds.price
                /\ tripCircuit(m, "PRICE_DEVIATION")

checkVolumeSpike(m, currentVolume) ==
    LET baseline == circuitStates[m].referenceVolume
    IN  /\ isEnabled
        /\ IF baseline = 0
           THEN SetCircuit(m, [circuitStates[m] EXCEPT !.referenceVolume = currentVolume])
           ELSE /\ currentVolume > baseline
                /\ ChangeBps(baseline, currentVolume) > thresholds.volume
                /\ tripCircuit(m, "VOLUME_SPIKE")

checkLiquidationCascade(m, totalPositions, liquidatedPositions) ==
    /\ isEnabled /\ totalPositions # 0
    /\ (liquidatedPositions * BPS) \div totalPositions > thresholds.liquidation
    /\ tripCircuit(m, "LIQUIDATION_CASCADE")

(* isEnabled is not asked.                                                  *)
manualHalt(c, m) == c \in guardians /\ tripCircuit(m, "MANUAL_HALT")

(* Slip: the cooldown is counted from the last reset.                       *)
MutCoolsFromReset(m) ==
    IsTripped(m) /\ now >= circuitStates[m].lastResetTime + Cooldown

Resettable(m) == IsTripped(m) /\ now >= circuitStates[m].tripTime + Cooldown

(* Both baselines are given up: the volume's for the next volume seen, the  *)
(* price's for the guardian's, which may be 0.                              *)
resetCircuit(c, m, newReferencePrice) ==
    /\ c \in guardians
    /\ Resettable(m)
    /\ SetCircuit(m, [circuitStates[m] EXCEPT !.isTripped = FALSE, !.tripReason = "NONE",
                                              !.lastResetTime = now,
                                              !.referencePrice = newReferencePrice,
                                              !.referenceVolume = 0])

toggleGlobalHalt(c) ==
    /\ c = Admin
    /\ globalHalt' = ~globalHalt
    /\ UNCHANGED <<now, guardians, thresholds, isEnabled, circuitStates>>

updateConfig(c, config) ==
    /\ c = Admin
    /\ thresholds' = config
    /\ UNCHANGED <<now, globalHalt, guardians, isEnabled, circuitStates>>

addGuardian(c, guardian) ==
    /\ c = Admin
    /\ guardians' = guardians \cup {guardian}
    /\ UNCHANGED <<now, globalHalt, thresholds, isEnabled, circuitStates>>

removeGuardian(c, guardian) ==
    /\ c = Admin
    /\ guardians' = guardians \ {guardian}
    /\ UNCHANGED <<now, globalHalt, thresholds, isEnabled, circuitStates>>

toggleCircuitBreaker(c) ==
    /\ c = Admin
    /\ isEnabled' = ~isEnabled
    /\ UNCHANGED <<now, globalHalt, guardians, thresholds, circuitStates>>

(* The next block.                                                          *)
Tick ==
    /\ now < MaxTime
    /\ now' = now + 1
    /\ UNCHANGED <<globalHalt, guardians, thresholds, isEnabled, circuitStates>>

Next ==
    \/ Tick
    \/ \E m \in Markets, p \in Prices : checkPriceDeviation(m, p)
    \/ \E m \in Markets, v \in Volumes : checkVolumeSpike(m, v)
    \/ \E m \in Markets, total, liquidated \in LiquidationCounts :
          checkLiquidationCascade(m, total, liquidated)
    \/ \E c \in Accounts, m \in Markets : manualHalt(c, m)
    \/ \E c \in Accounts, m \in Markets, p \in Prices : resetCircuit(c, m, p)
    \/ \E c \in Accounts : toggleGlobalHalt(c)
    \/ \E c \in Accounts, config \in Thresholds : updateConfig(c, config)
    \/ \E c, g \in Accounts : addGuardian(c, g)
    \/ \E c, g \in Accounts : removeGuardian(c, g)
    \/ \E c \in Accounts : toggleCircuitBreaker(c)

Spec == Init /\ [][Next]_breakerVars

-----------------------------------------------------------------------------
(* PROPERTIES                                                               *)

(* A circuit that was tripped and is closed again was reset a full cooldown *)
(* after its LAST trip, although a tripped circuit can be tripped again and *)
(* reset several times; one that is tripped was not reset since.            *)
ResetAfterCooldown ==
    \A m \in Markets :
        LET s == circuitStates[m]
        IN  /\ s.tripCount > 0 /\ ~s.isTripped => s.lastResetTime >= s.tripTime + Cooldown
            /\ s.isTripped => s.lastResetTime <= s.tripTime

(* A baseline, once set, moves only with the reset of its own market: no    *)
(* check, whoever calls it with whatever numbers, and no change of          *)
(* thresholds, guardians or switches moves what prices are compared with.   *)
BaselinesMoveAtReset ==
    [][ \A m \in Markets :
          LET s == circuitStates[m]
              t == circuitStates'[m]
          IN  \/ s.isTripped /\ ~t.isTripped
              \/ /\ s.referencePrice \in {0, t.referencePrice}
                 /\ s.referenceVolume \in {0, t.referenceVolume} ]_breakerVars

(* The breaker, seen through its two answers, is the circuit half of the    *)
(* gates the trading contracts were modelled against: a call flips the halt *)
(* or the circuit of one market.                                            *)
Gates == INSTANCE ProtocolGates WITH
            FlippableGates <- {"halt", "circuit"},
            protocolPaused <- FALSE, pausedModules <- {},
            trippedCircuits <- { m \in Markets : IsTripped(m) }

ImplementsGates == Gates!GatesInit /\ [][Gates!GateStep]_(Gates!gateVars)

=============================================================================
