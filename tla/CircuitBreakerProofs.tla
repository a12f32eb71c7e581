------------------------- MODULE CircuitBreakerProofs -------------------------
(* What TLAPS proves of CircuitBreaker: its type, that no reset comes       *)
(* before the cooldown of the last trip has passed, that baselines move     *)
(* with resets only, and that it implements the circuit half of the gates.  *)
EXTENDS CircuitBreaker, TLAPS

(* What a call does to the circuits: nothing, or one of three things to one *)
(* market, everything else staying as it was.                               *)
Keeps == UNCHANGED <<circuitStates>>

BaselineSet(m) ==
    \/ /\ circuitStates[m].referencePrice = 0
       /\ \E p \in Nat : SetCircuit(m, [circuitStates[m] EXCEPT !.referencePrice = p])
    \/ /\ circuitStates[m].referenceVolume = 0
       /\ \E v \in Nat : SetCircuit(m, [circuitStates[m] EXCEPT !.referenceVolume = v])

Tripped(m) == \E reason \in TripReason : tripCircuit(m, reason)

Reset(m) ==
    /\ Resettable(m)
    /\ \E p \in Nat : SetCircuit(m, [circuitStates[m] EXCEPT
                         !.isTripped = FALSE, !.tripReason = "NONE", !.lastResetTime = now,
                         !.referencePrice = p, !.referenceVolume = 0])

(* Every step leaves the circuits alone or is one of the three.             *)
LEMMA CircuitSteps ==
    ASSUME [Next]_breakerVars
    PROVE  Keeps \/ \E m \in Markets : BaselineSet(m) \/ Tripped(m) \/ Reset(m)
<1>1. ASSUME NEW m \in Markets, NEW p \in Prices, checkPriceDeviation(m, p)
      PROVE  BaselineSet(m) \/ Tripped(m)
  <2>1. p \in Nat
    BY AmountsAssumption
  <2> QED  BY <1>1, <2>1 DEF checkPriceDeviation, BaselineSet, Tripped, TripReason
<1>2. ASSUME NEW m \in Markets, NEW v \in Volumes, checkVolumeSpike(m, v)
      PROVE  BaselineSet(m) \/ Tripped(m)
  <2>1. v \in Nat
    BY AmountsAssumption
  <2> QED  BY <1>2, <2>1 DEF checkVolumeSpike, BaselineSet, Tripped, TripReason
<1>3. ASSUME NEW m \in Markets, NEW total, NEW liquidated,
             checkLiquidationCascade(m, total, liquidated)
      PROVE  Tripped(m)
  BY <1>3 DEF checkLiquidationCascade, Tripped, TripReason
<1>4. ASSUME NEW m \in Markets, NEW c, manualHalt(c, m)
      PROVE  Tripped(m)
  BY <1>4 DEF manualHalt, Tripped, TripReason
<1>5. ASSUME NEW m \in Markets, NEW c, NEW p \in Prices, resetCircuit(c, m, p)
      PROVE  Reset(m)
  <2>1. p \in Nat
    BY AmountsAssumption
  <2> QED  BY <1>5, <2>1 DEF resetCircuit, Reset
<1> QED  BY <1>1, <1>2, <1>3, <1>4, <1>5
         DEF Next, Keeps, Tick, toggleGlobalHalt, updateConfig, addGuardian, removeGuardian,
             toggleCircuitBreaker, breakerVars

(* And the clock only moves on a step that keeps the circuits.              *)
LEMMA Clock ==
    ASSUME TypeOK, [Next]_breakerVars
    PROVE  now' = now \/ (now' = now + 1 /\ Keeps)
  BY DEF Next, Keeps, Tick, checkPriceDeviation, checkVolumeSpike, checkLiquidationCascade,
         manualHalt, resetCircuit, tripCircuit, SetCircuit, toggleGlobalHalt, updateConfig,
         addGuardian, removeGuardian, toggleCircuitBreaker, breakerVars

-----------------------------------------------------------------------------
(* A step on one market keeps the types of the circuits.                    *)
LEMMA CircuitsTyped ==
    ASSUME TypeOK, NEW m \in Markets, BaselineSet(m) \/ Tripped(m) \/ Reset(m)
    PROVE  circuitStates' \in [Markets -> CircuitState]
<1>1. circuitStates[m] \in CircuitState
  BY DEF TypeOK
<1> DEFINE s == circuitStates[m]
<1>2. ASSUME NEW c \in CircuitState, SetCircuit(m, c)
      PROVE  circuitStates' \in [Markets -> CircuitState]
  BY <1>2 DEF SetCircuit, TypeOK
<1>3. CASE BaselineSet(m)
  <2>1. \A p \in Nat : /\ [s EXCEPT !.referencePrice = p] \in CircuitState
                       /\ [s EXCEPT !.referenceVolume = p] \in CircuitState
    BY <1>1 DEF CircuitState
  <2> QED  BY <1>2, <1>3, <2>1 DEF BaselineSet
<1>4. CASE Tripped(m)
  <2>1. PICK reason \in TripReason : tripCircuit(m, reason)
    BY <1>4 DEF Tripped
  <2>2. now \in Nat /\ s.tripCount + 1 \in Nat
    BY <1>1 DEF CircuitState, TypeOK
  <2>3. [s EXCEPT !.isTripped = TRUE, !.tripReason = reason, !.tripTime = now,
                  !.tripCount = s.tripCount + 1] \in CircuitState
    BY <1>1, <2>2 DEF CircuitState
  <2> QED  BY <1>2, <2>1, <2>3 DEF tripCircuit
<1>5. CASE Reset(m)
  <2>1. \A p \in Nat :
           [s EXCEPT !.isTripped = FALSE, !.tripReason = "NONE", !.lastResetTime = now,
                     !.referencePrice = p, !.referenceVolume = 0] \in CircuitState
    BY <1>1 DEF CircuitState, TripReason, TypeOK
  <2> QED  BY <1>2, <1>5, <2>1 DEF Reset
<1> QED  BY <1>3, <1>4, <1>5

(* Type correctness of the breaker.                                         *)
THEOREM TypeCorrect == Spec => []TypeOK
<1>1. ASSUME Init PROVE TypeOK
  <2>1. NeverTripped \in CircuitState
    BY DEF NeverTripped, CircuitState, TripReason
  <2>2. globalHalt \in BOOLEAN /\ isEnabled \in BOOLEAN
    BY <1>1, Zenon DEF Init
  <2> QED  BY <1>1, <2>1, <2>2, AdminAssumption, ThresholdsAssumption DEF Init, TypeOK
<1>2. ASSUME TypeOK, [Next]_breakerVars
      PROVE  TypeOK'
  <2>1. circuitStates' \in [Markets -> CircuitState]
    BY <1>2, CircuitSteps, CircuitsTyped DEF Keeps, TypeOK
  <2>2. now' \in Nat \ {0}
    BY <1>2, Clock DEF TypeOK
  <2>3. /\ globalHalt' \in BOOLEAN /\ guardians' \subseteq Accounts
        /\ thresholds' \in ThresholdConfig /\ isEnabled' \in BOOLEAN
    BY <1>2, ThresholdsAssumption
       DEF TypeOK, Next, Tick, checkPriceDeviation, checkVolumeSpike, checkLiquidationCascade,
           manualHalt, resetCircuit, tripCircuit, SetCircuit, toggleGlobalHalt, updateConfig,
           addGuardian, removeGuardian, toggleCircuitBreaker, breakerVars
  <2> QED  BY <2>1, <2>2, <2>3 DEF TypeOK
<1> QED  BY <1>1, <1>2, PTL DEF Spec

-----------------------------------------------------------------------------
(* The strengthening: no recorded time lies in the future.                  *)
TimesPast ==
    \A m \in Markets :
        circuitStates[m].tripTime <= now /\ circuitStates[m].lastResetTime <= now

ResetInv == TimesPast /\ ResetAfterCooldown

(* A reset always comes a full cooldown after the last trip of its market.  *)
THEOREM ResetsWait == Spec => []ResetAfterCooldown
<1>1. Init => ResetInv
  BY DEF Init, ResetInv, TimesPast, ResetAfterCooldown, NeverTripped
<1>2. ASSUME TypeOK, TypeOK', TimesPast, ResetAfterCooldown, [Next]_breakerVars
      PROVE  (TimesPast /\ ResetAfterCooldown)'
  <2>1. now \in Nat /\ now' \in Nat /\ now <= now' /\ Cooldown \in Nat
    BY <1>2, Clock, TimesAssumption DEF TypeOK
  <2>2. CASE Keeps
    BY <2>1, <2>2, <1>2 DEF Keeps, TimesPast, ResetAfterCooldown, TypeOK, CircuitState
  <2>3. ASSUME NEW m \in Markets, BaselineSet(m) \/ Tripped(m) \/ Reset(m), NEW n \in Markets
        PROVE  LET s == circuitStates'[n]
               IN  /\ s.tripTime <= now' /\ s.lastResetTime <= now'
                   /\ s.tripCount > 0 /\ ~s.isTripped => s.lastResetTime >= s.tripTime + Cooldown
                   /\ s.isTripped => s.lastResetTime <= s.tripTime
    <3>1. circuitStates[n] \in CircuitState /\ circuitStates[m] \in CircuitState
      BY <1>2 DEF TypeOK
    <3>2. CASE n # m
      <4>1. circuitStates'[n] = circuitStates[n]
        BY <3>2, <2>3, <1>2 DEF BaselineSet, Tripped, Reset, tripCircuit, SetCircuit, TypeOK
      <4> QED  BY <4>1, <3>1, <2>1, <1>2 DEF TimesPast, ResetAfterCooldown, CircuitState
    <3>3. CASE n = m /\ BaselineSet(m)
      <4>1. /\ circuitStates'[m].tripTime = circuitStates[m].tripTime
            /\ circuitStates'[m].lastResetTime = circuitStates[m].lastResetTime
            /\ circuitStates'[m].tripCount = circuitStates[m].tripCount
            /\ circuitStates'[m].isTripped = circuitStates[m].isTripped
        BY <3>3, <3>1, <1>2 DEF BaselineSet, SetCircuit, TypeOK, CircuitState
      <4> QED  BY <4>1, <3>3, <3>1, <2>1, <1>2 DEF TimesPast, ResetAfterCooldown, CircuitState
    <3>4. CASE n = m /\ Tripped(m)
      <4>1. /\ circuitStates'[m].tripTime = now /\ circuitStates'[m].isTripped
            /\ circuitStates'[m].lastResetTime = circuitStates[m].lastResetTime
        BY <3>4, <3>1, <1>2 DEF Tripped, tripCircuit, SetCircuit, TypeOK, CircuitState
      <4> QED  BY <4>1, <3>4, <3>1, <2>1, <1>2 DEF TimesPast, CircuitState
    <3>5. CASE n = m /\ Reset(m)
      <4>1. /\ circuitStates'[m].tripTime = circuitStates[m].tripTime
            /\ circuitStates'[m].lastResetTime = now /\ ~circuitStates'[m].isTripped
        BY <3>5, <3>1, <1>2 DEF Reset, SetCircuit, TypeOK, CircuitState
      <4> QED  BY <4>1, <3>5, <3>1, <2>1, <1>2 DEF Reset, Resettable, TimesPast, CircuitState
    <3> QED  BY <2>3, <3>2, <3>3, <3>4, <3>5
  <2> QED  BY <2>2, <2>3, <1>2, CircuitSteps DEF TimesPast, ResetAfterCooldown
<1> QED  BY <1>1, <1>2, TypeCorrect, PTL DEF Spec, ResetInv

-----------------------------------------------------------------------------
(* What prices and volumes are compared with moves at a reset only.         *)
THEOREM BaselinesHold == Spec => BaselinesMoveAtReset
<1>1. ASSUME TypeOK, [Next]_breakerVars, NEW n \in Markets
      PROVE  LET s == circuitStates[n]
                 t == circuitStates'[n]
             IN  \/ s.isTripped /\ ~t.isTripped
                 \/ /\ s.referencePrice \in {0, t.referencePrice}
                    /\ s.referenceVolume \in {0, t.referenceVolume}
  <2>1. circuitStates[n] \in CircuitState
    BY <1>1 DEF TypeOK
  <2>2. CASE circuitStates'[n] = circuitStates[n]
    BY <2>2
  <2>3. CASE BaselineSet(n)
    BY <2>3, <2>1, <1>1 DEF BaselineSet, SetCircuit, TypeOK, CircuitState
  <2>4. CASE Tripped(n)
    BY <2>4, <2>1, <1>1 DEF Tripped, tripCircuit, SetCircuit, TypeOK, CircuitState
  <2>5. CASE Reset(n)
    BY <2>5, <2>1, <1>1 DEF Reset, Resettable, IsTripped, SetCircuit, TypeOK, CircuitState
  <2>6. ASSUME NEW m \in Markets, m # n, BaselineSet(m) \/ Tripped(m) \/ Reset(m)
        PROVE  circuitStates'[n] = circuitStates[n]
    BY <2>6, <1>1 DEF BaselineSet, Tripped, Reset, tripCircuit, SetCircuit, TypeOK
  <2> QED  BY <1>1, <2>2, <2>3, <2>4, <2>5, <2>6, CircuitSteps DEF Keeps
<1>2. TypeOK /\ [Next]_breakerVars =>
        [ \A m \in Markets :
          LET s == circuitStates[m]
              t == circuitStates'[m]
          IN  \/ s.isTripped /\ ~t.isTripped
              \/ /\ s.referencePrice \in {0, t.referencePrice}
                 /\ s.referenceVolume \in {0, t.referenceVolume} ]_breakerVars
  BY <1>1
<1> QED  BY <1>2, TypeCorrect, PTL DEF Spec, BaselinesMoveAtReset

-----------------------------------------------------------------------------
(* The breaker implements the circuit half of the gates: whatever holds of  *)
(* trading under circuits that flip at any time holds under this breaker.   *)
TrippedMarkets == { m \in Markets : IsTripped(m) }

LEMMA FlipOne ==
    ASSUME NEW m \in Markets, UNCHANGED globalHalt,
           \A n \in Markets \ {m} : circuitStates'[n] = circuitStates[n]
    PROVE  Gates!FlipCircuit(m) \/ UNCHANGED Gates!gateVars
<1>1. CASE IsTripped(m) <=> IsTripped(m)'
  <2>1. TrippedMarkets' = TrippedMarkets
    BY <1>1 DEF TrippedMarkets, IsTripped
  <2> QED  BY <2>1 DEF Gates!gateVars, TrippedMarkets
<1>2. CASE ~(IsTripped(m) <=> IsTripped(m)')
  <2>1. TrippedMarkets' = Gates!Toggle(TrippedMarkets, m)
    BY <1>2 DEF TrippedMarkets, IsTripped, Gates!Toggle
  <2> QED  BY <2>1 DEF Gates!FlipCircuit, TrippedMarkets
<1> QED  BY <1>1, <1>2

(* Every step of the breaker is a step of the gates or none.                *)
THEOREM RefinesGates == Spec => ImplementsGates
<1>1. Init => Gates!GatesInit
  BY DEF Init, Gates!GatesInit, IsTripped, NeverTripped
<1>2. ASSUME TypeOK, [Next]_breakerVars
      PROVE  [Gates!GateStep]_(Gates!gateVars)
  <2>1. ASSUME NEW m \in Markets, BaselineSet(m) \/ Tripped(m) \/ Reset(m)
        PROVE  [Gates!GateStep]_(Gates!gateVars)
    <3>1. UNCHANGED globalHalt
      BY <2>1 DEF BaselineSet, Tripped, Reset, tripCircuit, SetCircuit
    <3>2. \A n \in Markets \ {m} : circuitStates'[n] = circuitStates[n]
      BY <2>1, <1>2 DEF BaselineSet, Tripped, Reset, tripCircuit, SetCircuit, TypeOK
    <3> QED  BY <3>1, <3>2, FlipOne DEF Gates!GateStep
  <2>2. CASE Keeps
    <3>1. UNCHANGED TrippedMarkets
      BY <2>2 DEF Keeps, TrippedMarkets, IsTripped
    <3>2. globalHalt' = globalHalt \/ globalHalt' = ~globalHalt
      BY <1>2, Zenon DEF Next, Tick, checkPriceDeviation, checkVolumeSpike,
         checkLiquidationCascade, manualHalt, resetCircuit, tripCircuit, SetCircuit,
         toggleGlobalHalt, updateConfig, addGuardian, removeGuardian, toggleCircuitBreaker,
         breakerVars
    <3> QED  BY <3>1, <3>2 DEF Gates!GateStep, Gates!FlipGlobalHalt, Gates!gateVars, TrippedMarkets
  <2> QED  BY <1>2, <2>1, <2>2, CircuitSteps
<1> QED  BY <1>1, <1>2, TypeCorrect, PTL DEF Spec, ImplementsGates

=============================================================================
