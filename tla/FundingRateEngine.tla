--------------------------- MODULE FundingRateEngine ---------------------------
(***************************************************************************)
(* core/trading/FundingRateEngine.sol over PositionManager: a keeper        *)
(* applies the funding of a market to every open position in it, at most    *)
(* once per FUNDING_PERIOD, at a rate that follows the imbalance of the     *)
(* open interest.  With it the part of PositionManager that serves funding  *)
(* alone: marketConfig, fundingEngine and the accumulated funding of a      *)
(* record.                                                                  *)
(***************************************************************************)
EXTENDS PositionManager

CONSTANTS
    ThisEngine,         \* the address of the FundingEngine contract
    FundingEngines,     \* contracts an admin can name as the funding engine
    OtherCallers,       \* accounts that call updateAccumulatedFunding themselves
    WrittenFunding,     \* and the values they pass
    FundingConfigs,     \* funding arguments of setMarketConfig
    FUNDING_PERIOD,     \* 8 hours, in units of the clock
    StartTime, MaxTime  \* bounds of the clock; a chain starts long after 0

ASSUME FundingAssumption ==
    /\ FUNDING_PERIOD \in Nat \ {0}
    /\ StartTime \in Nat /\ MaxTime \in Nat
    /\ FundingEngines # {} /\ NoAddress \notin FundingEngines
    /\ OtherCallers \cap FundingEngines = {}
    /\ WrittenFunding \subseteq Int
    /\ FundingConfigs \subseteq [maxFundingRateBps : Nat, fundingEnabled : BOOLEAN,
                                 fundingInterval : Nat]

VARIABLES
    marketConfig,       \* [market -> its funding configuration]
    fundingEngine,      \* PositionManager.fundingEngine
    accumulatedFunding, \* [id -> PositionData.accumulatedFunding]
    lastFundingTime,    \* [market -> when the keeper last got through]
    now,                \* block.timestamp
    chargedPeriods      \* history: [market -> periods charged so far]

fundingVars == <<marketConfig, fundingEngine, accumulatedFunding, lastFundingTime,
                 now, chargedPeriods>>

MarketConfig == [maxFundingRateBps : Nat, fundingEnabled : BOOLEAN, fundingInterval : Nat]

UnfundedMarket == [maxFundingRateBps |-> 0, fundingEnabled |-> FALSE, fundingInterval |-> 0]

-----------------------------------------------------------------------------
(* _calculateRate: both divisions truncate towards zero; positive when      *)
(* longs outweigh shorts.                                                   *)
Capped(rate, cap) ==
    IF rate > cap THEN cap ELSE IF rate < -cap THEN -cap ELSE rate

FundingRate(longOI, shortOI, maxRateBps) ==
    LET imbalance == SignedDiv((longOI - shortOI) * WAD, longOI + shortOI)
    IN  Capped(SignedDiv(imbalance * maxRateBps, WAD), maxRateBps)

(* Slip: the sign is not turned for longs.                                  *)
MutEveryoneEarns(pos, rateBps, periods) ==
    SignedDiv(pos.size * rateBps * periods, 10000)

(* _calcPayment: what the position receives.                                *)
FundingPayment(pos, rateBps, periods) ==
    LET base == SignedDiv(pos.size * rateBps * periods, 10000)
    IN  IF pos.side = "LONG" THEN -base ELSE base

-----------------------------------------------------------------------------
(* setMarketConfig, for the admin.  No bound is put on the rate.            *)
setMarketConfig(m, c) ==
    /\ whenNotEmergencyPaused("POSITION_MANAGER")
    /\ whenCircuitActivated(m)
    /\ marketConfig' = [marketConfig EXCEPT ![m] = c]
    /\ UNCHANGED <<vars, fundingEngine, accumulatedFunding, lastFundingTime, now, chargedPeriods>>

setFundingEngine(e) ==
    /\ whenNotEmergencyPaused("POSITION_MANAGER")
    /\ whenGlobalCircuitActivated
    /\ fundingEngine' = e
    /\ UNCHANGED <<vars, marketConfig, accumulatedFunding, lastFundingTime, now, chargedPeriods>>

(* The guard is the wrong way round: it turns away the registered engine    *)
(* and nobody else.                                                         *)
onlyFundingEngine(caller) == caller # fundingEngine

(* Slip: funding is written while the protocol is paused.                   *)
MutWritesWhilePaused(caller) == onlyFundingEngine(caller) /\ whenGlobalCircuitActivated

MayWriteFunding(caller) ==
    /\ onlyFundingEngine(caller)
    /\ whenGlobalCircuitActivated
    /\ whenNotEmergencyPaused("POSITION_MANAGER")

(* updateAccumulatedFunding, called from outside; any id, open or not.      *)
updateAccumulatedFunding(caller, id, value) ==
    /\ MayWriteFunding(caller)
    /\ accumulatedFunding' = [accumulatedFunding EXCEPT ![id] = value]
    /\ UNCHANGED <<vars, marketConfig, fundingEngine, lastFundingTime, now, chargedPeriods>>

(* applyFundingRate, for a keeper: nothing to charge in a market that is    *)
(* disabled, whatever the time, ...                                         *)
Funded(m) == marketConfig[m].fundingEnabled /\ marketConfig[m].fundingInterval # 0

SkipDisabled(m) ==
    /\ ~Funded(m)
    /\ lastFundingTime' = [lastFundingTime EXCEPT ![m] = now]
    /\ UNCHANGED <<vars, marketConfig, fundingEngine, accumulatedFunding, now, chargedPeriods>>

PeriodElapsed(m) == now >= lastFundingTime[m] + FUNDING_PERIOD

TotalOI(m) == openInterest[m]["LONG"] + openInterest[m]["SHORT"]

(* ... nor without open interest; ...                                       *)
SkipEmpty(m) ==
    /\ Funded(m) /\ PeriodElapsed(m)
    /\ TotalOI(m) = 0
    /\ lastFundingTime' = [lastFundingTime EXCEPT ![m] = now]
    /\ UNCHANGED <<vars, marketConfig, fundingEngine, accumulatedFunding, now, chargedPeriods>>

(* Slip: a partial period is charged as a whole one.                        *)
MutRoundsUp(m) == (now - lastFundingTime[m] + FUNDING_PERIOD - 1) \div FUNDING_PERIOD

(* Counted from 0, not from the first position, before the first time.      *)
Periods(m) == (now - lastFundingTime[m]) \div FUNDING_PERIOD

(* ... otherwise every open position the market's list names is written     *)
(* through updateAccumulatedFunding; one refusal takes everything back.     *)
ListedOpen(m) == { id \in ToSet(marketPositions[m]) : IsOpen(id) }

ChargePositions(m) ==
    LET rate == FundingRate(openInterest[m]["LONG"], openInterest[m]["SHORT"],
                            marketConfig[m].maxFundingRateBps)
    IN  /\ Funded(m) /\ PeriodElapsed(m)
        /\ TotalOI(m) # 0
        /\ ListedOpen(m) # {} => MayWriteFunding(ThisEngine)
        /\ accumulatedFunding' = [id \in PositionIds |->
              accumulatedFunding[id] + IF id \in ListedOpen(m)
                                       THEN FundingPayment(positions[id], rate, Periods(m))
                                       ELSE 0]
        /\ lastFundingTime' = [lastFundingTime EXCEPT ![m] = now]
        /\ chargedPeriods' = [chargedPeriods EXCEPT ![m] = @ + Periods(m)]
        /\ UNCHANGED <<vars, marketConfig, fundingEngine, now>>

applyFundingRate(m) == SkipDisabled(m) \/ SkipEmpty(m) \/ ChargePositions(m)

(* A record starts with no funding and takes it along when it is deleted.   *)
FundingOfRecords ==
    accumulatedFunding' = [id \in PositionIds |->
        IF positions[id].opened = positions'[id].opened THEN accumulatedFunding[id] ELSE 0]

Tick ==
    /\ now < MaxTime
    /\ now' = now + 1
    /\ UNCHANGED <<vars, marketConfig, fundingEngine, accumulatedFunding, lastFundingTime,
                   chargedPeriods>>

-----------------------------------------------------------------------------
FundingInit ==
    /\ Init
    /\ marketConfig = [m \in Markets |-> UnfundedMarket]
    /\ fundingEngine \in FundingEngines
    /\ accumulatedFunding = [id \in PositionIds |-> 0]
    /\ lastFundingTime = [m \in Markets |-> 0]
    /\ now = StartTime
    /\ chargedPeriods = [m \in Markets |-> 0]

TradingStep ==
    /\ Next
    /\ FundingOfRecords
    /\ UNCHANGED <<marketConfig, fundingEngine, lastFundingTime, now, chargedPeriods>>

ConfigStep ==
    \/ \E m \in Markets, c \in FundingConfigs : setMarketConfig(m, c)
    \/ \E e \in FundingEngines : setFundingEngine(e)

FundingStep ==
    \/ \E caller \in OtherCallers, id \in PositionIds, value \in WrittenFunding :
          updateAccumulatedFunding(caller, id, value)
    \/ \E m \in Markets : applyFundingRate(m)

FundingNext == TradingStep \/ ConfigStep \/ FundingStep \/ Tick

FundingSpec == FundingInit /\ [][FundingNext]_<<vars, fundingVars>>

-----------------------------------------------------------------------------
(* PROPERTIES                                                               *)

(* Types of the funding state; no funding lies in the future.               *)
FundingTypeOK ==
    /\ CoreTypeOK
    /\ marketConfig \in [Markets -> MarketConfig]
    /\ fundingEngine \in FundingEngines
    /\ accumulatedFunding \in [PositionIds -> Int]
    /\ lastFundingTime \in [Markets -> Nat]
    /\ now \in Nat
    /\ chargedPeriods \in [Markets -> Nat]
    /\ \A m \in Markets : lastFundingTime[m] <= now

(* No stretch of time is charged twice, whatever the keeper's timing, the   *)
(* configuration and skipped applications: all periods ever charged to a    *)
(* market fit, one after another, before the last application.              *)
NoPeriodChargedTwice ==
    \A m \in Markets : chargedPeriods[m] * FUNDING_PERIOD <= lastFundingTime[m]

(* What a step adds to the positions of a market.                           *)
Received(id) == accumulatedFunding'[id] - accumulatedFunding[id]
Applied(m) == chargedPeriods'[m] # chargedPeriods[m]

(* Funding flows from the crowded side to the other: an application takes   *)
(* nothing from the lighter side, gives nothing to the heavier one, and     *)
(* leaves the records outside the market's open positions alone.            *)
CrowdedSidePays ==
    [][ \A m \in Markets : Applied(m) =>
          \A id \in PositionIds :
            IF id \in OpenIds /\ positions[id].marketId = m
            THEN LET lead == openInterest[m]["LONG"] - openInterest[m]["SHORT"]
                 IN  IF positions[id].side = "LONG"
                     THEN (lead >= 0 => Received(id) <= 0) /\ (lead <= 0 => Received(id) >= 0)
                     ELSE (lead >= 0 => Received(id) >= 0) /\ (lead <= 0 => Received(id) <= 0)
            ELSE Received(id) = 0 ]_<<vars, fundingVars>>

(* The positions of a market never receive more than they pay, but for the  *)
(* fraction of a unit that truncation leaves with each payer.  This rests   *)
(* on the open interest being the sum of the open positions' sizes and on   *)
(* the market's list naming each of them once.                              *)
PaidOutIsCollected ==
    [][ \A m \in Markets : Applied(m) =>
          SumFunctionOnSet([id \in PositionIds |-> Received(id)], ListedOpen(m))
              <= Cardinality(ListedOpen(m)) ]_<<vars, fundingVars>>

(* Registering the funding engine ends funding: while PositionManager names *)
(* it, no application charges a market with open positions.                 *)
RegistrationEndsFunding ==
    [][ fundingEngine = ThisEngine =>
          \A m \in Markets : Applied(m) => ListedOpen(m) = {} ]_<<vars, fundingVars>>

(* While PositionManager is paused or everything is halted, the record of   *)
(* a position that is open keeps its size, collateral and funding.          *)
PauseFreezesFunding ==
    [][ ~whenNotEmergencyPaused("POSITION_MANAGER") \/ globalHalt
          => \A id \in OpenIds : accumulatedFunding'[id] = accumulatedFunding[id] ]_<<vars, fundingVars>>

(* The guards of PositionManager before a record is written: while it is    *)
(* paused no call, of a trader or of funding, changes an open position, a   *)
(* halt holds back funding too, and the funding engine it names is the one  *)
(* caller whose funding it refuses.                                         *)
RecordsGuarded ==
    PauseFreezesOpenPositions /\ PauseFreezesFunding /\ RegistrationEndsFunding

=============================================================================
