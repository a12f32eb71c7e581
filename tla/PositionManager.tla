---------------------------- MODULE PositionManager ----------------------------
(***************************************************************************)
(* core/trading/PositionManager.sol: the ledger of perpetual positions,     *)
(* with the per-trader lists, per-market lists, open interest and portfolio *)
(* summaries kept beside it, and its calls into the candidate queues of     *)
(* AutoDeleverageEngine (module AdlQueue).                                  *)
(*                                                                         *)
(* One action is one external call.  A call that reverts changes nothing,   *)
(* so a revert condition is a missing guard's negation: the action is       *)
(* simply not enabled.  Checked arithmetic that would underflow is such a   *)
(* condition.  Prices, sizes and collateral are integers scaled by WAD.     *)
(***************************************************************************)
EXTENDS AdlQueue, FiniteSetsExt, SequencesExt

CONSTANTS
    Traders,            \* accounts that trade
    Engines,            \* contracts an admin can name as the trading engine
    LiquidationEngines, \* and as the liquidation engine
    NoAddress,          \* address(0), also the market id of a deleted record
    WAD,                \* 1e18, the fixed-point unit
    MaxUint,            \* type(uint256).max as a liquidation price
    RiskConfigs,        \* argument tuples of setMarketRiskConfig
    OpenSizes, OpenCollaterals, OpenPrices, Leverages,  \* arguments of openPosition
    Prices, SizeDeltas, CollateralDeltas,               \* of marks and resizes
    MaxSize, MaxCollateral                              \* bounds on one position

(* Positive units, and the numbers that are unsigned in the code.           *)
ASSUME UnitsAssumption ==
    /\ WAD \in Nat \ {0}
    /\ MaxUint \in Nat
    /\ MaxQueue \in Nat
    /\ MaxSize \in Nat /\ MaxCollateral \in Nat
    /\ OpenSizes \subseteq Nat /\ OpenCollaterals \subseteq Nat
    /\ OpenPrices \subseteq Nat /\ Prices \subseteq Nat /\ Leverages \subseteq Nat
    /\ SizeDeltas \subseteq Int /\ CollateralDeltas \subseteq Int

(* Position ids are the values of the position counter.                     *)
ASSUME IdsAssumption ==
    /\ PositionIds \subseteq Nat
    /\ IsFiniteSet(PositionIds)

ASSUME ConfigsAssumption ==
    RiskConfigs \subseteq [maintenanceMarginBps : Nat, initialMarginBps : Nat,
                           maxLeverage : Nat]

ASSUME NamesAssumption == NoAddress \notin Traders \cup Markets \cup Engines \cup LiquidationEngines

VARIABLES
    positions, positionIdCounter, userPositions, marketPositions,
    openInterest, marketRiskConfigs, portfolios,
    tradingEngine, liquidationEngine

ledgerVars == <<positions, positionIdCounter, userPositions, marketPositions,
                openInterest, portfolios>>
adminVars == <<marketRiskConfigs, tradingEngine, liquidationEngine, gateVars>>
vars == <<ledgerVars, adminVars, adlVars>>

Accounts == Traders \cup {NoAddress}

(* PositionData and the Position inside it.  opened stands for              *)
(* openedAt != 0; a deleted record is all zeros.                            *)
PositionData ==
    [opened : BOOLEAN, trader : Accounts, marketId : Markets \cup {NoAddress},
     side : Sides, size : Nat, collateral : Nat, entryPrice : Nat,
     leverage : Nat, unrealizedPnL : Int, liquidationPrice : Nat,
     isLiquidatable : BOOLEAN, inADLQueue : BOOLEAN]

ZeroPosition ==
    [opened |-> FALSE, trader |-> NoAddress, marketId |-> NoAddress,
     side |-> "LONG", size |-> 0, collateral |-> 0, entryPrice |-> 0,
     leverage |-> 0, unrealizedPnL |-> 0, liquidationPrice |-> 0,
     isLiquidatable |-> FALSE, inADLQueue |-> FALSE]

MarketRiskConfig ==
    [maintenanceMarginBps : Nat, initialMarginBps : Nat, maxLeverage : Nat,
     isActive : BOOLEAN]

UnconfiguredMarket ==
    [maintenanceMarginBps |-> 0, initialMarginBps |-> 0, maxLeverage |-> 0,
     isActive |-> FALSE]

EmptyPortfolio == [totalCollateral |-> 0, totalUnrealizedPnL |-> 0, positionCount |-> 0]

IsOpen(id) == positions[id].opened
OpenIds == { id \in PositionIds : IsOpen(id) }

-----------------------------------------------------------------------------
(* Arithmetic of the contract.  Signed division truncates towards zero.     *)
SignedDiv(a, b) == IF a >= 0 THEN a \div b ELSE -((-a) \div b)

Notional(size, price) == (size * price) \div WAD

(* _calculateUnrealizedPnL *)
UnrealizedPnL(pos, price) ==
    LET diff == IF pos.side = "LONG" THEN price - pos.entryPrice ELSE pos.entryPrice - price
    IN  SignedDiv(diff * pos.size, WAD)

(* The maintenance margin rate in use; 50 bps where none is configured.     *)
MaintenanceBps(m) ==
    IF marketRiskConfigs[m].maintenanceMarginBps > 0
    THEN marketRiskConfigs[m].maintenanceMarginBps ELSE 50

MarginAt(bps, size, entryPrice) == (Notional(size, entryPrice) * bps) \div 10000

MaintenanceMargin(m, size, entryPrice) == MarginAt(MaintenanceBps(m), size, entryPrice)

(* _calculateLiquidationPrice *)
LiquidationPrice(m, side, entryPrice, collateral, size) ==
    LET mmr       == MaintenanceMargin(m, size, entryPrice)
        priceMove == ((collateral - mmr) * WAD) \div size
        nearest   == IF side = "LONG" THEN 0 ELSE MaxUint
    IN  IF size = 0 \/ collateral <= mmr THEN nearest
        ELSE IF side = "LONG"
        THEN IF priceMove >= entryPrice THEN 1 ELSE entryPrice - priceMove
        ELSE IF priceMove > MaxUint - entryPrice THEN MaxUint ELSE entryPrice + priceMove

(* Slip: the comparison of a long runs the other way.                       *)
MutReachedFromAbove(pos, price) ==
    \/ pos.side = "LONG" /\ price >= pos.liquidationPrice
    \/ pos.side = "SHORT" /\ price >= pos.liquidationPrice

PriceReached(pos, price) ==
    \/ pos.side = "LONG" /\ price <= pos.liquidationPrice
    \/ pos.side = "SHORT" /\ price >= pos.liquidationPrice

(* The record _updatePositionState leaves, the queue flag included.         *)
Marked(pos, price) ==
    LET pnl == UnrealizedPnL(pos, price)
    IN  [pos EXCEPT !.unrealizedPnL = pnl,
                    !.isLiquidatable = PriceReached(pos, price),
                    !.inADLQueue = pnl > 0]

(* Slip: the sum starts at the second listed position.                      *)
MutSkipsFirst(ps, list) ==
    LET live == { i \in DOMAIN list : i > 1 /\ ps[list[i]].opened }
    IN  [totalCollateral    |-> SumFunctionOnSet([i \in DOMAIN list |-> ps[list[i]].collateral], live),
         totalUnrealizedPnL |-> SumFunctionOnSet([i \in DOMAIN list |-> ps[list[i]].unrealizedPnL], live),
         positionCount      |-> Cardinality(live)]

(* _updatePortfolio: sums over the ids listed for the account, deleted      *)
(* records skipped.  ps and lists are the ledger at the moment of the call. *)
PortfolioOf(ps, list) ==
    LET live == { i \in DOMAIN list : ps[list[i]].opened }
    IN  [totalCollateral    |-> SumFunctionOnSet([i \in DOMAIN list |-> ps[list[i]].collateral], live),
         totalUnrealizedPnL |-> SumFunctionOnSet([i \in DOMAIN list |-> ps[list[i]].unrealizedPnL], live),
         positionCount      |-> Cardinality(live)]

(* Slip: the last entry is copied over the match and not popped.            *)
MutNotPopped(list, id) == [i \in DOMAIN list |-> IF list[i] = id THEN Last(list) ELSE list[i]]

(* _removeUserPosition: the first match is overwritten by the last entry,   *)
(* which is popped.                                                         *)
WithoutUserPosition(list, id) ==
    IF \A i \in DOMAIN list : list[i] # id THEN list
    ELSE LET at == Min({ i \in DOMAIN list : list[i] = id })
         IN  Front([list EXCEPT ![at] = Last(list)])

-----------------------------------------------------------------------------
(* setMarketRiskConfig, for the admin *)
ValidRiskConfig(c) ==
    /\ c.maintenanceMarginBps > 0
    /\ c.initialMarginBps > c.maintenanceMarginBps
    /\ c.maxLeverage > 0 /\ c.maxLeverage <= 100

setMarketRiskConfig(m, c) ==
    /\ whenNotEmergencyPaused("POSITION_MANAGER")
    /\ whenCircuitActivated(m)
    /\ ValidRiskConfig(c)
    /\ marketRiskConfigs' = [marketRiskConfigs EXCEPT ![m] =
          [maintenanceMarginBps |-> c.maintenanceMarginBps,
           initialMarginBps |-> c.initialMarginBps,
           maxLeverage |-> c.maxLeverage, isActive |-> TRUE]]
    /\ UNCHANGED <<ledgerVars, tradingEngine, liquidationEngine, adlVars, gateVars>>

setTradingEngine(e) ==
    /\ whenNotEmergencyPaused("POSITION_MANAGER")
    /\ whenGlobalCircuitActivated
    /\ tradingEngine' = e
    /\ UNCHANGED <<ledgerVars, marketRiskConfigs, liquidationEngine, adlVars, gateVars>>

setLiquidationEngine(e) ==
    /\ whenNotEmergencyPaused("POSITION_MANAGER")
    /\ whenGlobalCircuitActivated
    /\ liquidationEngine' = e
    /\ UNCHANGED <<ledgerVars, marketRiskConfigs, tradingEngine, adlVars, gateVars>>

-----------------------------------------------------------------------------
(* openPosition, called by the trading engine.  There is no pause check of  *)
(* its own; the closing call to updateADLQueue stands behind ADL's gates.   *)
MeetsMargin(m, size, collateral, price) ==
    collateral >= (Notional(size, price) * marketRiskConfigs[m].initialMarginBps) \div 10000

NewPosition(t, m, side, size, collateral, price, leverage) ==
    [opened |-> TRUE, trader |-> t, marketId |-> m, side |-> side,
     size |-> size, collateral |-> collateral, entryPrice |-> price,
     leverage |-> leverage, unrealizedPnL |-> 0,
     liquidationPrice |-> LiquidationPrice(m, side, price, collateral, size),
     isLiquidatable |-> FALSE, inADLQueue |-> FALSE]

openPosition(t, m, side, size, collateral, price, leverage) ==
    LET id == positionIdCounter
    IN  /\ id \in PositionIds
        /\ tradingEngine # NoAddress
        /\ whenCircuitActivated(m)
        /\ size > 0 /\ collateral > 0
        /\ marketRiskConfigs[m].isActive
        /\ leverage <= marketRiskConfigs[m].maxLeverage
        /\ MeetsMargin(m, size, collateral, price)
        /\ positionIdCounter' = positionIdCounter + 1
        /\ positions' = [positions EXCEPT ![id] =
              NewPosition(t, m, side, size, collateral, price, leverage)]
        /\ userPositions' = [userPositions EXCEPT ![t] = Append(@, id)]
        /\ marketPositions' = [marketPositions EXCEPT ![m] = Append(@, id)]
        /\ openInterest' = [openInterest EXCEPT ![m][side] = @ + size]
        /\ portfolios' = [portfolios EXCEPT ![t] = PortfolioOf(positions', userPositions'[t])]
        /\ UpdateADLQueue(m, id, side, 0, leverage)
        /\ UNCHANGED adminVars

(* _updatePositionState, on the record pos the caller has prepared.         *)
MarkPosition(id, pos, price) ==
    LET pnl == UnrealizedPnL(pos, price)
    IN  /\ positions' = [positions EXCEPT ![id] = Marked(pos, price)]
        /\ \/ pnl > 0 /\ UpdateADLQueue(pos.marketId, id, pos.side, pnl, pos.leverage)
           \/ pnl <= 0 /\ pos.inADLQueue /\ RemoveFromADLQueue(pos.marketId, id, pos.side)
           \/ pnl <= 0 /\ ~pos.inADLQueue /\ UNCHANGED adlVars

(* updatePositionState, callable by anyone at any price.                    *)
updatePositionState(id, price) ==
    /\ whenNotEmergencyPaused("POSITION_MANAGER")
    /\ whenGlobalCircuitActivated
    /\ IsOpen(id)
    /\ MarkPosition(id, positions[id], price)
    /\ UNCHANGED <<positionIdCounter, userPositions, marketPositions, openInterest,
                   portfolios, adminVars>>

(* modifyPosition, called by the trading engine.  Open interest follows the *)
(* size; the portfolio summary is not touched.                              *)
Resized(pos, sizeDelta, collateralDelta) ==
    LET size       == pos.size + sizeDelta
        collateral == pos.collateral + collateralDelta
    IN  [pos EXCEPT !.size = size, !.collateral = collateral,
                    !.liquidationPrice = LiquidationPrice(pos.marketId, pos.side,
                                             pos.entryPrice, collateral, size)]

WithinHoldings(pos, sizeDelta, collateralDelta) ==
    /\ pos.size + sizeDelta \in 0..MaxSize
    /\ pos.collateral + collateralDelta \in 0..MaxCollateral

modifyPosition(id, sizeDelta, collateralDelta, price) ==
    LET pos == positions[id]
        oi  == openInterest[pos.marketId][pos.side] + sizeDelta
    IN  /\ tradingEngine # NoAddress
        /\ whenNotEmergencyPaused("POSITION_MANAGER")
        /\ whenGlobalCircuitActivated
        /\ IsOpen(id)
        /\ WithinHoldings(pos, sizeDelta, collateralDelta)
        /\ oi >= 0
        /\ openInterest' = [openInterest EXCEPT ![pos.marketId][pos.side] = oi]
        /\ MarkPosition(id, Resized(pos, sizeDelta, collateralDelta), price)
        /\ UNCHANGED <<positionIdCounter, userPositions, marketPositions, portfolios, adminVars>>

-----------------------------------------------------------------------------
(* What closePosition and forceClosePosition both do to the ledger l.  The   *)
(* record is deleted before pos.trader is read again for the portfolio      *)
(* update, so the account whose summary is rebuilt is the one left in the   *)
(* zeroed record.                                                           *)
Ledger == [positions |-> positions, userPositions |-> userPositions,
           openInterest |-> openInterest, portfolios |-> portfolios]

(* Slip: the closed size stays in the open interest.                        *)
MutKeepsInterest(l, id) ==
    LET pos == l.positions[id]
    IN  [l EXCEPT !.positions[id] = ZeroPosition,
                  !.userPositions[pos.trader] = WithoutUserPosition(@, id)]

(* Slip: the closed size is taken from the other side's open interest.      *)
MutTakesFromOtherSide(l, id) ==
    LET pos == l.positions[id]
    IN  [l EXCEPT !.positions[id] = ZeroPosition,
                  !.userPositions[pos.trader] = WithoutUserPosition(@, id),
                  !.openInterest[pos.marketId] =
                      [s \in Sides |-> IF s = pos.side THEN @[s] ELSE @[s] - pos.size]]

AfterClose(l, id) ==
    LET pos     == l.positions[id]
        deleted == [l.positions EXCEPT ![id] = ZeroPosition]
        owner   == deleted[id].trader
        lists   == [l.userPositions EXCEPT ![pos.trader] = WithoutUserPosition(@, id)]
    IN  [positions     |-> deleted,
         userPositions |-> lists,
         openInterest  |-> [l.openInterest EXCEPT ![pos.marketId][pos.side] = @ - pos.size],
         portfolios    |-> [l.portfolios EXCEPT ![owner] = PortfolioOf(deleted, lists[owner])]]

(* openInterest -= size underflows, and reverts, below zero.                *)
OpenInterestCovers(l, id) ==
    LET pos == l.positions[id]
    IN  l.openInterest[pos.marketId][pos.side] >= pos.size

SetLedger(l) ==
    /\ positions' = l.positions
    /\ userPositions' = l.userPositions
    /\ openInterest' = l.openInterest
    /\ portfolios' = l.portfolios
    /\ UNCHANGED <<positionIdCounter, marketPositions>>

CloseBody(id) ==
    LET pos == positions[id]
    IN  /\ whenNotEmergencyPaused("POSITION_MANAGER")
        /\ whenGlobalCircuitActivated
        /\ IsOpen(id)
        /\ OpenInterestCovers(Ledger, id)
        /\ SetLedger(AfterClose(Ledger, id))
        /\ UNCHANGED adminVars
        /\ \/ pos.inADLQueue /\ RemoveFromADLQueue(pos.marketId, id, pos.side)
           \/ ~pos.inADLQueue /\ UNCHANGED adlVars

closePosition(id) == tradingEngine # NoAddress /\ CloseBody(id)

(* forceClosePosition, called by the registered liquidation engine.  (The   *)
(* other permitted caller is the ADL engine, inside executeADL.)            *)
forceClosePosition(id) == liquidationEngine # NoAddress /\ CloseBody(id)

-----------------------------------------------------------------------------
Init ==
    /\ positions = [id \in PositionIds |-> ZeroPosition]
    /\ positionIdCounter = 0
    /\ userPositions = [t \in Accounts |-> << >>]
    /\ marketPositions = [m \in Markets |-> << >>]
    /\ openInterest = [m \in Markets |-> [s \in Sides |-> 0]]
    /\ marketRiskConfigs = [m \in Markets |-> UnconfiguredMarket]
    /\ portfolios = [t \in Accounts |-> EmptyPortfolio]
    /\ tradingEngine = NoAddress
    /\ liquidationEngine = NoAddress
    /\ QueueInit
    /\ GatesInit

AdminStep ==
    \/ \E m \in Markets, c \in RiskConfigs : setMarketRiskConfig(m, c)
    \/ \E e \in Engines : setTradingEngine(e)
    \/ \E e \in LiquidationEngines : setLiquidationEngine(e)

OpenStep ==
    \E t \in Traders, m \in Markets, side \in Sides, size \in OpenSizes,
       collateral \in OpenCollaterals, price \in OpenPrices, leverage \in Leverages :
        openPosition(t, m, side, size, collateral, price, leverage)

ModifyStep ==
    \E id \in PositionIds, ds \in SizeDeltas, dc \in CollateralDeltas, price \in Prices :
        modifyPosition(id, ds, dc, price)

MarkStep == \E id \in PositionIds, price \in Prices : updatePositionState(id, price)

CloseStep == \E id \in PositionIds : closePosition(id)

ForceCloseStep == \E id \in PositionIds : forceClosePosition(id)

GuardianStep ==
    /\ GateStep
    /\ UNCHANGED <<ledgerVars, marketRiskConfigs, tradingEngine, liquidationEngine, adlVars>>

Next ==
    \/ AdminStep
    \/ OpenStep
    \/ ModifyStep
    \/ MarkStep
    \/ CloseStep
    \/ ForceCloseStep
    \/ GuardianStep

Spec == Init /\ [][Next]_vars

-----------------------------------------------------------------------------
(* PROPERTIES                                                               *)

(* Every variable has its type: stored records, the lists of ids, counters  *)
(* that unsigned arithmetic keeps at or above zero, queues and indices.     *)
LedgerTypeOK ==
    /\ positions \in [PositionIds -> PositionData]
    /\ positionIdCounter \in Nat
    /\ userPositions \in [Accounts -> Seq(PositionIds)]
    /\ marketPositions \in [Markets -> Seq(PositionIds)]
    /\ openInterest \in [Markets -> [Sides -> Nat]]
    /\ marketRiskConfigs \in [Markets -> MarketRiskConfig]
    /\ tradingEngine \in Engines \cup {NoAddress}
    /\ liquidationEngine \in LiquidationEngines \cup {NoAddress}

PortfoliosTypeOK ==
    portfolios \in [Accounts -> [totalCollateral : Nat, totalUnrealizedPnL : Int,
                                 positionCount : Nat]]

CoreTypeOK == LedgerTypeOK /\ QueueTypeOK /\ GatesTypeOK

TypeOK == CoreTypeOK /\ PortfoliosTypeOK

(* Positions live on one side of one market.                                *)
OpenOn(m, side) == { id \in OpenIds : positions[id].marketId = m /\ positions[id].side = side }
FlaggedOn(m, side) == { id \in OpenOn(m, side) : positions[id].inADLQueue }

(* Open interest of a market's side is the sum of the sizes of the open     *)
(* positions there, through opens, resizes, closes and forced closes.       *)
OpenInterestExact ==
    \A m \in Markets, side \in Sides :
        openInterest[m][side] =
            SumFunctionOnSet([id \in PositionIds |-> positions[id].size], OpenOn(m, side))

(* No unsigned number of the ledger underflows, and the counters that calls *)
(* subtract from are the sums of what they may subtract.                    *)
LedgerExact == TypeOK /\ OpenInterestExact

(* A trader's list names each of the trader's open positions once and       *)
(* nothing else, whatever order swap-and-pop removals happened in; and no   *)
(* open position is missing from its market's list.                         *)
ListsExact ==
    /\ \A t \in Accounts :
          /\ IsInjective(userPositions[t])
          /\ ToSet(userPositions[t]) = { id \in OpenIds : positions[id].trader = t }
    /\ \A id \in OpenIds : Contains(marketPositions[positions[id].marketId], id)

(* A trader's summary is rebuilt when a position is opened and no longer    *)
(* when one is closed (the account rebuilt then is the deleted record's     *)
(* zero address): it may count positions that are gone, never miss one that *)
(* is open.                                                                 *)
PortfolioNeverUnderstates ==
    \A t \in Traders :
        portfolios[t].positionCount >= Cardinality({ id \in OpenIds : positions[id].trader = t })

(* Nobody solvent is liquidatable: a position marked so has no more equity  *)
(* than its maintenance margin, up to one unit of price and one of value    *)
(* lost in rounding.  The margin is one at a rate the admin has configured, *)
(* not the rate of now: a new rate reaches a position at its next resize.   *)
(* Resizes and withdrawals re-derive the liquidation price and the mark     *)
(* together; the converse does not hold (below its maintenance margin a     *)
(* position is never marked).  At the ends of the price range, where the    *)
(* liquidation price is cut off (1 and the maximum) or absent (0 and the    *)
(* maximum), a mark at that very price says nothing about equity.           *)
NoSolventLiquidation ==
    \A id \in OpenIds :
        LET pos == positions[id]
        IN  pos.isLiquidatable /\ pos.liquidationPrice \in 2..(MaxUint - 1) =>
              \E c \in RiskConfigs :
                 pos.collateral + pos.unrealizedPnL
                   <= MarginAt(c.maintenanceMarginBps, pos.size, pos.entryPrice)
                      + (pos.size \div WAD) + 1

(* The two contracts agree who is a candidate: a position carries the       *)
(* inADLQueue flag exactly when the engine keeps an index for it.           *)
FlagMatchesIndex ==
    \A id \in PositionIds : positions[id].inADLQueue <=> queueIndices[id] # 0

(* A queue never holds fewer entries than flagged positions, although its   *)
(* entries need not be theirs.  This is what keeps the pop in               *)
(* _removePositionFromQueue from reverting, hence positions closable.       *)
QueueCoversFlags ==
    \A m \in Markets, side \in Sides :
        Cardinality(FlaggedOn(m, side)) <= Len(adlQueues[m][side])

(* The flag follows the stored profit: a position is a candidate exactly    *)
(* while its last mark showed a gain, resizes and re-marks included.        *)
FlagMeansProfit ==
    \A id \in OpenIds : positions[id].inADLQueue <=> positions[id].unrealizedPnL > 0

(* Queues are served from the head, so they stay in descending order of     *)
(* score through pushes, overwrites and removals at stale indices.          *)
QueuesDescending ==
    \A m \in Markets, side \in Sides : DescendingByScore(adlQueues[m][side])

(* An entry of a queue never names an open position of another market or    *)
(* of the other side.                                                       *)
EntriesOnTheirSide ==
    \A m \in Markets, side \in Sides :
        \A c \in ToSet(adlQueues[m][side]) :
            IsOpen(c.positionId) => c.positionId \in OpenOn(m, side)

(* With every gate open and a trading engine registered, the holder of any  *)
(* open position can have it closed in one call.                            *)
EveryGateOpen(m) ==
    /\ ~protocolPaused /\ pausedModules = {}
    /\ ~globalHalt /\ m \notin trippedCircuits

CloseNeverBlocked ==
    \A id \in OpenIds :
        tradingEngine # NoAddress /\ EveryGateOpen(positions[id].marketId)
            => ENABLED closePosition(id)

(* A module pause or protocol pause of PositionManager freezes size and     *)
(* collateral of every position that is open.  (openPosition does not read  *)
(* the pause switch, so new positions do appear.)                           *)
PauseFreezesOpenPositions ==
    [][ ~whenNotEmergencyPaused("POSITION_MANAGER")
          => \A id \in OpenIds : positions'[id] = positions[id] ]_vars

=============================================================================
