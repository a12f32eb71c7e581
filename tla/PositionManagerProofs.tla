------------------------- MODULE PositionManagerProofs -------------------------
(***************************************************************************)
(* Proofs about PositionManager: for any traders, markets, prices, sizes    *)
(* and queue lengths, and switches that flip at any time.                   *)
(***************************************************************************)
EXTENDS PositionManager, FoldLemmas, FiniteSetTheorems, TLAPS

(* What the operations of the candidate queues (module AdlQueue) do to      *)
(* lengths, order and contents, for queues of any length.                   *)

(* Sorting keeps the number of entries and the set of them.                 *)
LEMMA SortedProperties ==
    ASSUME NEW q \in Seq(Candidates), NEW s \in SortedArrangements(q)
    PROVE  /\ s \in Seq(Candidates)
           /\ Len(s) = Len(q)
           /\ DescendingByScore(s)
           /\ \A i \in DOMAIN s : \E j \in DOMAIN q : s[i] = q[j]
<1>1. PICK p \in Bijection(DOMAIN q, DOMAIN q) : s = [i \in DOMAIN q |-> q[p[i]]]
  BY DEF SortedArrangements
<1>2. p \in [DOMAIN q -> DOMAIN q]
  BY DEF Bijection, Injection
<1>3. s \in [1..Len(q) -> Candidates]
  BY <1>1, <1>2
<1> QED  BY <1>1, <1>2, <1>3 DEF SortedArrangements

(* Removing an entry by any index shortens the queue by one, keeps the      *)
(* order of the rest and adds nothing.                                      *)
LEMMA WithoutEntryProperties ==
    ASSUME NEW q \in Seq(Candidates), q # << >>, NEW idx \in Nat \ {0}
    PROVE  /\ WithoutEntry(q, idx) \in Seq(Candidates)
           /\ Len(WithoutEntry(q, idx)) = Len(q) - 1
           /\ DescendingByScore(q) => DescendingByScore(WithoutEntry(q, idx))
           /\ \A i \in DOMAIN WithoutEntry(q, idx) :
                 \E j \in DOMAIN q : WithoutEntry(q, idx)[i] = q[j]
<1> DEFINE k == RemovedSlot(q, idx)
           r == WithoutEntry(q, idx)
<1>1. Len(q) \in Nat \ {0}
  OBVIOUS
<1>2. k \in 1..Len(q)
  BY <1>1 DEF RemovedSlot
<1>3. r = [i \in 1..(Len(q) - 1) |-> IF i < k THEN q[i] ELSE q[i + 1]]
  BY DEF WithoutEntry, WithoutSlot
<1> HIDE DEF k, r
<1>4. r \in [1..(Len(q) - 1) -> Candidates]
  BY <1>1, <1>2, <1>3
<1>5. r \in Seq(Candidates) /\ Len(r) = Len(q) - 1
  BY <1>1, <1>4
<1>6. DescendingByScore(q) => DescendingByScore(r)
  <2>1. SUFFICES ASSUME DescendingByScore(q), NEW i \in DOMAIN r, NEW j \in DOMAIN r, i < j
                 PROVE  r[i].adlScore >= r[j].adlScore
    BY DEF DescendingByScore
  <2>2. PICK a \in DOMAIN q : r[i] = q[a] /\ (a = i \/ a = i + 1) /\ (i < k <=> a = i)
    BY <1>1, <1>2, <1>3
  <2>3. PICK b \in DOMAIN q : r[j] = q[b] /\ (b = j \/ b = j + 1) /\ (j < k <=> b = j)
    BY <1>1, <1>2, <1>3
  <2>4. a < b
    BY <1>2, <1>3, <2>1, <2>2, <2>3
  <2> QED  BY <2>1, <2>2, <2>3, <2>4 DEF DescendingByScore
<1>7. \A i \in DOMAIN r : \E j \in DOMAIN q : r[i] = q[j]
  BY <1>1, <1>2, <1>3
<1> QED  BY <1>5, <1>6, <1>7 DEF r

(* Placing a candidate adds one entry exactly when its index is 0, never    *)
(* takes one away, and brings in no entry but the candidate.                *)
LEMMA PlacedProperties ==
    ASSUME NEW q \in Seq(Candidates), NEW idx \in Nat, NEW c \in Candidates
    PROVE  /\ Placed(q, idx, c) \in Seq(Candidates)
           /\ Len(Placed(q, idx, c)) >= Len(q)
           /\ idx = 0 => Len(Placed(q, idx, c)) = Len(q) + 1
           /\ \A i \in DOMAIN Placed(q, idx, c) :
                 \/ Placed(q, idx, c)[i] = c
                 \/ \E j \in DOMAIN q : Placed(q, idx, c)[i] = q[j]
<1>1. CASE HasSlot(idx, q)
  BY <1>1 DEF Placed, HasSlot
<1>2. CASE ~HasSlot(idx, q)
  BY <1>2 DEF Placed
<1> QED  BY <1>1, <1>2

-----------------------------------------------------------------------------
(* What a call leaves of the queues, in the terms the ledger's invariants   *)
(* are stated in.                                                           *)
OtherQueuesKept(m, side) ==
    \A n \in Markets, s \in Sides :
        n # m \/ s # side => adlQueues'[n][s] = adlQueues[n][s]

EntriesFrom(r, q) == \A i \in DOMAIN r : \E j \in DOMAIN q : r[i] = q[j]

(* A removal drops one entry, whichever it is, if the position had an index *)
(* and nothing otherwise; the position has no index afterwards.             *)
LEMMA RemoveEffect ==
    ASSUME QueueTypeOK, NEW m \in Markets, NEW id \in PositionIds, NEW side \in Sides,
           RemovePositionFromQueue(m, id, side)
    PROVE  /\ QueueTypeOK'
           /\ queueIndices' = [queueIndices EXCEPT ![id] = 0]
           /\ OtherQueuesKept(m, side)
           /\ queueIndices[id] # 0 =>
                 Len(adlQueues'[m][side]) = Len(adlQueues[m][side]) - 1
           /\ queueIndices[id] = 0 => adlQueues' = adlQueues
           /\ EntriesFrom(adlQueues'[m][side], adlQueues[m][side])
           /\ DescendingByScore(adlQueues[m][side]) => DescendingByScore(adlQueues'[m][side])
<1> DEFINE q == adlQueues[m][side]
<1>1. q \in Seq(Candidates) /\ queueIndices[id] \in Nat
  BY DEF QueueTypeOK
<1>2. CASE queueIndices[id] = 0
  <2>1. UNCHANGED adlVars
    BY <1>2 DEF RemovePositionFromQueue
  <2>2. queueIndices' = [queueIndices EXCEPT ![id] = 0]
    BY <1>2, <2>1 DEF QueueTypeOK, adlVars
  <2> QED  BY <1>2, <2>1, <2>2 DEF adlVars, QueueTypeOK, OtherQueuesKept, EntriesFrom
<1>3. CASE queueIndices[id] > 0
  <2> DEFINE r == WithoutEntry(q, queueIndices[id])
  <2>1. /\ q # << >>
        /\ adlQueues' = [adlQueues EXCEPT ![m][side] = r]
        /\ queueIndices' = [queueIndices EXCEPT ![id] = 0]
    BY <1>3 DEF RemovePositionFromQueue
  <2>2. /\ r \in Seq(Candidates) /\ Len(r) = Len(q) - 1
        /\ DescendingByScore(q) => DescendingByScore(r)
        /\ EntriesFrom(r, q)
    <3>1. queueIndices[id] \in Nat \ {0}
      BY <1>1, <1>3
    <3> HIDE DEF q
    <3> QED  BY <1>1, <2>1, <3>1, WithoutEntryProperties, Zenon DEF EntriesFrom
  <2> HIDE DEF r
  <2>3. adlQueues'[m][side] = r /\ OtherQueuesKept(m, side)
    BY <2>1 DEF QueueTypeOK, OtherQueuesKept
  <2>4. QueueTypeOK'
    BY <2>1, <2>2 DEF QueueTypeOK
  <2> QED  BY <1>3, <2>1, <2>2, <2>3, <2>4
<1> QED  BY <1>1, <1>2, <1>3

(* Scores are natural numbers, so a queued candidate is a Candidate.        *)
LEMMA ScoreType ==
    ASSUME NEW pnl \in Nat, NEW leverage \in Nat
    PROVE  AdlScore(pnl, leverage) \in Nat
<1>1. pnl * leverage \in Nat
  OBVIOUS
<1> QED  BY <1>1 DEF AdlScore

(* Queueing a candidate gives its position an index, adds an entry if it    *)
(* had none, never loses one, and leaves the queue sorted.                  *)
LEMMA EnqueueEffect ==
    ASSUME QueueTypeOK, NEW m \in Markets, NEW id \in PositionIds, NEW side \in Sides,
           NEW pnl \in Nat, NEW leverage \in Nat,
           EnqueueCandidate(m, id, side, pnl, leverage)
    PROVE  /\ QueueTypeOK'
           /\ queueIndices'[id] # 0
           /\ \A other \in PositionIds \ {id} : queueIndices'[other] = queueIndices[other]
           /\ OtherQueuesKept(m, side)
           /\ Len(adlQueues'[m][side]) >= Len(adlQueues[m][side])
           /\ queueIndices[id] = 0 =>
                 Len(adlQueues'[m][side]) = Len(adlQueues[m][side]) + 1
           /\ \A i \in DOMAIN adlQueues'[m][side] :
                 \/ adlQueues'[m][side][i].positionId = id
                 \/ \E j \in DOMAIN adlQueues[m][side] :
                       adlQueues'[m][side][i] = adlQueues[m][side][j]
           /\ DescendingByScore(adlQueues'[m][side])
<1> DEFINE q == adlQueues[m][side]
           idx == queueIndices[id]
           c == [positionId |-> id, adlScore |-> AdlScore(pnl, leverage)]
           placed == Placed(q, idx, c)
<1>1. q \in Seq(Candidates) /\ idx \in Nat /\ Len(q) \in Nat
  BY DEF QueueTypeOK
<1>2. c \in Candidates
  BY ScoreType DEF Candidates
<1>3. PICK s \in SortedArrangements(placed) : adlQueues' = [adlQueues EXCEPT ![m][side] = s]
  BY DEF EnqueueCandidate
<1>4. queueIndices' = [queueIndices EXCEPT ![id] = IndexAfterPlacing(q, idx)]
  BY DEF EnqueueCandidate
<1>5. IndexAfterPlacing(q, idx) \in Nat \ {0}
  BY <1>1 DEF IndexAfterPlacing, HasSlot
<1>6. /\ placed \in Seq(Candidates) /\ Len(placed) >= Len(q)
      /\ idx = 0 => Len(placed) = Len(q) + 1
      /\ \A i \in DOMAIN placed : placed[i] = c \/ \E j \in DOMAIN q : placed[i] = q[j]
  BY <1>1, <1>2, PlacedProperties
<1>7. c.positionId = id
  OBVIOUS
<1> HIDE DEF placed, c, idx, q
<1>8. /\ s \in Seq(Candidates) /\ Len(s) = Len(placed) /\ DescendingByScore(s)
      /\ \A i \in DOMAIN s : \E j \in DOMAIN placed : s[i] = placed[j]
  BY <1>3, <1>6, SortedProperties
<1>9. adlQueues'[m][side] = s /\ OtherQueuesKept(m, side)
  BY <1>3 DEF QueueTypeOK, OtherQueuesKept
<1>10. QueueTypeOK'
  BY <1>3, <1>4, <1>5, <1>8 DEF QueueTypeOK
<1>11. \A i \in DOMAIN s : s[i].positionId = id \/ \E j \in DOMAIN q : s[i] = q[j]
  BY <1>6, <1>7, <1>8
<1>12. queueIndices'[id] # 0 /\ \A other \in PositionIds \ {id} : queueIndices'[other] = queueIndices[other]
  BY <1>4, <1>5 DEF QueueTypeOK
<1> QED  BY <1>6, <1>8, <1>9, <1>10, <1>11, <1>12 DEF idx, q

-----------------------------------------------------------------------------
(* What the ledger's arithmetic returns.                                    *)

LEMMA PnLType ==
    ASSUME NEW pos \in PositionData, NEW price \in Nat
    PROVE  UnrealizedPnL(pos, price) \in Int
<1>1. price - pos.entryPrice \in Int /\ pos.entryPrice - price \in Int /\ pos.size \in Int
  BY DEF PositionData
<1>2. \A d \in Int : d * pos.size \in Int
  BY <1>1, ProductTypes
<1>3. \A n \in Int : SignedDiv(n, WAD) \in Int
  BY DivTypes, UnitsAssumption DEF SignedDiv
<1> QED  BY <1>1, <1>2, <1>3 DEF UnrealizedPnL

LEMMA MarginType ==
    ASSUME CoreTypeOK, NEW m \in Markets, NEW size \in Nat, NEW entryPrice \in Nat
    PROVE  MaintenanceMargin(m, size, entryPrice) \in Nat
<1>1. size * entryPrice \in Nat
  OBVIOUS
<1>2. Notional(size, entryPrice) \in Nat
  BY <1>1, DivTypes, UnitsAssumption DEF Notional
<1>3. MaintenanceBps(m) \in Nat
  BY DEF MaintenanceBps, CoreTypeOK, LedgerTypeOK, MarketRiskConfig
<1>4. Notional(size, entryPrice) * MaintenanceBps(m) \in Nat
  BY <1>2, <1>3
<1> QED  BY <1>4 DEF MaintenanceMargin, MarginAt

LEMMA LiquidationPriceType ==
    ASSUME CoreTypeOK, NEW m \in Markets, NEW side \in Sides,
           NEW entryPrice \in Nat, NEW collateral \in Nat, NEW size \in Nat
    PROVE  LiquidationPrice(m, side, entryPrice, collateral, size) \in Nat
<1> DEFINE mmr == MaintenanceMargin(m, size, entryPrice)
           priceMove == ((collateral - mmr) * WAD) \div size
<1>1. mmr \in Nat
  BY MarginType
<1>2. CASE size = 0 \/ collateral <= mmr
  BY <1>2, UnitsAssumption DEF LiquidationPrice
<1>3. CASE size # 0 /\ ~(collateral <= mmr)
  <2> HIDE DEF mmr
  <2>1. (collateral - mmr) * WAD \in Nat
    BY <1>1, <1>3, UnitsAssumption
  <2>2. priceMove \in Nat
    BY <1>3, <2>1, DivTypes
  <2> HIDE DEF priceMove
  <2> QED  BY <1>1, <1>3, <2>2, UnitsAssumption DEF LiquidationPrice, mmr, priceMove
<1> QED  BY <1>1, <1>2, <1>3

(* The records the actions write are position records.                      *)
LEMMA MarkedType ==
    ASSUME NEW pos \in PositionData, NEW price \in Nat
    PROVE  Marked(pos, price) \in PositionData
<1>1. UnrealizedPnL(pos, price) \in Int
  BY PnLType
<1>2. PriceReached(pos, price) \in BOOLEAN
  BY DEF PriceReached
<1>3. (UnrealizedPnL(pos, price) > 0) \in BOOLEAN
  OBVIOUS
<1> QED  BY <1>1, <1>2, <1>3 DEF Marked, PositionData

LEMMA ResizedType ==
    ASSUME CoreTypeOK, NEW pos \in PositionData, pos.marketId \in Markets,
           NEW ds \in Int, NEW dc \in Int, WithinHoldings(pos, ds, dc)
    PROVE  Resized(pos, ds, dc) \in PositionData
<1>1. pos.size + ds \in Nat /\ pos.collateral + dc \in Nat
  BY UnitsAssumption DEF WithinHoldings
<1>2. LiquidationPrice(pos.marketId, pos.side, pos.entryPrice,
                       pos.collateral + dc, pos.size + ds) \in Nat
  BY <1>1, LiquidationPriceType DEF PositionData
<1> QED  BY <1>1, <1>2 DEF Resized, PositionData

LEMMA NewPositionType ==
    ASSUME CoreTypeOK, NEW t \in Traders, NEW m \in Markets, NEW side \in Sides,
           NEW size \in Nat, NEW collateral \in Nat, NEW price \in Nat, NEW leverage \in Nat
    PROVE  NewPosition(t, m, side, size, collateral, price, leverage) \in PositionData
<1>1. LiquidationPrice(m, side, price, collateral, size) \in Nat
  BY LiquidationPriceType
<1> QED  BY <1>1 DEF NewPosition, PositionData, Accounts

LEMMA ZeroPositionType == ZeroPosition \in PositionData
  BY DEF ZeroPosition, PositionData, Accounts, Sides

-----------------------------------------------------------------------------
(* The invariant everything else is proved under: types; an open position   *)
(* names a trader and a market; a record that is not open is all zeros; and *)
(* ids the counter has not reached are not open.                            *)
OpenNamed ==
    \A id \in OpenIds : positions[id].trader \in Traders /\ positions[id].marketId \in Markets

DeletedAreZero == \A id \in PositionIds : ~IsOpen(id) => positions[id] = ZeroPosition

FreshAreClosed == \A id \in PositionIds : id >= positionIdCounter => ~IsOpen(id)

LedgerInv == CoreTypeOK /\ OpenNamed /\ DeletedAreZero /\ FreshAreClosed

(* Seen from positions, lists and queues a call is one of four things: none *)
(* of their business, an opening, a mark (of a record that may have been    *)
(* resized first), or a close.                                              *)
Holding(pos, id) ==
    /\ pos \in PositionData /\ pos.opened
    /\ pos.trader = positions[id].trader /\ pos.marketId = positions[id].marketId
    /\ pos.side = positions[id].side /\ pos.inADLQueue = positions[id].inADLQueue

QuietStep ==
    UNCHANGED <<positions, positionIdCounter, userPositions, marketPositions, adlVars>>

MarkedStep(id, pos, price) ==
    /\ IsOpen(id) /\ Holding(pos, id)
    /\ MarkPosition(id, pos, price)
    /\ UNCHANGED <<positionIdCounter, userPositions, marketPositions>>

LEMMA StepKinds ==
    ASSUME LedgerInv, [Next]_vars
    PROVE  \/ QuietStep
           \/ OpenStep
           \/ \E id \in PositionIds, price \in Prices, pos \in PositionData :
                 MarkedStep(id, pos, price)
           \/ \E id \in PositionIds : CloseBody(id)
<1> USE DEF QuietStep
<1>1. CASE UNCHANGED vars
  BY <1>1 DEF vars, ledgerVars
<1>2. CASE AdminStep
  BY <1>2 DEF AdminStep, setMarketRiskConfig, setTradingEngine, setLiquidationEngine, ledgerVars
<1>3. CASE GuardianStep
  BY <1>3 DEF GuardianStep, ledgerVars
<1>4. ASSUME NEW id \in PositionIds, NEW ds \in SizeDeltas, NEW dc \in CollateralDeltas,
             NEW price \in Prices, modifyPosition(id, ds, dc, price)
      PROVE  \E pos \in PositionData : MarkedStep(id, pos, price)
  <2> DEFINE pos == Resized(positions[id], ds, dc)
  <2>1. IsOpen(id) /\ WithinHoldings(positions[id], ds, dc) /\ MarkPosition(id, pos, price)
        /\ UNCHANGED <<positionIdCounter, userPositions, marketPositions>>
    BY <1>4 DEF modifyPosition
  <2>2. positions[id] \in PositionData /\ positions[id].marketId \in Markets /\ CoreTypeOK
    BY <2>1 DEF LedgerInv, OpenNamed, OpenIds, CoreTypeOK, LedgerTypeOK
  <2>3. pos \in PositionData
    BY <2>1, <2>2, ResizedType, UnitsAssumption
  <2>4. /\ pos.opened = positions[id].opened /\ pos.trader = positions[id].trader
        /\ pos.marketId = positions[id].marketId /\ pos.side = positions[id].side
        /\ pos.inADLQueue = positions[id].inADLQueue
    BY <2>2, Zenon DEF Resized, PositionData
  <2> QED  BY <2>1, <2>3, <2>4 DEF MarkedStep, Holding, IsOpen
<1>5. ASSUME NEW id \in PositionIds, NEW price \in Prices, updatePositionState(id, price)
      PROVE  \E pos \in PositionData : MarkedStep(id, pos, price)
  <2>1. positions[id] \in PositionData
    BY DEF LedgerInv, CoreTypeOK, LedgerTypeOK
  <2> QED  BY <1>5, <2>1 DEF updatePositionState, MarkedStep, Holding, IsOpen
<1>6. CASE CloseStep \/ ForceCloseStep
  BY <1>6 DEF CloseStep, ForceCloseStep, closePosition, forceClosePosition
<1> QED  BY <1>1, <1>2, <1>3, <1>4, <1>5, <1>6 DEF Next, ModifyStep, MarkStep

(* What an opening, a mark and a close do to records, lists and queues.     *)
LEMMA OpenEffect ==
    ASSUME LedgerInv, OpenStep
    PROVE  \E t \in Traders, m \in Markets, pos \in PositionData :
              LET id == positionIdCounter
              IN  /\ id \in PositionIds /\ ~IsOpen(id)
                  /\ pos.opened /\ pos.trader = t /\ pos.marketId = m
                  /\ pos.inADLQueue = FALSE /\ pos.unrealizedPnL = 0
                  /\ positions' = [positions EXCEPT ![id] = pos]
                  /\ positionIdCounter' = id + 1
                  /\ userPositions' = [userPositions EXCEPT ![t] = Append(@, id)]
                  /\ marketPositions' = [marketPositions EXCEPT ![m] = Append(@, id)]
                  /\ RemovePositionFromQueue(m, id, pos.side)
<1>1. PICK t \in Traders, m \in Markets, side \in Sides, size \in OpenSizes,
           collateral \in OpenCollaterals, price \in OpenPrices, leverage \in Leverages :
              openPosition(t, m, side, size, collateral, price, leverage)
  BY DEF OpenStep
<1> DEFINE pos == NewPosition(t, m, side, size, collateral, price, leverage)
<1>2. pos \in PositionData
  BY NewPositionType, UnitsAssumption DEF LedgerInv
<1>3. /\ pos.opened /\ pos.trader = t /\ pos.marketId = m /\ pos.side = side
      /\ pos.inADLQueue = FALSE /\ pos.unrealizedPnL = 0
  BY Zenon DEF NewPosition
<1>4. positionIdCounter \in PositionIds /\ UpdateADLQueue(m, positionIdCounter, side, 0, leverage)
  BY <1>1 DEF openPosition
<1>5. RemovePositionFromQueue(m, positionIdCounter, side)
  BY <1>4 DEF UpdateADLQueue
<1>6. ~IsOpen(positionIdCounter)
  BY <1>4, IdsAssumption DEF LedgerInv, FreshAreClosed
<1>7. /\ positions' = [positions EXCEPT ![positionIdCounter] = pos]
      /\ positionIdCounter' = positionIdCounter + 1
      /\ userPositions' = [userPositions EXCEPT ![t] = Append(@, positionIdCounter)]
      /\ marketPositions' = [marketPositions EXCEPT ![m] = Append(@, positionIdCounter)]
  BY <1>1 DEF openPosition
<1>8. RemovePositionFromQueue(m, positionIdCounter, pos.side)
  BY <1>3, <1>5
<1> HIDE DEF pos
<1> QED  BY <1>2, <1>3, <1>4, <1>6, <1>7, <1>8

LEMMA CloseEffect ==
    ASSUME NEW id \in PositionIds, CloseBody(id)
    PROVE  LET pos == positions[id]
           IN  /\ IsOpen(id)
               /\ positions' = [positions EXCEPT ![id] = ZeroPosition]
               /\ userPositions' = [userPositions EXCEPT ![pos.trader] = WithoutUserPosition(@, id)]
               /\ openInterest' = [openInterest EXCEPT ![pos.marketId][pos.side] = @ - pos.size]
               /\ openInterest[pos.marketId][pos.side] >= pos.size
               /\ UNCHANGED <<positionIdCounter, marketPositions, adminVars>>
               /\ \/ pos.inADLQueue /\ RemovePositionFromQueue(pos.marketId, id, pos.side)
                  \/ ~pos.inADLQueue /\ UNCHANGED adlVars
<1>1. SetLedger(AfterClose(Ledger, id)) /\ OpenInterestCovers(Ledger, id) /\ IsOpen(id)
  BY DEF CloseBody
<1>2. /\ Ledger.positions = positions /\ Ledger.userPositions = userPositions
      /\ Ledger.openInterest = openInterest
  BY DEF Ledger
<1>3. /\ AfterClose(Ledger, id).positions = [positions EXCEPT ![id] = ZeroPosition]
      /\ AfterClose(Ledger, id).userPositions =
            [userPositions EXCEPT ![positions[id].trader] = WithoutUserPosition(@, id)]
      /\ AfterClose(Ledger, id).openInterest =
            [openInterest EXCEPT ![positions[id].marketId][positions[id].side] = @ - positions[id].size]
  BY <1>2 DEF AfterClose
<1>4. openInterest[positions[id].marketId][positions[id].side] >= positions[id].size
  BY <1>1, <1>2 DEF OpenInterestCovers
<1> QED  BY <1>1, <1>3, <1>4 DEF SetLedger, CloseBody, RemoveFromADLQueue

LEMMA MarkEffect ==
    ASSUME LedgerInv, NEW id \in PositionIds, NEW price \in Prices, NEW pos \in PositionData,
           MarkedStep(id, pos, price)
    PROVE  LET pnl == UnrealizedPnL(pos, price)
           IN  /\ pos.marketId \in Markets /\ pos.side \in Sides /\ pos.leverage \in Nat
               /\ pnl \in Int
               /\ Marked(pos, price) \in PositionData
               /\ positions' = [positions EXCEPT ![id] = Marked(pos, price)]
               /\ Marked(pos, price).opened /\ Marked(pos, price).trader = pos.trader
               /\ Marked(pos, price).marketId = pos.marketId /\ Marked(pos, price).side = pos.side
               /\ Marked(pos, price).inADLQueue <=> pnl > 0
               /\ Marked(pos, price).unrealizedPnL = pnl
               /\ \/ pnl > 0 /\ EnqueueCandidate(pos.marketId, id, pos.side, pnl, pos.leverage)
                  \/ pnl <= 0 /\ pos.inADLQueue /\ RemovePositionFromQueue(pos.marketId, id, pos.side)
                  \/ pnl <= 0 /\ ~pos.inADLQueue /\ UNCHANGED adlVars
<1>1. price \in Nat
  BY UnitsAssumption
<1>2. UnrealizedPnL(pos, price) \in Int /\ Marked(pos, price) \in PositionData
  BY <1>1, PnLType, MarkedType
<1>3. pos.marketId \in Markets /\ pos.side \in Sides /\ pos.leverage \in Nat
  BY DEF LedgerInv, OpenNamed, OpenIds, MarkedStep, Holding, PositionData
<1>4. /\ Marked(pos, price).opened = pos.opened /\ Marked(pos, price).trader = pos.trader
      /\ Marked(pos, price).marketId = pos.marketId /\ Marked(pos, price).side = pos.side
      /\ Marked(pos, price).unrealizedPnL = UnrealizedPnL(pos, price)
      /\ Marked(pos, price).inADLQueue = (UnrealizedPnL(pos, price) > 0)
  BY Zenon DEF Marked, PositionData
<1>5. \/ UnrealizedPnL(pos, price) > 0
         /\ EnqueueCandidate(pos.marketId, id, pos.side, UnrealizedPnL(pos, price), pos.leverage)
      \/ UnrealizedPnL(pos, price) <= 0 /\ pos.inADLQueue
         /\ RemovePositionFromQueue(pos.marketId, id, pos.side)
      \/ UnrealizedPnL(pos, price) <= 0 /\ ~pos.inADLQueue /\ UNCHANGED adlVars
  BY <1>2 DEF MarkedStep, MarkPosition, UpdateADLQueue, RemoveFromADLQueue
<1>6. positions' = [positions EXCEPT ![id] = Marked(pos, price)] /\ pos.opened
  BY DEF MarkedStep, MarkPosition, Holding
<1> QED  BY <1>2, <1>3, <1>4, <1>5, <1>6

-----------------------------------------------------------------------------
(* Swap-and-pop: at the only place of id, the last entry moves in.          *)
LEMMA WithoutUserPositionType ==
    ASSUME NEW list \in Seq(PositionIds), NEW id
    PROVE  WithoutUserPosition(list, id) \in Seq(PositionIds)
<1>1. CASE \A i \in DOMAIN list : list[i] # id
  BY <1>1 DEF WithoutUserPosition
<1>2. CASE ~\A i \in DOMAIN list : list[i] # id
  <2> DEFINE at == Min({ i \in DOMAIN list : list[i] = id })
             moved == [list EXCEPT ![at] = Last(list)]
  <2>1. Len(list) \in Nat /\ Len(list) >= 1 /\ Last(list) \in PositionIds
    BY <1>2 DEF Last
  <2> HIDE DEF at
  <2>2. moved \in [1..Len(list) -> PositionIds]
    <3>1. list \in [1..Len(list) -> PositionIds]
      OBVIOUS
    <3>2. moved = [i \in 1..Len(list) |-> IF i = at THEN Last(list) ELSE list[i]]
      BY <3>1
    <3> QED  BY <2>1, <3>1, <3>2
  <2> HIDE DEF moved
  <2>3. Front(moved) \in Seq(PositionIds)
    BY <2>1, <2>2 DEF Front
  <2> QED  BY <1>2, <2>3 DEF WithoutUserPosition, at, moved
<1> QED  BY <1>1, <1>2

(* Configuration, gates and open interest keep their types in every call.   *)
LEMMA AdminTypes ==
    ASSUME LedgerInv, [Next]_vars
    PROVE  /\ GatesTypeOK'
           /\ marketRiskConfigs' \in [Markets -> MarketRiskConfig]
           /\ tradingEngine' \in Engines \cup {NoAddress}
           /\ liquidationEngine' \in LiquidationEngines \cup {NoAddress}
<1> USE DEF LedgerInv, CoreTypeOK, LedgerTypeOK
<1>1. CASE UNCHANGED adminVars
  BY <1>1 DEF adminVars, gateVars, GatesTypeOK
<1>2. ASSUME NEW m \in Markets, NEW c \in RiskConfigs, setMarketRiskConfig(m, c)
      PROVE  /\ marketRiskConfigs' \in [Markets -> MarketRiskConfig]
             /\ UNCHANGED <<tradingEngine, liquidationEngine, gateVars>>
  <2>1. [maintenanceMarginBps |-> c.maintenanceMarginBps, initialMarginBps |-> c.initialMarginBps,
         maxLeverage |-> c.maxLeverage, isActive |-> TRUE] \in MarketRiskConfig
    BY ConfigsAssumption DEF MarketRiskConfig
  <2> QED  BY <1>2, <2>1 DEF setMarketRiskConfig
<1>3. CASE AdminStep
  BY <1>2, <1>3 DEF AdminStep, setTradingEngine, setLiquidationEngine, gateVars, GatesTypeOK
<1>4. CASE GuardianStep
  BY <1>4 DEF GuardianStep, GateStep, FlipProtocolPause, FlipModulePause, FlipGlobalHalt,
              FlipCircuit, GatesTypeOK, Toggle
<1>5. CASE OpenStep \/ ModifyStep \/ MarkStep \/ CloseStep \/ ForceCloseStep
  <2>1. OpenStep => UNCHANGED adminVars
    BY DEF OpenStep, openPosition
  <2>2. ModifyStep => UNCHANGED adminVars
    BY DEF ModifyStep, modifyPosition
  <2>3. MarkStep => UNCHANGED adminVars
    BY DEF MarkStep, updatePositionState
  <2>4. CloseStep \/ ForceCloseStep => UNCHANGED adminVars
    BY DEF CloseStep, closePosition, ForceCloseStep, forceClosePosition, CloseBody
  <2> QED  BY <1>1, <1>5, <2>1, <2>2, <2>3, <2>4
<1> QED  BY <1>1, <1>3, <1>4, <1>5 DEF Next, vars

LEMMA InterestType ==
    ASSUME LedgerInv, [Next]_vars
    PROVE  openInterest' \in [Markets -> [Sides -> Nat]]
<1> USE DEF LedgerInv, CoreTypeOK, LedgerTypeOK
<1>1. CASE UNCHANGED openInterest
  BY <1>1
<1>2. ASSUME NEW m \in Markets, NEW side \in Sides, NEW n \in Nat,
             openInterest' = [openInterest EXCEPT ![m][side] = n]
      PROVE  openInterest' \in [Markets -> [Sides -> Nat]]
  BY <1>2
<1>3. CASE OpenStep
  <2>1. PICK t \in Traders, m \in Markets, side \in Sides, size \in OpenSizes,
             collateral \in OpenCollaterals, price \in OpenPrices, leverage \in Leverages :
                openPosition(t, m, side, size, collateral, price, leverage)
    BY <1>3 DEF OpenStep
  <2>3. openInterest' = [openInterest EXCEPT ![m][side] = openInterest[m][side] + size]
    BY <2>1 DEF openPosition
  <2>2. openInterest[m][side] + size \in Nat
    BY UnitsAssumption
  <2> QED  BY <1>2, <2>2, <2>3
<1>4. CASE ModifyStep
  <2>1. PICK id \in PositionIds, ds \in SizeDeltas :
           /\ IsOpen(id)
           /\ openInterest[positions[id].marketId][positions[id].side] + ds >= 0
           /\ openInterest' = [openInterest EXCEPT ![positions[id].marketId][positions[id].side] =
                                  openInterest[positions[id].marketId][positions[id].side] + ds]
    BY <1>4 DEF ModifyStep, modifyPosition
  <2>2. positions[id].marketId \in Markets /\ positions[id].side \in Sides
    BY <2>1 DEF OpenNamed, OpenIds, PositionData
  <2>3. openInterest[positions[id].marketId][positions[id].side] + ds \in Nat
    BY <2>1, <2>2, UnitsAssumption
  <2> QED  BY <1>2, <2>1, <2>2, <2>3
<1>5. ASSUME NEW id \in PositionIds, CloseBody(id)
      PROVE  openInterest' \in [Markets -> [Sides -> Nat]]
  <2> DEFINE m == positions[id].marketId
             side == positions[id].side
  <2>1. /\ openInterest[m][side] >= positions[id].size /\ IsOpen(id)
        /\ openInterest' = [openInterest EXCEPT ![m][side] = @ - positions[id].size]
    BY <1>5, CloseEffect
  <2>2. m \in Markets /\ side \in Sides /\ positions[id].size \in Nat
    BY <2>1 DEF OpenNamed, OpenIds, PositionData
  <2>3. openInterest[m][side] - positions[id].size \in Nat
    BY <2>1, <2>2
  <2> HIDE DEF m, side
  <2> QED  BY <1>2, <2>1, <2>2, <2>3
<1>6. CASE CloseStep \/ ForceCloseStep
  BY <1>5, <1>6 DEF CloseStep, ForceCloseStep, closePosition, forceClosePosition
<1>7. CASE AdminStep \/ GuardianStep \/ MarkStep \/ UNCHANGED vars
  BY <1>1, <1>7 DEF AdminStep, setMarketRiskConfig, setTradingEngine, setLiquidationEngine,
     GuardianStep, MarkStep, updatePositionState, vars, ledgerVars
<1> QED  BY <1>3, <1>4, <1>6, <1>7 DEF Next

-----------------------------------------------------------------------------
(* The invariant is inductive: one lemma for each kind of step.             *)
RecordsInv ==
    /\ positions \in [PositionIds -> PositionData]
    /\ positionIdCounter \in Nat
    /\ userPositions \in [Accounts -> Seq(PositionIds)]
    /\ marketPositions \in [Markets -> Seq(PositionIds)]
    /\ QueueTypeOK
    /\ OpenNamed /\ DeletedAreZero /\ FreshAreClosed

LEMMA OpenKeepsRecords == LedgerInv /\ OpenStep => RecordsInv'
<1> SUFFICES ASSUME LedgerInv, OpenStep PROVE RecordsInv'
  OBVIOUS
<1> USE DEF LedgerInv, CoreTypeOK, LedgerTypeOK
<1> DEFINE id == positionIdCounter
<1>1. PICK t \in Traders, m \in Markets, pos \in PositionData :
         /\ id \in PositionIds /\ ~IsOpen(id)
         /\ pos.opened /\ pos.trader = t /\ pos.marketId = m
         /\ positions' = [positions EXCEPT ![id] = pos]
         /\ positionIdCounter' = id + 1
         /\ userPositions' = [userPositions EXCEPT ![t] = Append(@, id)]
         /\ marketPositions' = [marketPositions EXCEPT ![m] = Append(@, id)]
         /\ RemovePositionFromQueue(m, id, pos.side)
  BY OpenEffect
<1>2. positions' \in [PositionIds -> PositionData] /\ positionIdCounter' \in Nat
  BY <1>1
<1>3. userPositions' \in [Accounts -> Seq(PositionIds)]
  BY <1>1 DEF Accounts
<1>4. marketPositions' \in [Markets -> Seq(PositionIds)]
  BY <1>1
<1>5. QueueTypeOK'
  <2>1. pos.side \in Sides
    BY DEF PositionData
  <2> QED  BY <1>1, <2>1, RemoveEffect
<1>6. OpenNamed'
  BY <1>1, <1>2 DEF OpenNamed, OpenIds, IsOpen
<1>7. DeletedAreZero'
  BY <1>1, <1>2 DEF DeletedAreZero, IsOpen
<1>8. FreshAreClosed'
  BY <1>1, <1>2, IdsAssumption DEF FreshAreClosed, IsOpen
<1> QED  BY <1>2, <1>3, <1>4, <1>5, <1>6, <1>7, <1>8 DEF RecordsInv

LEMMA MarkKeepsRecords ==
    ASSUME LedgerInv, NEW id \in PositionIds, NEW price \in Prices, NEW pos \in PositionData,
           MarkedStep(id, pos, price)
    PROVE  RecordsInv'
<1> USE DEF LedgerInv, CoreTypeOK, LedgerTypeOK
<1> DEFINE pnl == UnrealizedPnL(pos, price)
           marked == Marked(pos, price)
<1>1. /\ pos.marketId \in Markets /\ pos.side \in Sides /\ pos.leverage \in Nat /\ pnl \in Int
      /\ marked \in PositionData
      /\ positions' = [positions EXCEPT ![id] = marked]
      /\ marked.opened /\ marked.trader = pos.trader /\ marked.marketId = pos.marketId
      /\ \/ pnl > 0 /\ EnqueueCandidate(pos.marketId, id, pos.side, pnl, pos.leverage)
         \/ pnl <= 0 /\ pos.inADLQueue /\ RemovePositionFromQueue(pos.marketId, id, pos.side)
         \/ pnl <= 0 /\ ~pos.inADLQueue /\ UNCHANGED adlVars
  BY MarkEffect
<1>2. /\ IsOpen(id) /\ pos.trader = positions[id].trader
      /\ UNCHANGED <<positionIdCounter, userPositions, marketPositions>>
  BY DEF MarkedStep, Holding
<1> HIDE DEF pnl, marked
<1>3. QueueTypeOK'
  <2>1. CASE pnl > 0 /\ EnqueueCandidate(pos.marketId, id, pos.side, pnl, pos.leverage)
    <3> HIDE DEF LedgerInv, CoreTypeOK, LedgerTypeOK
    <3>1. QueueTypeOK /\ pos.marketId \in Markets /\ pos.side \in Sides
          /\ pos.leverage \in Nat /\ pnl \in Int
      BY <1>1 DEF LedgerInv, CoreTypeOK
    <3>2. pnl \in Nat
      BY <2>1, <3>1
    <3> HIDE DEF QueueTypeOK
    <3> QED  BY <2>1, <3>1, <3>2, EnqueueEffect
  <2>2. CASE RemovePositionFromQueue(pos.marketId, id, pos.side)
    BY <1>1, <2>2, RemoveEffect
  <2>3. CASE UNCHANGED adlVars
    BY <2>3 DEF adlVars, QueueTypeOK
  <2> QED  BY <1>1, <2>1, <2>2, <2>3
<1>4. positions' \in [PositionIds -> PositionData]
  BY <1>1
<1>5. \A i \in PositionIds : IsOpen(i)' <=> IsOpen(i)
  BY <1>1, <1>2 DEF IsOpen
<1>6. OpenNamed'
  BY <1>1, <1>2 DEF OpenNamed, OpenIds, IsOpen
<1>7. DeletedAreZero' /\ FreshAreClosed'
  BY <1>1, <1>2, <1>5 DEF DeletedAreZero, FreshAreClosed
<1> QED  BY <1>2, <1>3, <1>4, <1>6, <1>7 DEF RecordsInv

LEMMA CloseKeepsRecords ==
    ASSUME LedgerInv, NEW id \in PositionIds, CloseBody(id)
    PROVE  RecordsInv'
<1> USE DEF LedgerInv, CoreTypeOK, LedgerTypeOK
<1> DEFINE pos == positions[id]
<1>1. /\ IsOpen(id)
      /\ positions' = [positions EXCEPT ![id] = ZeroPosition]
      /\ userPositions' = [userPositions EXCEPT ![pos.trader] = WithoutUserPosition(@, id)]
      /\ UNCHANGED <<positionIdCounter, marketPositions>>
      /\ RemovePositionFromQueue(pos.marketId, id, pos.side) \/ UNCHANGED adlVars
  BY CloseEffect
<1>2. pos.marketId \in Markets /\ pos.side \in Sides /\ pos.trader \in Traders
  BY <1>1 DEF OpenNamed, OpenIds, PositionData
<1>3. QueueTypeOK'
  <2>1. CASE RemovePositionFromQueue(pos.marketId, id, pos.side)
    BY <1>2, <2>1, RemoveEffect
  <2>2. CASE UNCHANGED adlVars
    BY <2>2 DEF adlVars, QueueTypeOK
  <2> QED  BY <1>1, <2>1, <2>2
<1>4. positions' \in [PositionIds -> PositionData]
  BY <1>1, ZeroPositionType
<1>5. WithoutUserPosition(userPositions[pos.trader], id) \in Seq(PositionIds)
  BY <1>2, WithoutUserPositionType DEF Accounts
<1>6. userPositions' \in [Accounts -> Seq(PositionIds)]
  BY <1>1, <1>2, <1>5
<1>7. ~ZeroPosition.opened
  BY DEF ZeroPosition
<1>8. OpenNamed' /\ DeletedAreZero' /\ FreshAreClosed'
  BY <1>1, <1>7 DEF OpenNamed, OpenIds, DeletedAreZero, FreshAreClosed, IsOpen
<1> QED  BY <1>1, <1>3, <1>4, <1>6, <1>8 DEF RecordsInv

LEMMA LedgerInvInit == Init => LedgerInv
<1> SUFFICES ASSUME Init PROVE LedgerInv
  OBVIOUS
<1>1. LedgerTypeOK
  BY ZeroPositionType DEF Init, LedgerTypeOK, MarketRiskConfig, UnconfiguredMarket
<1>4. << >> \in Seq(Candidates)
  OBVIOUS
<1>2. QueueTypeOK /\ GatesTypeOK
  BY <1>4 DEF Init, QueueInit, GatesInit, QueueTypeOK, GatesTypeOK
<1>3. OpenNamed /\ DeletedAreZero /\ FreshAreClosed
  BY DEF Init, OpenNamed, OpenIds, IsOpen, DeletedAreZero, FreshAreClosed, ZeroPosition
<1> QED  BY <1>1, <1>2, <1>3 DEF LedgerInv, CoreTypeOK

LEMMA LedgerInvInductive == LedgerInv /\ [Next]_vars => LedgerInv'
<1> SUFFICES ASSUME LedgerInv, [Next]_vars PROVE LedgerInv'
  OBVIOUS
<1>1. RecordsInv'
  <2>1. CASE QuietStep
    BY <2>1 DEF QuietStep, adlVars, LedgerInv, CoreTypeOK, LedgerTypeOK, QueueTypeOK, RecordsInv,
       OpenNamed, OpenIds, IsOpen, DeletedAreZero, FreshAreClosed
  <2>2. CASE OpenStep
    BY <2>2, OpenKeepsRecords
  <2>3. CASE \E id \in PositionIds, price \in Prices, pos \in PositionData : MarkedStep(id, pos, price)
    BY <2>3, MarkKeepsRecords
  <2>4. CASE \E id \in PositionIds : CloseBody(id)
    BY <2>4, CloseKeepsRecords
  <2> QED  BY <2>1, <2>2, <2>3, <2>4, StepKinds
<1>2. /\ GatesTypeOK'
      /\ marketRiskConfigs' \in [Markets -> MarketRiskConfig]
      /\ tradingEngine' \in Engines \cup {NoAddress}
      /\ liquidationEngine' \in LiquidationEngines \cup {NoAddress}
  BY AdminTypes
<1>3. openInterest' \in [Markets -> [Sides -> Nat]]
  BY InterestType
<1> QED  BY <1>1, <1>2, <1>3 DEF RecordsInv, LedgerInv, CoreTypeOK, LedgerTypeOK

LEMMA LedgerInvHolds == Spec => []LedgerInv
<1> QED  BY LedgerInvInit, LedgerInvInductive, PTL DEF Spec

(* Type correctness of the ledger, the queues and the gates: whatever the   *)
(* sequence of calls, open interest, sizes and collateral never go below    *)
(* zero and every list and queue holds ids the counter can hand out.        *)
THEOREM CoreTypesCorrect == Spec => []CoreTypeOK
<1>1. LedgerInv => CoreTypeOK
  BY DEF LedgerInv
<1> QED  BY <1>1, LedgerInvHolds, PTL

-----------------------------------------------------------------------------
(* Flags, indices and queue lengths.                                        *)
CandidateInv == LedgerInv /\ FlagMatchesIndex /\ QueueCoversFlags

(* Counting candidates: three ways a call can change a side's flagged       *)
(* positions and its queue together and leave the queue long enough.        *)
LEMMA StillCovered ==
    ASSUME NEW S, NEW T, NEW id, NEW before \in Nat, NEW after \in Nat,
           S \in SUBSET PositionIds,
           Cardinality(S) <= before,
           \/ T \subseteq S /\ after >= before
           \/ T = S \cup {id} /\ after >= before + 1
           \/ T = S \ {id} /\ id \in S /\ after = before - 1
    PROVE  Cardinality(T) <= after
<1>1. IsFiniteSet(S) /\ Cardinality(S) \in Nat
  BY FS_Subset, FS_CardinalityType, IdsAssumption
<1>2. CASE T \subseteq S /\ after >= before
  <2>1. Cardinality(T) <= Cardinality(S) /\ Cardinality(T) \in Nat
    BY <1>1, <1>2, FS_Subset, FS_CardinalityType
  <2> QED  BY <1>1, <1>2, <2>1
<1>3. CASE T = S \cup {id} /\ after >= before + 1
  <2>1. Cardinality(T) <= Cardinality(S) + 1 /\ Cardinality(T) \in Nat
    <3>1. Cardinality(S \cup {id}) = IF id \in S THEN Cardinality(S) ELSE Cardinality(S) + 1
      BY <1>1, FS_AddElement
    <3> QED  BY <1>1, <1>3, <3>1
  <2> QED  BY <1>1, <1>3, <2>1
<1>4. CASE T = S \ {id} /\ id \in S /\ after = before - 1
  <2>1. Cardinality(T) = Cardinality(S) - 1
    BY <1>1, <1>4, FS_RemoveElement
  <2> QED  BY <1>1, <1>4, <2>1
<1> QED  BY <1>2, <1>3, <1>4

LEMMA FlaggedType ==
    ASSUME NEW m, NEW side
    PROVE  FlaggedOn(m, side) \in SUBSET PositionIds
  BY DEF FlaggedOn, OpenOn, OpenIds

(* Every call that writes one record and one queue keeps the two in step.   *)
LEMMA CandidatesKept ==
    ASSUME CandidateInv, QueueTypeOK',
           NEW id \in PositionIds, NEW pos \in PositionData,
           NEW m \in Markets, NEW side \in Sides,
           positions' = [positions EXCEPT ![id] = pos],
           pos.opened => pos.marketId = m /\ pos.side = side,
           IsOpen(id) => positions[id].marketId = m /\ positions[id].side = side,
           pos.inADLQueue => pos.opened,
           OtherQueuesKept(m, side),
           \A other \in PositionIds \ {id} : queueIndices'[other] = queueIndices[other],
           pos.inADLQueue <=> queueIndices'[id] # 0,
           \/ /\ pos.inADLQueue
              /\ Len(adlQueues'[m][side]) >= Len(adlQueues[m][side])
              /\ queueIndices[id] = 0 => Len(adlQueues'[m][side]) >= Len(adlQueues[m][side]) + 1
           \/ /\ ~pos.inADLQueue
              /\ queueIndices[id] # 0 => Len(adlQueues'[m][side]) = Len(adlQueues[m][side]) - 1
              /\ queueIndices[id] = 0 => adlQueues' = adlQueues
    PROVE  FlagMatchesIndex' /\ QueueCoversFlags'
<1>1. positions'[id] = pos /\ \A other \in PositionIds \ {id} : positions'[other] = positions[other]
  BY DEF CandidateInv, LedgerInv, CoreTypeOK, LedgerTypeOK
<1>2. FlagMatchesIndex'
  BY <1>1 DEF CandidateInv, FlagMatchesIndex
<1>3. ~IsOpen(id) => ~positions[id].inADLQueue
  BY DEF CandidateInv, LedgerInv, DeletedAreZero, ZeroPosition
<1>4. positions[id].inADLQueue <=> queueIndices[id] # 0
  BY DEF CandidateInv, FlagMatchesIndex
<1>5. ASSUME NEW n \in Markets, NEW s \in Sides
      PROVE  Cardinality(FlaggedOn(n, s)') <= Len(adlQueues'[n][s])
  <2> DEFINE S == FlaggedOn(n, s)
             T == FlaggedOn(n, s)'
             before == Len(adlQueues[n][s])
             after == Len(adlQueues'[n][s])
  <2>1. Cardinality(S) <= before /\ before \in Nat /\ after \in Nat
    <3>1. adlQueues[n][s] \in Seq(Candidates) /\ adlQueues'[n][s] \in Seq(Candidates)
      BY DEF CandidateInv, LedgerInv, CoreTypeOK, QueueTypeOK
    <3> QED  BY <3>1 DEF CandidateInv, QueueCoversFlags
  <2>2. S \in SUBSET PositionIds
    BY FlaggedType
  <2>3. \/ T \subseteq S /\ after >= before
        \/ T = S \cup {id} /\ after >= before + 1
        \/ T = S \ {id} /\ id \in S /\ after = before - 1
    <3>1. CASE n # m \/ s # side
      <4>1. adlQueues'[n][s] = adlQueues[n][s]
        BY <3>1 DEF OtherQueuesKept
      <4>2. T \subseteq S
        BY <1>1, <3>1 DEF FlaggedOn, OpenOn, OpenIds, IsOpen
      <4> QED  BY <2>1, <4>1, <4>2
    <3>2. CASE n = m /\ s = side
      <4>1. id \in S <=> queueIndices[id] # 0
        BY <1>3, <1>4, <3>2 DEF FlaggedOn, OpenOn, OpenIds
      <4>2. CASE pos.inADLQueue
        <5>1. T = S \cup {id}
          BY <1>1, <3>2, <4>2 DEF FlaggedOn, OpenOn, OpenIds, IsOpen
        <5> HIDE DEF S, T
        <5> QED  BY <2>1, <3>2, <4>1, <4>2, <5>1
      <4>3. CASE ~pos.inADLQueue
        <5>1. T = S \ {id}
          BY <1>1, <3>2, <4>3 DEF FlaggedOn, OpenOn, OpenIds, IsOpen
        <5> HIDE DEF S, T
        <5> QED  BY <2>1, <3>2, <4>1, <4>3, <5>1
      <4> QED  BY <4>2, <4>3
    <3> QED  BY <3>1, <3>2
  <2> HIDE DEF S, T, before, after
  <2>4. Cardinality(T) <= after
    BY <2>1, <2>2, <2>3, StillCovered
  <2> QED  BY <2>4 DEF T, after
<1> QED  BY <1>2, <1>5 DEF QueueCoversFlags

LEMMA OpenKeepsCandidates ==
    ASSUME CandidateInv, OpenStep, QueueTypeOK'
    PROVE  FlagMatchesIndex' /\ QueueCoversFlags'
<1> DEFINE id == positionIdCounter
<1>1. LedgerInv /\ QueueTypeOK
  BY DEF CandidateInv, LedgerInv, CoreTypeOK
<1>2. PICK t \in Traders, m \in Markets, pos \in PositionData :
         /\ id \in PositionIds /\ ~IsOpen(id)
         /\ pos.opened /\ pos.marketId = m /\ pos.inADLQueue = FALSE
         /\ positions' = [positions EXCEPT ![id] = pos]
         /\ RemovePositionFromQueue(m, id, pos.side)
  BY <1>1, OpenEffect
<1>3. pos.side \in Sides
  BY DEF PositionData
<1>4. /\ queueIndices' = [queueIndices EXCEPT ![id] = 0]
      /\ OtherQueuesKept(m, pos.side)
      /\ queueIndices[id] # 0 => Len(adlQueues'[m][pos.side]) = Len(adlQueues[m][pos.side]) - 1
      /\ queueIndices[id] = 0 => adlQueues' = adlQueues
  BY <1>1, <1>2, <1>3, RemoveEffect
<1>5. queueIndices'[id] = 0 /\ \A other \in PositionIds \ {id} : queueIndices'[other] = queueIndices[other]
  BY <1>1, <1>2, <1>4 DEF QueueTypeOK
<1> HIDE DEF id
<1> QED  BY <1>2, <1>3, <1>4, <1>5, CandidatesKept

LEMMA CloseKeepsCandidates ==
    ASSUME CandidateInv, NEW id \in PositionIds, CloseBody(id), QueueTypeOK'
    PROVE  FlagMatchesIndex' /\ QueueCoversFlags'
<1> DEFINE pos == positions[id]
<1>1. LedgerInv /\ QueueTypeOK
  BY DEF CandidateInv, LedgerInv, CoreTypeOK
<1>2. /\ IsOpen(id)
      /\ positions' = [positions EXCEPT ![id] = ZeroPosition]
      /\ \/ pos.inADLQueue /\ RemovePositionFromQueue(pos.marketId, id, pos.side)
         \/ ~pos.inADLQueue /\ UNCHANGED adlVars
  BY CloseEffect
<1>3. pos.marketId \in Markets /\ pos.side \in Sides
  BY <1>1, <1>2 DEF OpenNamed, OpenIds, PositionData, LedgerInv, CoreTypeOK, LedgerTypeOK
<1>4. (pos.inADLQueue <=> queueIndices[id] # 0) /\ ~ZeroPosition.opened /\ ~ZeroPosition.inADLQueue
  BY DEF CandidateInv, FlagMatchesIndex, ZeroPosition
<1>5. /\ OtherQueuesKept(pos.marketId, pos.side)
      /\ \A other \in PositionIds \ {id} : queueIndices'[other] = queueIndices[other]
      /\ queueIndices'[id] = 0
      /\ queueIndices[id] # 0 =>
            Len(adlQueues'[pos.marketId][pos.side]) = Len(adlQueues[pos.marketId][pos.side]) - 1
      /\ queueIndices[id] = 0 => adlQueues' = adlQueues
  <2>1. CASE RemovePositionFromQueue(pos.marketId, id, pos.side)
    <3>1. /\ queueIndices' = [queueIndices EXCEPT ![id] = 0]
          /\ OtherQueuesKept(pos.marketId, pos.side)
          /\ queueIndices[id] # 0 =>
                Len(adlQueues'[pos.marketId][pos.side]) = Len(adlQueues[pos.marketId][pos.side]) - 1
          /\ queueIndices[id] = 0 => adlQueues' = adlQueues
      BY <1>1, <1>3, <2>1, RemoveEffect
    <3> QED  BY <1>1, <3>1 DEF QueueTypeOK
  <2>2. CASE ~pos.inADLQueue /\ UNCHANGED adlVars
    BY <1>4, <2>2 DEF adlVars, OtherQueuesKept
  <2> QED  BY <1>2, <2>1, <2>2
<1> HIDE DEF pos
<1> QED  BY <1>2, <1>3, <1>4, <1>5, ZeroPositionType, CandidatesKept DEF pos

LEMMA MarkKeepsCandidates ==
    ASSUME CandidateInv, NEW id \in PositionIds, NEW price \in Prices, NEW pos \in PositionData,
           MarkedStep(id, pos, price), QueueTypeOK'
    PROVE  FlagMatchesIndex' /\ QueueCoversFlags'
<1> DEFINE pnl == UnrealizedPnL(pos, price)
           marked == Marked(pos, price)
           m == pos.marketId
           side == pos.side
<1>1. LedgerInv /\ QueueTypeOK
  BY DEF CandidateInv, LedgerInv, CoreTypeOK
<1>2. /\ m \in Markets /\ side \in Sides /\ pos.leverage \in Nat /\ pnl \in Int
      /\ marked \in PositionData
      /\ positions' = [positions EXCEPT ![id] = marked]
      /\ marked.opened /\ marked.marketId = m /\ marked.side = side
      /\ marked.inADLQueue <=> pnl > 0
      /\ \/ pnl > 0 /\ EnqueueCandidate(m, id, side, pnl, pos.leverage)
         \/ pnl <= 0 /\ pos.inADLQueue /\ RemovePositionFromQueue(m, id, side)
         \/ pnl <= 0 /\ ~pos.inADLQueue /\ UNCHANGED adlVars
  BY <1>1, MarkEffect
<1>3. positions[id].marketId = m /\ positions[id].side = side
  BY DEF MarkedStep, Holding
<1>4. pos.inADLQueue <=> queueIndices[id] # 0
  BY DEF CandidateInv, FlagMatchesIndex, MarkedStep, Holding
<1> HIDE DEF pnl, marked, m, side
<1>5. CASE pnl > 0 /\ EnqueueCandidate(m, id, side, pnl, pos.leverage)
  <2>1. /\ OtherQueuesKept(m, side)
        /\ queueIndices'[id] # 0
        /\ \A other \in PositionIds \ {id} : queueIndices'[other] = queueIndices[other]
        /\ Len(adlQueues'[m][side]) >= Len(adlQueues[m][side])
        /\ queueIndices[id] = 0 => Len(adlQueues'[m][side]) = Len(adlQueues[m][side]) + 1
    <3>1. pnl \in Nat
      BY <1>2, <1>5
    <3> QED  BY <1>1, <1>2, <1>5, <3>1, EnqueueEffect
  <2>2. Len(adlQueues[m][side]) \in Nat
    BY <1>1, <1>2 DEF QueueTypeOK
  <2>3. marked.inADLQueue
    BY <1>2, <1>5
  <2>4. queueIndices[id] = 0 => Len(adlQueues'[m][side]) >= Len(adlQueues[m][side]) + 1
    BY <2>1, <2>2
  <2> QED  BY <1>2, <1>3, <2>1, <2>3, <2>4, CandidatesKept
<1>6. CASE pnl <= 0 /\ pos.inADLQueue /\ RemovePositionFromQueue(m, id, side)
  <2>1. /\ queueIndices' = [queueIndices EXCEPT ![id] = 0]
        /\ OtherQueuesKept(m, side)
        /\ queueIndices[id] # 0 => Len(adlQueues'[m][side]) = Len(adlQueues[m][side]) - 1
        /\ queueIndices[id] = 0 => adlQueues' = adlQueues
    BY <1>1, <1>2, <1>6, RemoveEffect
  <2>2. queueIndices'[id] = 0 /\ \A other \in PositionIds \ {id} : queueIndices'[other] = queueIndices[other]
    BY <1>1, <2>1 DEF QueueTypeOK
  <2>3. ~marked.inADLQueue
    BY <1>2, <1>6
  <2> QED  BY <1>2, <1>3, <2>1, <2>2, <2>3, CandidatesKept
<1>7. CASE pnl <= 0 /\ ~pos.inADLQueue /\ UNCHANGED adlVars
  <2>1. /\ queueIndices' = queueIndices /\ adlQueues' = adlQueues /\ queueIndices[id] = 0
        /\ OtherQueuesKept(m, side)
    BY <1>4, <1>7 DEF adlVars, OtherQueuesKept
  <2>2. ~marked.inADLQueue
    BY <1>2, <1>7
  <2> QED  BY <1>2, <1>3, <2>1, <2>2, CandidatesKept
<1> QED  BY <1>2, <1>5, <1>6, <1>7

LEMMA CandidateInvInductive == CandidateInv /\ [Next]_vars => CandidateInv'
<1> SUFFICES ASSUME CandidateInv, [Next]_vars PROVE CandidateInv'
  OBVIOUS
<1>1. LedgerInv /\ LedgerInv' /\ QueueTypeOK'
  BY LedgerInvInductive DEF CandidateInv, LedgerInv, CoreTypeOK
<1>2. CASE QuietStep
  BY <1>1, <1>2 DEF QuietStep, CandidateInv, adlVars, FlagMatchesIndex, QueueCoversFlags, FlaggedOn,
     OpenOn, OpenIds, IsOpen
<1>3. CASE OpenStep
  BY <1>1, <1>3, OpenKeepsCandidates DEF CandidateInv
<1>4. CASE \E id \in PositionIds, price \in Prices, pos \in PositionData : MarkedStep(id, pos, price)
  BY <1>1, <1>4, MarkKeepsCandidates DEF CandidateInv
<1>5. CASE \E id \in PositionIds : CloseBody(id)
  BY <1>1, <1>5, CloseKeepsCandidates DEF CandidateInv
<1> QED  BY <1>1, <1>2, <1>3, <1>4, <1>5, StepKinds

LEMMA CandidateInvInit == Init => CandidateInv
<1> SUFFICES ASSUME Init PROVE CandidateInv
  OBVIOUS
<1>1. FlagMatchesIndex
  BY DEF Init, QueueInit, FlagMatchesIndex, ZeroPosition
<1>2. ASSUME NEW m \in Markets, NEW side \in Sides
      PROVE  Cardinality(FlaggedOn(m, side)) <= Len(adlQueues[m][side])
  <2>1. FlaggedOn(m, side) = {} /\ adlQueues[m][side] = << >>
    BY DEF Init, QueueInit, FlaggedOn, OpenOn, OpenIds, IsOpen, ZeroPosition
  <2> QED  BY <2>1, FS_EmptySet
<1> QED  BY <1>1, <1>2, LedgerInvInit DEF CandidateInv, QueueCoversFlags

LEMMA CandidateInvHolds == Spec => []CandidateInv
<1> QED  BY CandidateInvInit, CandidateInvInductive, PTL DEF Spec

(* The contracts agree on the candidates: PositionManager flags a position  *)
(* exactly while the ADL engine keeps an index for it.                      *)
THEOREM ContractsAgree == Spec => []FlagMatchesIndex
<1>1. CandidateInv => FlagMatchesIndex
  BY DEF CandidateInv
<1> QED  BY <1>1, CandidateInvHolds, PTL

(* A queue never holds fewer entries than its side has flagged positions.   *)
THEOREM QueuesLongEnough == Spec => []QueueCoversFlags
<1>1. CandidateInv => QueueCoversFlags
  BY DEF CandidateInv
<1> QED  BY <1>1, CandidateInvHolds, PTL

(* The pop in _removePositionFromQueue meets an entry: whenever a flagged   *)
(* position is closed or marked at a loss, its queue is not empty.          *)
QueueReadyToPop ==
    \A id \in OpenIds :
        positions[id].inADLQueue => adlQueues[positions[id].marketId][positions[id].side] # << >>

THEOREM RemovalsNeverRevert == Spec => []QueueReadyToPop
<1>1. ASSUME CandidateInv, NEW id \in OpenIds, positions[id].inADLQueue
      PROVE  adlQueues[positions[id].marketId][positions[id].side] # << >>
  <2> DEFINE m == positions[id].marketId
             side == positions[id].side
             S == FlaggedOn(m, side)
  <2>1. /\ id \in PositionIds /\ m \in Markets /\ side \in Sides
        /\ QueueTypeOK /\ QueueCoversFlags
    BY <1>1 DEF CandidateInv, LedgerInv, CoreTypeOK, LedgerTypeOK, OpenNamed, OpenIds, PositionData
  <2>2. id \in S
    BY <1>1 DEF FlaggedOn, OpenOn
  <2>3. S \in SUBSET PositionIds
    BY FlaggedType
  <2> HIDE DEF S, m, side
  <2>4. IsFiniteSet(S) /\ Cardinality(S) \in Nat /\ Cardinality(S) # 0
    BY <2>2, <2>3, IdsAssumption, FS_Subset, FS_CardinalityType, FS_EmptySet
  <2>5. Cardinality(S) <= Len(adlQueues[m][side])
    BY <2>1 DEF QueueCoversFlags, S
  <2>6. adlQueues[m][side] # << >>
    BY <2>4, <2>5
  <2> QED  BY <2>6 DEF m, side
<1>2. CandidateInv => QueueReadyToPop
  BY <1>1 DEF QueueReadyToPop
<1> QED  BY <1>2, CandidateInvHolds, PTL

-----------------------------------------------------------------------------
(* The flag follows the stored profit.                                      *)
ProfitInv == LedgerInv /\ FlagMeansProfit

LEMMA ProfitInvInductive == ProfitInv /\ [Next]_vars => ProfitInv'
<1> SUFFICES ASSUME ProfitInv, [Next]_vars PROVE ProfitInv'
  OBVIOUS
<1>1. LedgerInv /\ LedgerInv' /\ positions \in [PositionIds -> PositionData]
  BY LedgerInvInductive DEF ProfitInv, LedgerInv, CoreTypeOK, LedgerTypeOK
<1>2. ASSUME NEW id \in PositionIds, NEW pos \in PositionData,
             positions' = [positions EXCEPT ![id] = pos],
             pos.opened => (pos.inADLQueue <=> (pos.unrealizedPnL > 0))
      PROVE  FlagMeansProfit'
  <2>1. ASSUME NEW other \in PositionIds, positions'[other].opened
        PROVE  positions'[other].inADLQueue <=> (positions'[other].unrealizedPnL > 0)
    <3>1. CASE other = id
      BY <1>1, <1>2, <2>1, <3>1
    <3>2. CASE other # id
      <4>1. positions'[other] = positions[other]
        BY <1>1, <1>2, <3>2
      <4> QED  BY <2>1, <4>1 DEF ProfitInv, FlagMeansProfit, OpenIds, IsOpen
    <3> QED  BY <3>1, <3>2
  <2> QED  BY <2>1 DEF FlagMeansProfit, OpenIds, IsOpen
<1>3. FlagMeansProfit'
  <2>1. CASE QuietStep
    <3>1. positions' = positions
      BY <2>1 DEF QuietStep
    <3> QED  BY <3>1 DEF ProfitInv, FlagMeansProfit, OpenIds, IsOpen
  <2>2. CASE OpenStep
    <3>1. PICK pos \in PositionData :
             /\ positionIdCounter \in PositionIds
             /\ pos.inADLQueue = FALSE /\ pos.unrealizedPnL = 0
             /\ positions' = [positions EXCEPT ![positionIdCounter] = pos]
      BY <1>1, <2>2, OpenEffect
    <3>2. ~pos.inADLQueue
      BY <3>1, Zenon
    <3>3. ~(pos.unrealizedPnL > 0)
      BY <3>1
    <3> QED  BY <1>2, <3>1, <3>2, <3>3
  <2>3. CASE \E id \in PositionIds, price \in Prices, pos \in PositionData : MarkedStep(id, pos, price)
    <3>1. PICK id \in PositionIds, price \in Prices, pos \in PositionData : MarkedStep(id, pos, price)
      BY <2>3
    <3>2. /\ positions' = [positions EXCEPT ![id] = Marked(pos, price)]
          /\ Marked(pos, price).inADLQueue <=> UnrealizedPnL(pos, price) > 0
          /\ Marked(pos, price).unrealizedPnL = UnrealizedPnL(pos, price)
          /\ Marked(pos, price) \in PositionData
      BY <1>1, <3>1, MarkEffect
    <3> QED  BY <1>2, <3>2
  <2>4. CASE \E id \in PositionIds : CloseBody(id)
    <3>1. PICK id \in PositionIds : positions' = [positions EXCEPT ![id] = ZeroPosition]
      BY <2>4, CloseEffect
    <3>2. ~ZeroPosition.opened
      BY DEF ZeroPosition
    <3> QED  BY <1>2, <3>1, <3>2, ZeroPositionType
  <2> QED  BY <1>1, <2>1, <2>2, <2>3, <2>4, StepKinds
<1> QED  BY <1>1, <1>3 DEF ProfitInv

(* A position is a candidate exactly while its last mark showed a gain.     *)
THEOREM FlagsFollowProfit == Spec => []FlagMeansProfit
<1>1. Init => ProfitInv
  BY LedgerInvInit DEF Init, ProfitInv, FlagMeansProfit, OpenIds, IsOpen, ZeroPosition
<1>2. ProfitInv => FlagMeansProfit
  BY DEF ProfitInv
<1> QED  BY <1>1, <1>2, ProfitInvInductive, PTL DEF Spec

-----------------------------------------------------------------------------
(* Order and owners of the entries.  No entry names an id that was never    *)
(* handed out: without that, opening a position could put it on the wrong   *)
(* side of an entry that was there before it.                               *)
EntriesIssued ==
    \A m \in Markets, side \in Sides :
        \A i \in DOMAIN adlQueues[m][side] : adlQueues[m][side][i].positionId < positionIdCounter

QueueInv == LedgerInv /\ QueuesDescending /\ EntriesOnTheirSide /\ EntriesIssued

(* One queue m, side changes, and each entry it holds was there before or   *)
(* names the position id.                                                   *)
QueueChange(m, side, id) ==
    /\ OtherQueuesKept(m, side)
    /\ DescendingByScore(adlQueues[m][side]) => DescendingByScore(adlQueues'[m][side])
    /\ \A i \in DOMAIN adlQueues'[m][side] :
          \/ adlQueues'[m][side][i].positionId = id
          \/ \E j \in DOMAIN adlQueues[m][side] : adlQueues'[m][side][i] = adlQueues[m][side][j]

LEMMA RemoveChanges ==
    ASSUME LedgerInv, NEW m \in Markets, NEW id \in PositionIds, NEW side \in Sides,
           RemovePositionFromQueue(m, id, side)
    PROVE  /\ OtherQueuesKept(m, side)
           /\ DescendingByScore(adlQueues[m][side]) => DescendingByScore(adlQueues'[m][side])
           /\ EntriesFrom(adlQueues'[m][side], adlQueues[m][side])
  BY RemoveEffect DEF LedgerInv, CoreTypeOK

(* A change that only drops or reorders entries, or adds entries of a       *)
(* position that is open on that very side, keeps the queues' invariants.   *)
LEMMA QueuesKept ==
    ASSUME QueueInv, NEW m \in Markets, NEW side \in Sides, NEW id \in PositionIds,
           positionIdCounter \in Nat, positionIdCounter' \in Nat,
           positionIdCounter' >= positionIdCounter,
           QueueTypeOK, QueueTypeOK',
           QueueChange(m, side, id),
           \/ EntriesFrom(adlQueues'[m][side], adlQueues[m][side])
           \/ id < positionIdCounter' /\ id \in OpenOn(m, side)',
           \A other \in PositionIds, n \in Markets, s \in Sides :
               (/\ other < positionIdCounter
                /\ positions'[other].opened
                /\ positions[other].opened => other \in OpenOn(n, s))
                   => other \in OpenOn(n, s)'
    PROVE  QueuesDescending' /\ EntriesOnTheirSide' /\ EntriesIssued'
<1>1. ASSUME NEW n \in Markets, NEW s \in Sides, NEW i \in DOMAIN adlQueues'[n][s]
      PROVE  \/ adlQueues'[n][s][i].positionId = id /\ id < positionIdCounter' /\ id \in OpenOn(n, s)'
             \/ \E j \in DOMAIN adlQueues[n][s] : adlQueues'[n][s][i] = adlQueues[n][s][j]
  <2>1. CASE n = m /\ s = side
    BY <1>1, <2>1 DEF QueueChange, EntriesFrom
  <2>2. CASE n # m \/ s # side
    BY <1>1, <2>2 DEF QueueChange, OtherQueuesKept
  <2> QED  BY <2>1, <2>2
<1>2. ASSUME NEW n \in Markets, NEW s \in Sides, NEW j \in DOMAIN adlQueues[n][s]
      PROVE  LET c == adlQueues[n][s][j]
             IN  /\ c.positionId \in PositionIds /\ c.positionId < positionIdCounter
                 /\ positions'[c.positionId].opened => c.positionId \in OpenOn(n, s)'
  <2> DEFINE c == adlQueues[n][s][j]
  <2>1. c \in Candidates /\ c \in ToSet(adlQueues[n][s])
    BY <1>2 DEF QueueTypeOK, ToSet
  <2>2. c.positionId \in PositionIds
    BY <2>1 DEF Candidates
  <2>3. c.positionId < positionIdCounter
    BY <1>2 DEF QueueInv, EntriesIssued
  <2>4. positions[c.positionId].opened => c.positionId \in OpenOn(n, s)
    BY <2>1 DEF QueueInv, EntriesOnTheirSide, IsOpen
  <2> HIDE DEF c
  <2>5. /\ c.positionId \in PositionIds /\ c.positionId < positionIdCounter
        /\ positions'[c.positionId].opened => c.positionId \in OpenOn(n, s)'
    <3>1. ASSUME positions'[c.positionId].opened
          PROVE  c.positionId \in OpenOn(n, s)'
      BY <2>2, <2>3, <2>4, <3>1 DEF OpenOn, OpenIds, IsOpen
    <3> QED  BY <2>2, <2>3, <3>1
  <2> QED  BY <2>5 DEF c
<1>3. EntriesIssued'
  <2>1. ASSUME NEW n \in Markets, NEW s \in Sides, NEW i \in DOMAIN adlQueues'[n][s]
        PROVE  adlQueues'[n][s][i].positionId < positionIdCounter'
    <3>1. CASE \E j \in DOMAIN adlQueues[n][s] : adlQueues'[n][s][i] = adlQueues[n][s][j]
      <4>1. PICK j \in DOMAIN adlQueues[n][s] : adlQueues'[n][s][i] = adlQueues[n][s][j]
        BY <3>1
      <4>2. adlQueues[n][s][j].positionId \in Nat /\ adlQueues[n][s][j].positionId < positionIdCounter
        BY <1>2, IdsAssumption
      <4> QED  BY <4>1, <4>2
    <3> QED  BY <1>1, <2>1, <3>1
  <2> QED  BY <2>1 DEF EntriesIssued
<1>4. EntriesOnTheirSide'
  <2>1. ASSUME NEW n \in Markets, NEW s \in Sides, NEW i \in DOMAIN adlQueues'[n][s],
               positions'[adlQueues'[n][s][i].positionId].opened
        PROVE  adlQueues'[n][s][i].positionId \in OpenOn(n, s)'
    <3>1. CASE \E j \in DOMAIN adlQueues[n][s] : adlQueues'[n][s][i] = adlQueues[n][s][j]
      BY <1>2, <2>1, <3>1
    <3> QED  BY <1>1, <2>1, <3>1
  <2> QED  BY <2>1 DEF EntriesOnTheirSide, ToSet, IsOpen
<1>5. QueuesDescending'
  <2>1. ASSUME NEW n \in Markets, NEW s \in Sides
        PROVE  DescendingByScore(adlQueues'[n][s])
    <3>1. DescendingByScore(adlQueues[n][s])
      BY DEF QueueInv, QueuesDescending
    <3>2. CASE n = m /\ s = side
      BY <3>1, <3>2 DEF QueueChange
    <3>3. CASE n # m \/ s # side
      BY <3>1, <3>3 DEF QueueChange, OtherQueuesKept
    <3> QED  BY <3>2, <3>3
  <2> QED  BY <2>1 DEF QueuesDescending
<1> QED  BY <1>3, <1>4, <1>5

(* The same for the three kinds of step that reach a queue.                 *)
QueuePropsNext == QueuesDescending' /\ EntriesOnTheirSide' /\ EntriesIssued'

LEMMA OpenKeepsQueues ==
    ASSUME QueueInv, OpenStep, LedgerInv' PROVE QueuePropsNext
<1> DEFINE id == positionIdCounter
<1>1. /\ LedgerInv /\ QueueTypeOK /\ QueueTypeOK' /\ positionIdCounter \in Nat
      /\ positions \in [PositionIds -> PositionData]
  BY DEF QueueInv, LedgerInv, CoreTypeOK, LedgerTypeOK
<1>2. PICK m \in Markets, pos \in PositionData :
         /\ id \in PositionIds
         /\ positions' = [positions EXCEPT ![id] = pos]
         /\ positionIdCounter' = id + 1
         /\ RemovePositionFromQueue(m, id, pos.side)
  BY <1>1, OpenEffect
<1>3. pos.side \in Sides
  BY DEF PositionData
<1>4. /\ EntriesFrom(adlQueues'[m][pos.side], adlQueues[m][pos.side])
      /\ QueueChange(m, pos.side, id)
  BY <1>1, <1>2, <1>3, RemoveChanges DEF QueueChange, EntriesFrom
<1>5. ASSUME NEW other \in PositionIds, NEW n \in Markets, NEW s \in Sides,
             other < positionIdCounter, positions'[other].opened,
             positions[other].opened => other \in OpenOn(n, s)
      PROVE  other \in OpenOn(n, s)'
  <2>1. positions'[other] = positions[other]
    BY <1>1, <1>2, <1>5
  <2> QED  BY <1>5, <2>1 DEF OpenOn, OpenIds, IsOpen
<1>6. positionIdCounter' \in Nat /\ positionIdCounter' >= positionIdCounter
  BY <1>1, <1>2
<1> QED  BY <1>1, <1>2, <1>3, <1>4, <1>5, <1>6, QueuesKept DEF QueuePropsNext

LEMMA CloseKeepsQueues ==
    ASSUME QueueInv, NEW id \in PositionIds, CloseBody(id), LedgerInv' PROVE QueuePropsNext
<1> DEFINE pos == positions[id]
<1>1. /\ LedgerInv /\ QueueTypeOK /\ QueueTypeOK' /\ positionIdCounter \in Nat
      /\ positions \in [PositionIds -> PositionData]
  BY DEF QueueInv, LedgerInv, CoreTypeOK, LedgerTypeOK
<1>2. /\ IsOpen(id)
      /\ positions' = [positions EXCEPT ![id] = ZeroPosition]
      /\ positionIdCounter' = positionIdCounter
      /\ RemovePositionFromQueue(pos.marketId, id, pos.side) \/ UNCHANGED adlVars
  BY CloseEffect
<1>3. pos.marketId \in Markets /\ pos.side \in Sides
  BY <1>1, <1>2 DEF OpenNamed, OpenIds, PositionData, LedgerInv
<1>4. /\ EntriesFrom(adlQueues'[pos.marketId][pos.side], adlQueues[pos.marketId][pos.side])
      /\ QueueChange(pos.marketId, pos.side, id)
  <2>1. CASE RemovePositionFromQueue(pos.marketId, id, pos.side)
    BY <1>1, <1>3, <2>1, RemoveChanges DEF QueueChange, EntriesFrom
  <2>2. CASE UNCHANGED adlVars
    BY <2>2 DEF adlVars, QueueChange, EntriesFrom, OtherQueuesKept
  <2> QED  BY <1>2, <2>1, <2>2
<1>5. ASSUME NEW other \in PositionIds, NEW n \in Markets, NEW s \in Sides,
             positions'[other].opened, positions[other].opened => other \in OpenOn(n, s)
      PROVE  other \in OpenOn(n, s)'
  <2>1. other # id
    BY <1>1, <1>2, <1>5 DEF ZeroPosition
  <2>2. positions'[other] = positions[other]
    BY <1>1, <1>2, <2>1
  <2> QED  BY <1>5, <2>2 DEF OpenOn, OpenIds, IsOpen
<1>6. positionIdCounter' \in Nat /\ positionIdCounter' >= positionIdCounter
  BY <1>1, <1>2
<1> HIDE DEF pos
<1> QED  BY <1>1, <1>3, <1>4, <1>5, <1>6, QueuesKept DEF QueuePropsNext

LEMMA MarkKeepsQueues ==
    ASSUME QueueInv, NEW id \in PositionIds, NEW price \in Prices, NEW pos \in PositionData,
           MarkedStep(id, pos, price), LedgerInv'
    PROVE  QueuePropsNext
<1> DEFINE pnl == UnrealizedPnL(pos, price)
           marked == Marked(pos, price)
           m == pos.marketId
           side == pos.side
<1>1. /\ LedgerInv /\ QueueTypeOK /\ QueueTypeOK' /\ positionIdCounter \in Nat
      /\ positions \in [PositionIds -> PositionData]
  BY DEF QueueInv, LedgerInv, CoreTypeOK, LedgerTypeOK
<1>2. /\ m \in Markets /\ side \in Sides /\ pos.leverage \in Nat /\ pnl \in Int
      /\ positions' = [positions EXCEPT ![id] = marked]
      /\ marked.opened /\ marked.marketId = m /\ marked.side = side
      /\ \/ pnl > 0 /\ EnqueueCandidate(m, id, side, pnl, pos.leverage)
         \/ pnl <= 0 /\ pos.inADLQueue /\ RemovePositionFromQueue(m, id, side)
         \/ pnl <= 0 /\ ~pos.inADLQueue /\ UNCHANGED adlVars
  BY <1>1, MarkEffect
<1>3. /\ IsOpen(id) /\ positions[id].marketId = m /\ positions[id].side = side
      /\ positionIdCounter' = positionIdCounter
  BY DEF MarkedStep, Holding
<1> HIDE DEF pnl, marked, m, side
<1>4. id < positionIdCounter /\ id \in OpenOn(m, side)'
  <2>1. ~(id >= positionIdCounter)
    BY <1>3 DEF QueueInv, LedgerInv, FreshAreClosed
  <2> QED  BY <1>1, <1>2, <2>1, IdsAssumption DEF OpenOn, OpenIds, IsOpen
<1>5. QueueChange(m, side, id)
  <2>1. CASE pnl > 0 /\ EnqueueCandidate(m, id, side, pnl, pos.leverage)
    <3>1. pnl \in Nat
      BY <1>2, <2>1
    <3> QED  BY <1>1, <1>2, <2>1, <3>1, EnqueueEffect DEF QueueChange
  <2>2. CASE RemovePositionFromQueue(m, id, side)
    BY <1>1, <1>2, <2>2, RemoveChanges DEF QueueChange, EntriesFrom
  <2>3. CASE UNCHANGED adlVars
    BY <2>3 DEF adlVars, QueueChange, OtherQueuesKept
  <2> QED  BY <1>2, <2>1, <2>2, <2>3
<1>6. ASSUME NEW other \in PositionIds, NEW n \in Markets, NEW s \in Sides,
             positions'[other].opened, positions[other].opened => other \in OpenOn(n, s)
      PROVE  other \in OpenOn(n, s)'
  <2>1. CASE other = id
    BY <1>1, <1>2, <1>3, <1>6, <2>1 DEF OpenOn, OpenIds, IsOpen
  <2>2. CASE other # id
    <3>1. positions'[other] = positions[other]
      BY <1>1, <1>2, <2>2
    <3> QED  BY <1>6, <3>1 DEF OpenOn, OpenIds, IsOpen
  <2> QED  BY <2>1, <2>2
<1>7. positionIdCounter' \in Nat /\ positionIdCounter' >= positionIdCounter /\ id < positionIdCounter'
  BY <1>1, <1>3, <1>4
<1> QED  BY <1>1, <1>2, <1>4, <1>5, <1>6, <1>7, QueuesKept DEF QueuePropsNext

LEMMA QueueInvInductive == QueueInv /\ [Next]_vars => QueueInv'
<1> SUFFICES ASSUME QueueInv, [Next]_vars PROVE QueueInv'
  OBVIOUS
<1>1. LedgerInv /\ LedgerInv'
  BY LedgerInvInductive DEF QueueInv
<1>2. QueuePropsNext
  <2>1. CASE QuietStep
    <3>1. positions' = positions /\ positionIdCounter' = positionIdCounter /\ adlQueues' = adlQueues
      BY <2>1 DEF QuietStep, adlVars
    <3> QED  BY <3>1 DEF QueuePropsNext, QueueInv, QueuesDescending, EntriesOnTheirSide,
                EntriesIssued, OpenOn, OpenIds, IsOpen
  <2>2. CASE OpenStep
    BY <1>1, <2>2, OpenKeepsQueues
  <2>3. CASE \E id \in PositionIds, price \in Prices, pos \in PositionData : MarkedStep(id, pos, price)
    BY <1>1, <2>3, MarkKeepsQueues
  <2>4. CASE \E id \in PositionIds : CloseBody(id)
    BY <1>1, <2>4, CloseKeepsQueues
  <2> QED  BY <1>1, <2>1, <2>2, <2>3, <2>4, StepKinds
<1> QED  BY <1>1, <1>2 DEF QueueInv, QueuePropsNext

LEMMA QueueInvInit == Init => QueueInv
<1> SUFFICES ASSUME Init PROVE QueueInv
  OBVIOUS
<1>1. \A m \in Markets, side \in Sides : adlQueues[m][side] = << >>
  BY DEF Init, QueueInit
<1>2. DescendingByScore(<< >>)
  BY DEF DescendingByScore
<1> QED  BY <1>1, <1>2, LedgerInvInit DEF QueueInv, QueuesDescending, EntriesOnTheirSide,
            EntriesIssued, ToSet

LEMMA QueueInvHolds == Spec => []QueueInv
  BY QueueInvInit, QueueInvInductive, PTL DEF Spec

(* Every queue stays in descending order of score, although removals shift  *)
(* entries at indices that no longer point at the removed position.         *)
THEOREM QueuesStaySorted == Spec => []QueuesDescending
<1>1. QueueInv => QueuesDescending
  BY DEF QueueInv
<1> QED  BY <1>1, QueueInvHolds, PTL

(* No queue ever names an open position of another market or side.          *)
THEOREM EntriesStayOnSide == Spec => []EntriesOnTheirSide
<1>1. QueueInv => EntriesOnTheirSide
  BY DEF QueueInv
<1> QED  BY <1>1, QueueInvHolds, PTL

-----------------------------------------------------------------------------
(* Traders' lists under swap-and-pop.                                       *)
LEMMA WithoutUserPositionExact ==
    ASSUME NEW list \in Seq(PositionIds), IsInjective(list), NEW id \in ToSet(list)
    PROVE  LET r == WithoutUserPosition(list, id)
           IN  IsInjective(r) /\ ToSet(r) = ToSet(list) \ {id}
<1> DEFINE n == Len(list)
           r == WithoutUserPosition(list, id)
<1>1. PICK at \in 1..n : list[at] = id
  BY DEF ToSet
<1>2. n \in Nat /\ n >= 1 /\ list \in [1..n -> PositionIds]
  BY <1>1
<1>3. \A i, j \in 1..n : list[i] = list[j] => i = j
  BY DEF IsInjective
<1>4. { i \in DOMAIN list : list[i] = id } = {at}
  BY <1>1, <1>3
<1>5. Min({at}) = at
  BY <1>1 DEF Min
<1>6. r = SwapPop(list, at)
  BY <1>1, <1>4, <1>5 DEF WithoutUserPosition, SwapPop
<1> HIDE DEF r, n
<1>7. IsInjective(r) /\ ToSet(r) = ToSet(list) \ {list[at]}
  BY <1>1, <1>6, SwapAndPop DEF n
<1> QED  BY <1>1, <1>7 DEF r

ListInv == LedgerInv /\ ListsExact

(* What one account's list and one market's list owe to the records.        *)
OwnListExact(t) ==
    /\ IsInjective(userPositions[t])
    /\ ToSet(userPositions[t]) = { id \in OpenIds : positions[id].trader = t }

LEMMA OpenKeepsLists ==
    ASSUME ListInv, OpenStep PROVE ListsExact'
<1> DEFINE id == positionIdCounter
<1>1. LedgerInv /\ LedgerTypeOK
  BY DEF ListInv, LedgerInv, CoreTypeOK
<1>2. PICK t \in Traders, m \in Markets, pos \in PositionData :
         /\ id \in PositionIds /\ ~IsOpen(id)
         /\ pos.opened /\ pos.trader = t /\ pos.marketId = m
         /\ positions' = [positions EXCEPT ![id] = pos]
         /\ userPositions' = [userPositions EXCEPT ![t] = Append(@, id)]
         /\ marketPositions' = [marketPositions EXCEPT ![m] = Append(@, id)]
  BY <1>1, OpenEffect
<1>3. ASSUME NEW a \in Accounts
      PROVE  OwnListExact(a)'
  <2>1. /\ userPositions[a] \in Seq(PositionIds) /\ IsInjective(userPositions[a])
        /\ ToSet(userPositions[a]) = { i \in OpenIds : positions[i].trader = a }
    BY <1>1 DEF ListInv, ListsExact, LedgerTypeOK
  <2>2. CASE a = t
    <3>1. userPositions'[a] = Append(userPositions[a], id)
      BY <1>1, <1>2, <2>2 DEF LedgerTypeOK
    <3>2. id \notin ToSet(userPositions[a])
      BY <1>2, <2>1 DEF OpenIds
    <3>3. /\ IsInjective(userPositions'[a])
          /\ ToSet(userPositions'[a]) = ToSet(userPositions[a]) \cup {id}
      BY <1>2, <2>1, <3>1, <3>2, AppendExact
    <3>4. { i \in OpenIds : positions[i].trader = a }' = { i \in OpenIds : positions[i].trader = a } \cup {id}
      BY <1>1, <1>2, <2>2 DEF OpenIds, IsOpen, LedgerTypeOK
    <3> QED  BY <2>1, <3>3, <3>4 DEF OwnListExact
  <2>3. CASE a # t
    <3>1. userPositions'[a] = userPositions[a]
      BY <1>1, <1>2, <2>3 DEF LedgerTypeOK
    <3>2. { i \in OpenIds : positions[i].trader = a }' = { i \in OpenIds : positions[i].trader = a }
      BY <1>1, <1>2, <2>3 DEF OpenIds, IsOpen, LedgerTypeOK
    <3> QED  BY <2>1, <3>1, <3>2 DEF OwnListExact
  <2> QED  BY <2>2, <2>3
<1>4. ASSUME NEW i \in PositionIds, positions'[i].opened
      PROVE  Contains(marketPositions'[positions'[i].marketId], i)
  <2>1. CASE i = id
    <3>1. marketPositions'[m] = Append(marketPositions[m], id) /\ positions'[i].marketId = m
      BY <1>1, <1>2, <2>1 DEF LedgerTypeOK
    <3>2. marketPositions[m] \in Seq(PositionIds)
      BY <1>1 DEF LedgerTypeOK
    <3> QED  BY <1>2, <2>1, <3>1, <3>2 DEF Contains
  <2>2. CASE i # id
    <3> DEFINE n == positions[i].marketId
               list == marketPositions[n]
    <3>1. positions'[i] = positions[i] /\ i \in OpenIds
      BY <1>1, <1>2, <1>4, <2>2 DEF OpenIds, IsOpen, LedgerTypeOK
    <3>2. n \in Markets /\ list \in Seq(PositionIds) /\ Contains(list, i)
      BY <1>1, <3>1 DEF ListInv, ListsExact, LedgerInv, OpenNamed, LedgerTypeOK
    <3>3. marketPositions'[n] = list \/ marketPositions'[n] = Append(list, id)
      BY <1>1, <1>2, <3>2 DEF LedgerTypeOK
    <3>5. positions'[i].marketId = n
      BY <3>1
    <3> HIDE DEF n, list
    <3>4. Contains(Append(list, id), i)
      <4>1. PICK k \in 1..Len(list) : list[k] = i
        BY <3>2 DEF Contains
      <4>2. k \in 1..Len(Append(list, id)) /\ Append(list, id)[k] = i
        BY <1>2, <3>2, <4>1
      <4> QED  BY <4>2 DEF Contains
    <3> QED  BY <3>2, <3>3, <3>4, <3>5
  <2> QED  BY <2>1, <2>2
<1>5. \A i \in OpenIds' : Contains(marketPositions'[positions'[i].marketId], i)
  BY <1>4 DEF OpenIds, IsOpen
<1> QED  BY <1>3, <1>5 DEF ListsExact, OwnListExact

LEMMA CloseKeepsLists ==
    ASSUME ListInv, NEW id \in PositionIds, CloseBody(id) PROVE ListsExact'
<1> DEFINE t == positions[id].trader
<1>1. LedgerInv /\ LedgerTypeOK
  BY DEF ListInv, LedgerInv, CoreTypeOK
<1>2. /\ IsOpen(id)
      /\ positions' = [positions EXCEPT ![id] = ZeroPosition]
      /\ userPositions' = [userPositions EXCEPT ![t] = WithoutUserPosition(@, id)]
      /\ marketPositions' = marketPositions
  BY CloseEffect
<1>3. ~ZeroPosition.opened
  BY DEF ZeroPosition
<1>4. ASSUME NEW a \in Accounts
      PROVE  OwnListExact(a)'
  <2>1. /\ userPositions[a] \in Seq(PositionIds) /\ IsInjective(userPositions[a])
        /\ ToSet(userPositions[a]) = { i \in OpenIds : positions[i].trader = a }
    BY <1>1 DEF ListInv, ListsExact, LedgerTypeOK
  <2>2. CASE a = t
    <3>1. userPositions'[a] = WithoutUserPosition(userPositions[a], id)
      BY <1>1, <1>2, <2>2 DEF LedgerTypeOK
    <3>2. id \in ToSet(userPositions[a])
      BY <1>2, <2>1, <2>2 DEF OpenIds
    <3>3. /\ IsInjective(userPositions'[a])
          /\ ToSet(userPositions'[a]) = ToSet(userPositions[a]) \ {id}
      BY <2>1, <3>1, <3>2, WithoutUserPositionExact
    <3>4. { i \in OpenIds : positions[i].trader = a }' = { i \in OpenIds : positions[i].trader = a } \ {id}
      BY <1>1, <1>2, <1>3 DEF OpenIds, IsOpen, LedgerTypeOK
    <3> QED  BY <2>1, <3>3, <3>4 DEF OwnListExact
  <2>3. CASE a # t
    <3>1. userPositions'[a] = userPositions[a]
      BY <1>1, <1>2, <2>3 DEF LedgerTypeOK
    <3>2. { i \in OpenIds : positions[i].trader = a }' = { i \in OpenIds : positions[i].trader = a }
      BY <1>1, <1>2, <1>3, <2>3 DEF OpenIds, IsOpen, LedgerTypeOK
    <3> QED  BY <2>1, <3>1, <3>2 DEF OwnListExact
  <2> QED  BY <2>2, <2>3
<1>5. ASSUME NEW i \in PositionIds, positions'[i].opened
      PROVE  Contains(marketPositions'[positions'[i].marketId], i)
  <2>1. positions'[i] = positions[i] /\ i \in OpenIds
    BY <1>1, <1>2, <1>3, <1>5 DEF OpenIds, IsOpen, LedgerTypeOK
  <2> QED  BY <1>2, <2>1 DEF ListInv, ListsExact
<1>6. \A i \in OpenIds' : Contains(marketPositions'[positions'[i].marketId], i)
  BY <1>5 DEF OpenIds, IsOpen
<1> QED  BY <1>4, <1>6 DEF ListsExact, OwnListExact

(* A mark moves no position between traders or markets.                     *)
LEMMA MarkKeepsLists ==
    ASSUME ListInv, NEW id \in PositionIds, NEW price \in Prices, NEW pos \in PositionData,
           MarkedStep(id, pos, price)
    PROVE  ListsExact'
<1>1. LedgerInv /\ LedgerTypeOK
  BY DEF ListInv, LedgerInv, CoreTypeOK
<1>2. /\ positions' = [positions EXCEPT ![id] = Marked(pos, price)]
      /\ Marked(pos, price).opened /\ IsOpen(id)
      /\ Marked(pos, price).trader = positions[id].trader
      /\ Marked(pos, price).marketId = positions[id].marketId
      /\ userPositions' = userPositions /\ marketPositions' = marketPositions
  BY <1>1, MarkEffect DEF MarkedStep, Holding
<1>3. \A i \in PositionIds :
         /\ positions'[i].opened <=> positions[i].opened
         /\ positions[i].opened => /\ positions'[i].trader = positions[i].trader
                                   /\ positions'[i].marketId = positions[i].marketId
  BY <1>1, <1>2 DEF IsOpen, LedgerTypeOK
<1>4. OpenIds' = OpenIds
  BY <1>3 DEF OpenIds, IsOpen
<1>5. \A i \in OpenIds : positions'[i].trader = positions[i].trader
                         /\ positions'[i].marketId = positions[i].marketId
  BY <1>3 DEF OpenIds, IsOpen
<1>6. \A t \in Accounts : { i \in OpenIds : positions[i].trader = t }'
                            = { i \in OpenIds : positions[i].trader = t }
  BY <1>4, <1>5
<1> QED  BY <1>2, <1>4, <1>5, <1>6 DEF ListInv, ListsExact

LEMMA ListInvInductive == ListInv /\ [Next]_vars => ListInv'
<1> SUFFICES ASSUME ListInv, [Next]_vars PROVE ListInv'
  OBVIOUS
<1>1. LedgerInv /\ LedgerInv'
  BY LedgerInvInductive DEF ListInv
<1>2. ListsExact'
  <2>1. CASE QuietStep
    <3>1. /\ positions' = positions /\ userPositions' = userPositions
          /\ marketPositions' = marketPositions
      BY <2>1 DEF QuietStep
    <3> QED  BY <3>1 DEF ListInv, ListsExact, OpenIds, IsOpen
  <2>2. CASE OpenStep
    BY <2>2, OpenKeepsLists
  <2>3. CASE \E id \in PositionIds, price \in Prices, pos \in PositionData : MarkedStep(id, pos, price)
    BY <2>3, MarkKeepsLists
  <2>4. CASE \E id \in PositionIds : CloseBody(id)
    BY <2>4, CloseKeepsLists
  <2> QED  BY <1>1, <2>1, <2>2, <2>3, <2>4, StepKinds
<1> QED  BY <1>1, <1>2 DEF ListInv

LEMMA ListInvInit == Init => ListInv
<1> SUFFICES ASSUME Init PROVE ListInv
  OBVIOUS
<1>1. OpenIds = {}
  BY DEF Init, OpenIds, IsOpen, ZeroPosition
<1>2. \A t \in Accounts : userPositions[t] = << >>
  BY DEF Init
<1>3. IsInjective(<< >>) /\ ToSet(<< >>) = {}
  BY DEF IsInjective, ToSet
<1> QED  BY <1>1, <1>2, <1>3, LedgerInvInit DEF ListInv, ListsExact

(* Traders' lists name their open positions once each and nothing else, and *)
(* market lists miss none, however closings interleave with openings.       *)
THEOREM ListsStayExact == Spec => []ListsExact
<1>1. ListInv => ListsExact
  BY DEF ListInv
<1> QED  BY <1>1, ListInvInit, ListInvInductive, PTL DEF Spec

-----------------------------------------------------------------------------
(* While PositionManager is paused no open position changes: an opening     *)
(* writes a record that was not open, and every other call that writes a    *)
(* record asks the pauser first.                                            *)
THEOREM PauseFreezes == Spec => PauseFreezesOpenPositions
<1>1. ASSUME LedgerInv, [Next]_vars, ~whenNotEmergencyPaused("POSITION_MANAGER"), NEW id \in OpenIds
      PROVE  positions'[id] = positions[id]
  <2>1. CASE OpenStep
    <3>1. PICK pos \in PositionData :
             /\ positionIdCounter \in PositionIds /\ ~IsOpen(positionIdCounter)
             /\ positions' = [positions EXCEPT ![positionIdCounter] = pos]
      BY <1>1, <2>1, OpenEffect
    <3>2. id # positionIdCounter /\ id \in PositionIds /\ positions \in [PositionIds -> PositionData]
      BY <1>1, <3>1 DEF OpenIds, LedgerInv, CoreTypeOK, LedgerTypeOK
    <3> QED  BY <3>1, <3>2
  <2>2. CASE UNCHANGED vars \/ AdminStep \/ GuardianStep
    BY <2>2 DEF vars, ledgerVars, AdminStep, setMarketRiskConfig, setTradingEngine,
       setLiquidationEngine, GuardianStep
  <2>3. CASE ModifyStep
    BY <1>1, <2>3 DEF ModifyStep, modifyPosition
  <2>4. CASE MarkStep
    BY <1>1, <2>4 DEF MarkStep, updatePositionState
  <2>5. CASE CloseStep \/ ForceCloseStep
    BY <1>1, <2>5 DEF CloseStep, ForceCloseStep, closePosition, forceClosePosition, CloseBody
  <2> QED  BY <1>1, <2>1, <2>2, <2>3, <2>4, <2>5 DEF Next
<1>2. LedgerInv /\ [Next]_vars =>
         [ ~whenNotEmergencyPaused("POSITION_MANAGER")
             => \A id \in OpenIds : positions'[id] = positions[id] ]_vars
  BY <1>1
<1> QED  BY <1>2, LedgerInvHolds, PTL DEF Spec, PauseFreezesOpenPositions

-----------------------------------------------------------------------------
(* The books: portfolio summaries keep their types, and open interest is    *)
(* the sum of the open sizes.                                               *)
LEMMA PortfolioOfType ==
    ASSUME NEW ps \in [PositionIds -> PositionData], NEW list \in Seq(PositionIds)
    PROVE  PortfolioOf(ps, list) \in
              [totalCollateral : Nat, totalUnrealizedPnL : Int, positionCount : Nat]
<1> DEFINE live == { i \in DOMAIN list : ps[list[i]].opened }
           held == [i \in DOMAIN list |-> ps[list[i]].collateral]
           gain == [i \in DOMAIN list |-> ps[list[i]].unrealizedPnL]
<1>1. DOMAIN list = 1..Len(list) /\ Len(list) \in Nat
  OBVIOUS
<1>2. IsFiniteSet(DOMAIN list)
  BY <1>1, FS_Interval
<1>3. IsFiniteSet(live) /\ live \subseteq DOMAIN list
  BY <1>2, FS_Subset
<1>4. \A i \in DOMAIN list : ps[list[i]] \in PositionData
  OBVIOUS
<1>5. held \in [DOMAIN list -> Int] /\ gain \in [DOMAIN list -> Int]
      /\ \A i \in live : held[i] \in Nat
  BY <1>4 DEF PositionData
<1> HIDE DEF live, held, gain
<1>6. SumFunctionOnSet(held, live) \in Nat /\ SumFunctionOnSet(gain, live) \in Int
  BY <1>3, <1>5, SumNat, SumType
<1>7. Cardinality(live) \in Nat
  BY <1>3, FS_CardinalityType
<1> QED  BY <1>6, <1>7 DEF PortfolioOf, live, held, gain

(* Only an opening and a close rebuild a summary: the trader's, and that of *)
(* the zero address.                                                        *)
LEMMA OpenPortfolio ==
    ASSUME LedgerInv, OpenStep
    PROVE  \E t \in Traders, id \in PositionIds, rec \in PositionData :
              /\ positions' = [positions EXCEPT ![id] = rec] /\ rec.trader = t
              /\ portfolios' = [portfolios EXCEPT ![t] = PortfolioOf(positions', userPositions'[t])]
<1>1. PICK t \in Traders, m \in Markets, side \in Sides, size \in OpenSizes,
           collateral \in OpenCollaterals, price \in OpenPrices, leverage \in Leverages :
              openPosition(t, m, side, size, collateral, price, leverage)
  BY DEF OpenStep
<1> DEFINE rec == NewPosition(t, m, side, size, collateral, price, leverage)
<1>2. /\ positionIdCounter \in PositionIds
      /\ positions' = [positions EXCEPT ![positionIdCounter] = rec]
      /\ portfolios' = [portfolios EXCEPT ![t] = PortfolioOf(positions', userPositions'[t])]
  BY <1>1 DEF openPosition
<1>3. rec \in PositionData
  BY NewPositionType, UnitsAssumption DEF LedgerInv
<1>4. rec.trader = t
  BY Zenon DEF NewPosition
<1> HIDE DEF rec
<1> QED  BY <1>2, <1>3, <1>4

LEMMA ClosePortfolio ==
    ASSUME LedgerInv, NEW id \in PositionIds, CloseBody(id)
    PROVE  portfolios' = [portfolios EXCEPT ![NoAddress] =
                             PortfolioOf(positions', userPositions'[NoAddress])]
<1> DEFINE deleted == [positions EXCEPT ![id] = ZeroPosition]
           lists   == [userPositions EXCEPT ![positions[id].trader] = WithoutUserPosition(@, id)]
           owner   == deleted[id].trader
<1>1. SetLedger(AfterClose(Ledger, id))
  BY DEF CloseBody
<1>2. /\ Ledger.positions = positions /\ Ledger.userPositions = userPositions
      /\ Ledger.portfolios = portfolios
  BY DEF Ledger
<1>3. /\ AfterClose(Ledger, id).positions = deleted
      /\ AfterClose(Ledger, id).userPositions = lists
  BY <1>2 DEF AfterClose
<1>4. AfterClose(Ledger, id).portfolios =
         [portfolios EXCEPT ![owner] = PortfolioOf(deleted, lists[owner])]
  BY <1>2 DEF AfterClose
<1>5. owner = NoAddress
  BY DEF LedgerInv, CoreTypeOK, LedgerTypeOK, ZeroPosition
<1> HIDE DEF deleted, lists, owner
<1> QED  BY <1>1, <1>3, <1>4, <1>5 DEF SetLedger

LEMMA OtherPortfolios ==
    ASSUME AdminStep \/ ModifyStep \/ MarkStep \/ GuardianStep \/ UNCHANGED vars
    PROVE  UNCHANGED portfolios
  BY DEF AdminStep, setMarketRiskConfig, setTradingEngine, setLiquidationEngine, ModifyStep,
     modifyPosition, MarkStep, updatePositionState, GuardianStep, vars, ledgerVars

LEMMA PortfoliosKeepTypes ==
    ASSUME LedgerInv, LedgerInv', PortfoliosTypeOK, [Next]_vars
    PROVE  PortfoliosTypeOK'
<1>1. ASSUME NEW t \in Accounts
      PROVE  PortfolioOf(positions', userPositions'[t]) \in
                [totalCollateral : Nat, totalUnrealizedPnL : Int, positionCount : Nat]
  <2>1. positions' \in [PositionIds -> PositionData] /\ userPositions'[t] \in Seq(PositionIds)
    BY DEF LedgerInv, CoreTypeOK, LedgerTypeOK
  <2> QED  BY <2>1, PortfolioOfType
<1>2. ASSUME NEW t \in Accounts,
             portfolios' = [portfolios EXCEPT ![t] = PortfolioOf(positions', userPositions'[t])]
      PROVE  PortfoliosTypeOK'
  BY <1>1, <1>2 DEF PortfoliosTypeOK
<1>3. CASE OpenStep
  BY <1>2, <1>3, OpenPortfolio DEF Accounts
<1>4. ASSUME NEW id \in PositionIds, CloseBody(id) PROVE PortfoliosTypeOK'
  BY <1>2, <1>4, ClosePortfolio DEF Accounts
<1>5. CASE AdminStep \/ ModifyStep \/ MarkStep \/ GuardianStep \/ UNCHANGED vars
  BY <1>5, OtherPortfolios DEF PortfoliosTypeOK
<1> QED  BY <1>3, <1>4, <1>5
         DEF Next, CloseStep, ForceCloseStep, closePosition, forceClosePosition

(* The open size of a market's side, and a position's share of it.          *)
OpenSize(m, side) ==
    SumFunctionOnSet([id \in PositionIds |-> positions[id].size], OpenOn(m, side))

SizeOn(id, m, side) == IF id \in OpenOn(m, side) THEN positions[id].size ELSE 0

(* When one record changes, the open size changes by that record's share.   *)
LEMMA OpenSizeMoves ==
    ASSUME LedgerInv, LedgerInv', NEW id \in PositionIds, NEW rec,
           positions' = [positions EXCEPT ![id] = rec], NEW m \in Markets, NEW side \in Sides
    PROVE  /\ OpenSize(m, side) \in Int /\ OpenSize(m, side)' \in Int
           /\ OpenSize(m, side)' - SizeOn(id, m, side)' = OpenSize(m, side) - SizeOn(id, m, side)
<1> DEFINE f == [i \in PositionIds |-> positions[i].size]
           h == [i \in PositionIds |-> positions'[i].size]
           S == OpenOn(m, side)
           T == { i \in PositionIds : positions'[i].opened /\ positions'[i].marketId = m
                                        /\ positions'[i].side = side }
<1>1. positions \in [PositionIds -> PositionData] /\ positions' \in [PositionIds -> PositionData]
  BY DEF LedgerInv, CoreTypeOK, LedgerTypeOK
<1>2. f \in [PositionIds -> Int] /\ h \in [PositionIds -> Int]
  BY <1>1 DEF PositionData
<1>3. S \subseteq PositionIds /\ T \subseteq PositionIds /\ IsFiniteSet(S) /\ IsFiniteSet(T)
  <2>1. S \subseteq PositionIds /\ T \subseteq PositionIds
    BY DEF OpenOn, OpenIds
  <2> HIDE DEF S, T
  <2> QED  BY <2>1, IdsAssumption, FS_Subset
<1>4. S \ {id} = T \ {id}
  BY <1>1 DEF OpenOn, OpenIds, IsOpen
<1>5. \A y \in S \ {id} : f[y] = h[y]
  BY <1>1 DEF OpenOn, OpenIds
<1>6. OpenSize(m, side) = SumFunctionOnSet(f, S) /\ OpenSize(m, side)' = SumFunctionOnSet(h, T)
  <2>1. OpenOn(m, side)' = T
    BY DEF OpenOn, OpenIds, IsOpen
  <2> QED  BY <2>1 DEF OpenSize
<1>7. /\ SizeOn(id, m, side) = (IF id \in S THEN f[id] ELSE 0)
      /\ SizeOn(id, m, side)' = (IF id \in T THEN h[id] ELSE 0)
  BY DEF SizeOn, OpenOn, OpenIds, IsOpen
<1> HIDE DEF f, h, S, T
<1>8. /\ SumFunctionOnSet(f, S) \in Int /\ SumFunctionOnSet(h, T) \in Int
      /\ SumFunctionOnSet(h, T) - (IF id \in T THEN h[id] ELSE 0)
           = SumFunctionOnSet(f, S) - (IF id \in S THEN f[id] ELSE 0)
  BY <1>2, <1>3, <1>4, <1>5, SumMoved
<1> QED  BY <1>6, <1>7, <1>8

(* Open interest moves by as much: one lemma for each kind of call.         *)
InterestMoves(id) ==
    \A m \in Markets, side \in Sides :
        openInterest'[m][side] - SizeOn(id, m, side)' = openInterest[m][side] - SizeOn(id, m, side)

LEMMA InterestFollows ==
    ASSUME LedgerInv, LedgerInv', OpenInterestExact, NEW id \in PositionIds, NEW rec,
           positions' = [positions EXCEPT ![id] = rec], InterestMoves(id)
    PROVE  OpenInterestExact'
<1> SUFFICES ASSUME NEW m \in Markets, NEW side \in Sides
             PROVE  openInterest'[m][side] = OpenSize(m, side)'
  BY DEF OpenInterestExact, OpenSize
<1>1. openInterest[m][side] = OpenSize(m, side)
  BY DEF OpenInterestExact, OpenSize
<1>2. /\ OpenSize(m, side) \in Int /\ OpenSize(m, side)' \in Int
      /\ OpenSize(m, side)' - SizeOn(id, m, side)' = OpenSize(m, side) - SizeOn(id, m, side)
  BY OpenSizeMoves
<1>3. openInterest'[m][side] - SizeOn(id, m, side)' = openInterest[m][side] - SizeOn(id, m, side)
  BY DEF InterestMoves
<1>4. openInterest'[m][side] \in Int /\ openInterest[m][side] \in Int
  BY DEF LedgerInv, CoreTypeOK, LedgerTypeOK
<1>5. SizeOn(id, m, side) \in Int /\ SizeOn(id, m, side)' \in Int
  BY DEF SizeOn, LedgerInv, CoreTypeOK, LedgerTypeOK, PositionData
<1>6. \A a, b, c, d, e \in Int : a - c = b - d /\ e - c = b - d => a = e
  OBVIOUS
<1> QED  BY <1>1, <1>2, <1>3, <1>4, <1>5, <1>6

LEMMA OpenMovesInterest ==
    ASSUME LedgerInv, LedgerInv', OpenStep
    PROVE  \E id \in PositionIds, rec \in PositionData :
              positions' = [positions EXCEPT ![id] = rec] /\ InterestMoves(id)
<1>1. PICK t \in Traders, m \in Markets, side \in Sides, size \in OpenSizes,
           collateral \in OpenCollaterals, price \in OpenPrices, leverage \in Leverages :
              openPosition(t, m, side, size, collateral, price, leverage)
  BY DEF OpenStep
<1> DEFINE rec == NewPosition(t, m, side, size, collateral, price, leverage)
<1>9. PICK id \in PositionIds : id = positionIdCounter
  BY <1>1 DEF openPosition
<1>2. /\ positions' = [positions EXCEPT ![id] = rec]
      /\ openInterest' = [openInterest EXCEPT ![m][side] = @ + size]
  BY <1>1, <1>9 DEF openPosition
<1>3. ~IsOpen(id)
  BY <1>9, IdsAssumption DEF LedgerInv, FreshAreClosed
<1>4. rec.opened /\ rec.marketId = m /\ rec.side = side /\ rec.size = size
  BY Zenon DEF NewPosition
<1>5. rec \in PositionData
  BY NewPositionType, UnitsAssumption DEF LedgerInv
<1>7. size \in Int
  BY UnitsAssumption
<1> HIDE DEF rec
<1>8. positions'[id] = rec
  BY <1>2 DEF LedgerInv, CoreTypeOK, LedgerTypeOK
<1>6. ASSUME NEW mm \in Markets, NEW ss \in Sides
      PROVE  openInterest'[mm][ss] - SizeOn(id, mm, ss)' = openInterest[mm][ss] - SizeOn(id, mm, ss)
  <2>1. SizeOn(id, mm, ss) = 0
    BY <1>3 DEF SizeOn, OpenOn, OpenIds
  <2>2. SizeOn(id, mm, ss)' = IF mm = m /\ ss = side THEN size ELSE 0
    BY <1>2, <1>4, <1>8 DEF SizeOn, OpenOn, OpenIds, IsOpen
  <2>3. openInterest'[mm][ss] = openInterest[mm][ss] + (IF mm = m /\ ss = side THEN size ELSE 0)
        /\ openInterest[mm][ss] \in Int
    BY <1>2, <1>7 DEF LedgerInv, CoreTypeOK, LedgerTypeOK
  <2> QED  BY <1>7, <2>1, <2>2, <2>3
<1> QED  BY <1>2, <1>5, <1>6 DEF InterestMoves

LEMMA CloseMovesInterest ==
    ASSUME LedgerInv, LedgerInv', NEW id \in PositionIds, CloseBody(id)
    PROVE  positions' = [positions EXCEPT ![id] = ZeroPosition] /\ InterestMoves(id)
<1> DEFINE m == positions[id].marketId
           side == positions[id].side
           size == positions[id].size
<1>1. /\ IsOpen(id) /\ positions' = [positions EXCEPT ![id] = ZeroPosition]
      /\ openInterest' = [openInterest EXCEPT ![m][side] = @ - size]
  BY CloseEffect
<1>2. m \in Markets /\ side \in Sides /\ size \in Int
  BY <1>1 DEF LedgerInv, CoreTypeOK, LedgerTypeOK, PositionData, OpenNamed, OpenIds
<1>3. ASSUME NEW mm \in Markets, NEW ss \in Sides
      PROVE  openInterest'[mm][ss] - SizeOn(id, mm, ss)' = openInterest[mm][ss] - SizeOn(id, mm, ss)
  <2>1. SizeOn(id, mm, ss) = IF mm = m /\ ss = side THEN size ELSE 0
    BY <1>1 DEF SizeOn, OpenOn, OpenIds
  <2>2. SizeOn(id, mm, ss)' = 0
    <3>1. ~IsOpen(id)'
      BY <1>1 DEF IsOpen, LedgerInv, CoreTypeOK, LedgerTypeOK, ZeroPosition
    <3> QED  BY <3>1 DEF SizeOn, OpenOn, OpenIds
  <2>3. openInterest'[mm][ss] = openInterest[mm][ss] - (IF mm = m /\ ss = side THEN size ELSE 0)
        /\ openInterest[mm][ss] \in Int
    <3> HIDE DEF m, side, size
    <3> QED  BY <1>1, <1>2 DEF LedgerInv, CoreTypeOK, LedgerTypeOK
  <2> HIDE DEF m, side, size
  <2> QED  BY <1>2, <2>1, <2>2, <2>3
<1> QED  BY <1>1, <1>3 DEF InterestMoves

(* A resize adds to the open interest what it adds to the size; a mark      *)
(* touches neither.                                                         *)
LEMMA ResizeMovesInterest ==
    ASSUME LedgerInv, LedgerInv', NEW id \in PositionIds, NEW rec \in PositionData,
           NEW ds \in Int,
           IsOpen(id), rec.opened, rec.size = positions[id].size + ds,
           rec.marketId = positions[id].marketId, rec.side = positions[id].side,
           positions' = [positions EXCEPT ![id] = rec],
           openInterest' = [openInterest EXCEPT ![rec.marketId][rec.side] =
                               openInterest[rec.marketId][rec.side] + ds]
    PROVE  InterestMoves(id)
<1> DEFINE m == rec.marketId
           side == rec.side
<1>1. m \in Markets /\ side \in Sides /\ positions[id].size \in Int
  BY DEF LedgerInv, CoreTypeOK, LedgerTypeOK, PositionData, OpenNamed, OpenIds
<1>2. ASSUME NEW mm \in Markets, NEW ss \in Sides
      PROVE  openInterest'[mm][ss] - SizeOn(id, mm, ss)' = openInterest[mm][ss] - SizeOn(id, mm, ss)
  <2>1. SizeOn(id, mm, ss) = IF mm = m /\ ss = side THEN positions[id].size ELSE 0
    BY DEF SizeOn, OpenOn, OpenIds
  <2>2. SizeOn(id, mm, ss)' = IF mm = m /\ ss = side THEN positions[id].size + ds ELSE 0
    BY DEF SizeOn, OpenOn, OpenIds, IsOpen, LedgerInv, CoreTypeOK, LedgerTypeOK
  <2>3. openInterest'[mm][ss] = openInterest[mm][ss] + (IF mm = m /\ ss = side THEN ds ELSE 0)
        /\ openInterest[mm][ss] \in Int
    <3> HIDE DEF m, side
    <3> QED  BY <1>1 DEF LedgerInv, CoreTypeOK, LedgerTypeOK, m, side
  <2> HIDE DEF m, side
  <2> QED  BY <1>1, <2>1, <2>2, <2>3
<1> QED  BY <1>2 DEF InterestMoves

LEMMA ModifyMovesInterest ==
    ASSUME LedgerInv, LedgerInv', NEW id \in PositionIds, NEW ds \in SizeDeltas,
           NEW dc \in CollateralDeltas, NEW price \in Prices, modifyPosition(id, ds, dc, price)
    PROVE  \E rec \in PositionData :
              /\ positions' = [positions EXCEPT ![id] = rec] /\ InterestMoves(id)
              /\ rec.opened /\ rec.trader = positions[id].trader
<1> DEFINE resized == Resized(positions[id], ds, dc)
           rec == Marked(resized, price)
<1>1. /\ IsOpen(id) /\ WithinHoldings(positions[id], ds, dc)
      /\ positions' = [positions EXCEPT ![id] = rec]
      /\ openInterest' = [openInterest EXCEPT ![positions[id].marketId][positions[id].side] =
                             openInterest[positions[id].marketId][positions[id].side] + ds]
  BY DEF modifyPosition, MarkPosition
<1>2. positions[id] \in PositionData /\ positions[id].marketId \in Markets /\ CoreTypeOK
  BY <1>1 DEF LedgerInv, OpenNamed, OpenIds, CoreTypeOK, LedgerTypeOK
<1>3. resized \in PositionData
  BY <1>1, <1>2, ResizedType, UnitsAssumption
<1>4. /\ resized.opened = positions[id].opened /\ resized.marketId = positions[id].marketId
      /\ resized.trader = positions[id].trader /\ resized.side = positions[id].side /\ resized.size = positions[id].size + ds
  BY <1>2, Zenon DEF Resized, PositionData
<1> HIDE DEF resized
<1>5. rec \in PositionData
  BY <1>3, MarkedType, UnitsAssumption
<1>6. /\ rec.opened = resized.opened /\ rec.marketId = resized.marketId
      /\ rec.trader = resized.trader /\ rec.side = resized.side /\ rec.size = resized.size
  BY <1>3, Zenon DEF Marked, PositionData
<1> HIDE DEF rec
<1>7. ds \in Int /\ rec.opened
  BY <1>1, <1>4, <1>6, UnitsAssumption DEF IsOpen
<1>8. InterestMoves(id)
  BY <1>1, <1>4, <1>5, <1>6, <1>7, ResizeMovesInterest
<1> QED  BY <1>1, <1>4, <1>5, <1>6, <1>7, <1>8

LEMMA MarkMovesInterest ==
    ASSUME LedgerInv, LedgerInv', NEW id \in PositionIds, NEW price \in Prices,
           updatePositionState(id, price)
    PROVE  \E rec \in PositionData :
              /\ positions' = [positions EXCEPT ![id] = rec] /\ InterestMoves(id)
              /\ rec.opened /\ rec.trader = positions[id].trader
<1> DEFINE rec == Marked(positions[id], price)
<1>1. /\ IsOpen(id) /\ positions' = [positions EXCEPT ![id] = rec]
      /\ UNCHANGED openInterest
  BY DEF updatePositionState, MarkPosition
<1>2. positions[id] \in PositionData /\ openInterest \in [Markets -> [Sides -> Nat]]
  BY DEF LedgerInv, CoreTypeOK, LedgerTypeOK
<1>3. rec \in PositionData
  BY <1>2, MarkedType, UnitsAssumption
<1>4. /\ rec.opened = positions[id].opened /\ rec.marketId = positions[id].marketId
      /\ rec.trader = positions[id].trader /\ rec.side = positions[id].side /\ rec.size = positions[id].size
  BY <1>2, Zenon DEF Marked, PositionData
<1> HIDE DEF rec
<1>5. rec.marketId \in Markets /\ rec.side \in Sides /\ rec.size = positions[id].size
      /\ positions[id].size \in Int
  BY <1>1, <1>2, <1>4 DEF LedgerInv, OpenNamed, OpenIds, PositionData
<1>6. PICK zero \in Int : zero = 0
  OBVIOUS
<1>7. InterestMoves(id)
  <2>1. rec.size = positions[id].size + zero
    BY <1>5, <1>6
  <2>2. openInterest' = [openInterest EXCEPT ![rec.marketId][rec.side] =
                            openInterest[rec.marketId][rec.side] + zero]
    BY <1>1, <1>2, <1>5, <1>6
  <2>3. rec.opened
    BY <1>1, <1>4 DEF IsOpen
  <2> QED  BY <1>1, <1>3, <1>4, <2>1, <2>2, <2>3, ResizeMovesInterest
<1> QED  BY <1>1, <1>3, <1>4, <1>7 DEF IsOpen

BooksInv == LedgerInv /\ PortfoliosTypeOK /\ OpenInterestExact

LEMMA BooksInvInductive == BooksInv /\ [Next]_vars => BooksInv'
<1> SUFFICES ASSUME BooksInv, [Next]_vars PROVE BooksInv'
  OBVIOUS
<1>1. LedgerInv /\ LedgerInv' /\ OpenInterestExact
  BY LedgerInvInductive DEF BooksInv
<1>2. PortfoliosTypeOK'
  BY <1>1, PortfoliosKeepTypes DEF BooksInv
<1>3. OpenInterestExact'
  <2>1. CASE OpenStep
    BY <1>1, <2>1, OpenMovesInterest, InterestFollows
  <2>2. ASSUME NEW id \in PositionIds, CloseBody(id) PROVE OpenInterestExact'
    BY <1>1, <2>2, CloseMovesInterest, InterestFollows
  <2>3. CASE ModifyStep
    BY <1>1, <2>3, ModifyMovesInterest, InterestFollows DEF ModifyStep
  <2>4. CASE MarkStep
    BY <1>1, <2>4, MarkMovesInterest, InterestFollows DEF MarkStep
  <2>5. CASE AdminStep \/ GuardianStep \/ UNCHANGED vars
    <3>1. UNCHANGED <<positions, openInterest>>
      BY <2>5 DEF AdminStep, setMarketRiskConfig, setTradingEngine, setLiquidationEngine,
         GuardianStep, vars, ledgerVars
    <3> QED  BY <1>1, <3>1 DEF OpenInterestExact, OpenOn, OpenIds, IsOpen
  <2> QED  BY <2>1, <2>2, <2>3, <2>4, <2>5
           DEF Next, CloseStep, ForceCloseStep, closePosition, forceClosePosition
<1> QED  BY <1>1, <1>2, <1>3 DEF BooksInv

LEMMA BooksInvInit == Init => BooksInv
<1> SUFFICES ASSUME Init PROVE BooksInv
  OBVIOUS
<1>1. LedgerInv
  BY LedgerInvInit
<1>2. PortfoliosTypeOK
  BY DEF Init, PortfoliosTypeOK, EmptyPortfolio
<1>3. ASSUME NEW m \in Markets, NEW side \in Sides
      PROVE  openInterest[m][side] = OpenSize(m, side)
  <2>1. OpenOn(m, side) = {}
    BY DEF Init, OpenOn, OpenIds, IsOpen, ZeroPosition
  <2>2. [id \in PositionIds |-> positions[id].size] \in [PositionIds -> Int]
    BY <1>1 DEF LedgerInv, CoreTypeOK, LedgerTypeOK, PositionData
  <2>3. OpenSize(m, side) = 0
    BY <2>1, <2>2, SumEmpty DEF OpenSize
  <2> QED  BY <2>3 DEF Init
<1> QED  BY <1>1, <1>2, <1>3 DEF BooksInv, OpenInterestExact, OpenSize

LEMMA BooksInvHolds == Spec => []BooksInv
  BY BooksInvInit, BooksInvInductive, PTL DEF Spec

(* The open interest of every market's side is the sum of the sizes that    *)
(* are open there, and every variable has its type: no subtraction of an    *)
(* open, resize or close can leave a counter wrong.                         *)
THEOREM BooksStayExact == Spec => []LedgerExact
<1>1. BooksInv => LedgerExact
  BY DEF BooksInv, LedgerExact, TypeOK, LedgerInv
<1> QED  BY <1>1, BooksInvHolds, PTL

(* A close cannot revert on the way to the ledger: the open interest covers *)
(* the size it is to lose, and a flagged position's queue has an entry to   *)
(* pop.                                                                     *)
CloseCovered ==
    \A id \in OpenIds :
        /\ OpenInterestCovers(Ledger, id)
        /\ positions[id].inADLQueue => adlQueues[positions[id].marketId][positions[id].side] # << >>

THEOREM ClosesNeverRevert == Spec => []CloseCovered
<1>1. BooksInv /\ QueueReadyToPop => CloseCovered
  <2> SUFFICES ASSUME BooksInv, QueueReadyToPop, NEW id \in OpenIds
               PROVE  /\ OpenInterestCovers(Ledger, id)
                      /\ positions[id].inADLQueue =>
                            adlQueues[positions[id].marketId][positions[id].side] # << >>
    BY DEF CloseCovered
  <2> DEFINE f == [i \in PositionIds |-> positions[i].size]
             m == positions[id].marketId
             side == positions[id].side
             S == OpenOn(m, side)
  <2>1. /\ positions \in [PositionIds -> PositionData] /\ id \in PositionIds
        /\ m \in Markets /\ side \in Sides
    BY DEF BooksInv, LedgerInv, CoreTypeOK, LedgerTypeOK, PositionData, OpenNamed, OpenIds
  <2>2. f \in [PositionIds -> Int] /\ \A i \in S : f[i] \in Nat
    BY <2>1 DEF OpenOn, OpenIds, PositionData
  <2>3. S \subseteq PositionIds /\ IsFiniteSet(S) /\ id \in S
    <3>1. S \subseteq PositionIds /\ id \in S
      BY <2>1 DEF OpenOn, OpenIds
    <3> HIDE DEF S
    <3> QED  BY <3>1, IdsAssumption, FS_Subset
  <2>4. openInterest[m][side] = SumFunctionOnSet(f, S) /\ f[id] = positions[id].size
    BY <2>1 DEF BooksInv, OpenInterestExact
  <2> HIDE DEF f, S
  <2>5. openInterest[m][side] >= positions[id].size
    BY <2>2, <2>3, <2>4, SumCoversEach
  <2> QED  BY <2>5 DEF OpenInterestCovers, Ledger, QueueReadyToPop
<1> QED  BY <1>1, BooksInvHolds, RemovalsNeverRevert, PTL

-----------------------------------------------------------------------------
(* A summary counts positions by the list it is rebuilt from, and lists are *)
(* exact; what is not rebuilt can only count too many.                      *)
OpenOf(t) == { id \in OpenIds : positions[id].trader = t }

LEMMA RebuiltCount ==
    ASSUME NEW ps \in [PositionIds -> PositionData], NEW list \in Seq(PositionIds),
           IsInjective(list), \A id \in ToSet(list) : ps[id].opened
    PROVE  PortfolioOf(ps, list).positionCount = Cardinality(ToSet(list))
<1> DEFINE live == { i \in DOMAIN list : ps[list[i]].opened }
           f == [i \in live |-> list[i]]
<1>1. live = DOMAIN list
  BY DEF ToSet
<1>2. IsFiniteSet(live)
  <2>1. DOMAIN list = 1..Len(list) /\ Len(list) \in Nat
    OBVIOUS
  <2> HIDE DEF live
  <2> QED  BY <1>1, <2>1, FS_Interval
<1>3. f \in Bijection(live, ToSet(list))
  <2>1. f \in [live -> ToSet(list)]
    BY <1>1 DEF ToSet
  <2>2. \A i, j \in live : f[i] = f[j] => i = j
    BY <1>1 DEF IsInjective
  <2>3. \A id \in ToSet(list) : \E i \in live : f[i] = id
    BY <1>1 DEF ToSet
  <2> HIDE DEF f, live
  <2> QED  BY <2>1, <2>2, <2>3 DEF Bijection, Injection, Surjection, IsInjective
<1>4. ExistsBijection(live, ToSet(list))
  BY <1>3 DEF ExistsBijection
<1>5. Cardinality(ToSet(list)) = Cardinality(live)
  <2> HIDE DEF live
  <2> QED  BY <1>2, <1>4, FS_Bijection
<1> QED  BY <1>5 DEF PortfolioOf

LEMMA OpenOfFinite ==
    ASSUME NEW t
    PROVE  OpenOf(t) \subseteq PositionIds /\ IsFiniteSet(OpenOf(t))
<1>1. OpenOf(t) \subseteq PositionIds
  BY DEF OpenOf, OpenIds
<1> QED  BY <1>1, IdsAssumption, FS_Subset

(* Of each trader's summary and open positions: rebuilt together, or the    *)
(* summary is left and no position is new.                                  *)
LEMMA CountsFollow ==
    ASSUME ListInv, ListInv', BooksInv, BooksInv', [Next]_vars, NEW t \in Traders
    PROVE  \/ portfolios'[t].positionCount = Cardinality(OpenOf(t)')
           \/ portfolios'[t] = portfolios[t] /\ OpenOf(t)' \subseteq OpenOf(t)
<1>1. portfolios \in [Accounts -> [totalCollateral : Nat, totalUnrealizedPnL : Int,
                                   positionCount : Nat]]
  BY DEF BooksInv, PortfoliosTypeOK
<1>2. t \in Accounts /\ NoAddress \in Accounts /\ t # NoAddress
  BY NamesAssumption DEF Accounts
<1>3. LedgerInv /\ LedgerInv' /\ positions \in [PositionIds -> PositionData]
  BY DEF BooksInv, LedgerInv, CoreTypeOK, LedgerTypeOK
<1>4. PortfolioOf(positions', userPositions'[t]).positionCount = Cardinality(OpenOf(t)')
  <2>1. /\ positions' \in [PositionIds -> PositionData]
        /\ userPositions'[t] \in Seq(PositionIds) /\ IsInjective(userPositions'[t])
        /\ ToSet(userPositions'[t]) = OpenOf(t)'
    BY <1>2 DEF ListInv, LedgerInv, CoreTypeOK, LedgerTypeOK, ListsExact, OpenOf
  <2>2. \A id \in OpenOf(t)' : positions'[id].opened
    BY DEF OpenOf, OpenIds, IsOpen
  <2> QED  BY <2>1, <2>2, RebuiltCount
<1>5. CASE OpenStep
  <2>1. PICK u \in Traders, id \in PositionIds, rec \in PositionData :
           /\ positions' = [positions EXCEPT ![id] = rec] /\ rec.trader = u
           /\ portfolios' = [portfolios EXCEPT ![u] = PortfolioOf(positions', userPositions'[u])]
    BY <1>3, <1>5, OpenPortfolio
  <2>2. CASE u = t
    <3>1. portfolios'[t] = PortfolioOf(positions', userPositions'[t])
      BY <1>1, <1>2, <2>1, <2>2
    <3> QED  BY <1>4, <3>1
  <2>3. CASE u # t
    <3>1. portfolios'[t] = portfolios[t]
      BY <1>1, <1>2, <2>1, <2>3
    <3>2. OpenOf(t)' \subseteq OpenOf(t)
      BY <1>3, <2>1, <2>3 DEF OpenOf, OpenIds, IsOpen
    <3> QED  BY <3>1, <3>2
  <2> QED  BY <2>2, <2>3
<1>6. ASSUME NEW id \in PositionIds, CloseBody(id)
      PROVE  portfolios'[t] = portfolios[t] /\ OpenOf(t)' \subseteq OpenOf(t)
  <2>1. portfolios'[t] = portfolios[t]
    BY <1>1, <1>2, <1>3, <1>6, ClosePortfolio
  <2>2. positions' = [positions EXCEPT ![id] = ZeroPosition]
    BY <1>6, CloseEffect
  <2>3. OpenOf(t)' \subseteq OpenOf(t)
    BY <1>3, <2>2 DEF OpenOf, OpenIds, IsOpen, ZeroPosition
  <2> QED  BY <2>1, <2>3
<1>7. ASSUME NEW id \in PositionIds, NEW rec \in PositionData, IsOpen(id),
             positions' = [positions EXCEPT ![id] = rec], rec.trader = positions[id].trader
      PROVE  OpenOf(t)' \subseteq OpenOf(t)
  BY <1>3, <1>7 DEF OpenOf, OpenIds, IsOpen
<1>8. CASE ModifyStep
  <2>1. portfolios'[t] = portfolios[t]
    BY <1>8, OtherPortfolios
  <2>2. PICK id \in PositionIds, ds \in SizeDeltas, dc \in CollateralDeltas, price \in Prices :
                modifyPosition(id, ds, dc, price)
    BY <1>8 DEF ModifyStep
  <2>3. PICK rec \in PositionData :
           positions' = [positions EXCEPT ![id] = rec] /\ rec.trader = positions[id].trader
    BY <1>3, <2>2, ModifyMovesInterest
  <2>4. IsOpen(id)
    BY <2>2 DEF modifyPosition
  <2> QED  BY <1>7, <2>1, <2>3, <2>4
<1>9. CASE MarkStep
  <2>1. portfolios'[t] = portfolios[t]
    BY <1>9, OtherPortfolios
  <2>2. PICK id \in PositionIds, price \in Prices : updatePositionState(id, price)
    BY <1>9 DEF MarkStep
  <2>3. PICK rec \in PositionData :
           positions' = [positions EXCEPT ![id] = rec] /\ rec.trader = positions[id].trader
    BY <1>3, <2>2, MarkMovesInterest
  <2>4. IsOpen(id)
    BY <2>2 DEF updatePositionState
  <2> QED  BY <1>7, <2>1, <2>3, <2>4
<1>10. CASE AdminStep \/ GuardianStep \/ UNCHANGED vars
  <2>1. UNCHANGED <<positions, portfolios>>
    BY <1>10 DEF AdminStep, setMarketRiskConfig, setTradingEngine, setLiquidationEngine,
       GuardianStep, vars, ledgerVars
  <2> QED  BY <2>1 DEF OpenOf, OpenIds, IsOpen
<1> QED  BY <1>5, <1>6, <1>8, <1>9, <1>10
         DEF Next, CloseStep, ForceCloseStep, closePosition, forceClosePosition

(* A trader's summary never counts fewer positions than the trader has      *)
(* open, in any order of openings, closings and forced closings.            *)
THEOREM SummariesNeverUnderstate == Spec => []PortfolioNeverUnderstates
<1> DEFINE Inv == ListInv /\ BooksInv /\ PortfolioNeverUnderstates
<1>1. Init => Inv
  <2> SUFFICES ASSUME Init PROVE Inv
    OBVIOUS
  <2>1. ListInv /\ BooksInv
    BY ListInvInit, BooksInvInit
  <2>2. \A t \in Traders : OpenOf(t) = {} /\ portfolios[t].positionCount = 0
    BY DEF Init, OpenOf, OpenIds, IsOpen, ZeroPosition, EmptyPortfolio, Accounts
  <2>3. \A t \in Traders : portfolios[t].positionCount >= Cardinality(OpenOf(t))
    <3>1. Cardinality({}) = 0
      BY FS_EmptySet
    <3> QED  BY <2>2, <3>1
  <2>4. PortfolioNeverUnderstates
    BY <2>3 DEF PortfolioNeverUnderstates, OpenOf
  <2> QED  BY <2>1, <2>4
<1>2. Inv /\ [Next]_vars => Inv'
  <2> SUFFICES ASSUME Inv, [Next]_vars PROVE Inv'
    OBVIOUS
  <2>1. ListInv' /\ BooksInv'
    BY ListInvInductive, BooksInvInductive
  <2>2. ASSUME NEW t \in Traders PROVE portfolios'[t].positionCount >= Cardinality(OpenOf(t)')
    <3>1. /\ OpenOf(t) \subseteq PositionIds /\ IsFiniteSet(OpenOf(t))
          /\ Cardinality(OpenOf(t)) \in Nat
      BY OpenOfFinite, FS_CardinalityType
    <3>2. OpenOf(t)' \subseteq PositionIds
      BY DEF OpenOf, OpenIds
    <3>3. IsFiniteSet(OpenOf(t)') /\ Cardinality(OpenOf(t)') \in Nat
      BY <3>2, IdsAssumption, FS_Subset, FS_CardinalityType
    <3>4. portfolios[t].positionCount >= Cardinality(OpenOf(t))
          /\ portfolios[t].positionCount \in Nat
      BY DEF PortfolioNeverUnderstates, OpenOf, BooksInv, PortfoliosTypeOK, Accounts
    <3>5. CASE portfolios'[t].positionCount = Cardinality(OpenOf(t)')
      BY <3>3, <3>5
    <3>6. CASE portfolios'[t] = portfolios[t] /\ OpenOf(t)' \subseteq OpenOf(t)
      <4>1. Cardinality(OpenOf(t)') <= Cardinality(OpenOf(t))
        BY <3>1, <3>6, FS_Subset
      <4> QED  BY <3>1, <3>3, <3>4, <3>6, <4>1
    <3> QED  BY <2>1, <3>5, <3>6, CountsFollow
  <2> QED  BY <2>1, <2>2 DEF PortfolioNeverUnderstates, OpenOf
<1>3. Inv => PortfolioNeverUnderstates
  OBVIOUS
<1> HIDE DEF Inv
<1> QED  BY <1>1, <1>2, <1>3, PTL DEF Spec

-----------------------------------------------------------------------------
(* The equity above the margin, scaled and divided by the size, is the move *)
(* of the price that uses it up: after such a move against the position the *)
(* loss leaves at most a unit of price and one of value of it.              *)
LEMMA MoveUsesEquity ==
    ASSUME NEW w \in Nat \ {0}, NEW size \in Nat \ {0}, NEW excess \in Nat,
           NEW d \in Int, d <= -((excess * w) \div size)
    PROVE  d * size <= 0 /\ excess - ((-(d * size)) \div w) <= (size \div w) + 1
<1> DEFINE move == (excess * w) \div size
           loss == -(d * size)
           units == size \div w
           lost == loss \div w
<1>1. excess * w \in Nat
  OBVIOUS
<1>2. move \in Nat /\ excess * w < size * move + size
  BY <1>1, DivBounds
<1> HIDE DEF move
<1>3. d * size <= (-move) * size
  <2>1. d <= -move
    BY DEF move
  <2> QED  BY <1>2, <2>1, ProductOrder
<1>4. (-move) * size = -(size * move) /\ size * move \in Nat /\ d * size \in Int
  BY <1>2
<1>5. loss \in Nat /\ excess * w < loss + size
  BY <1>2, <1>3, <1>4
<1> HIDE DEF loss
<1>6. lost \in Nat /\ loss < w * lost + w
  BY <1>5, DivBounds
<1>7. units \in Nat /\ size < w * units + w
  BY DivBounds
<1> HIDE DEF lost, units
<1>8. w * excess < w * lost + w + w * units + w
  <2>1. w * excess = excess * w /\ w * lost \in Nat /\ w * units \in Nat
    BY <1>6, <1>7
  <2> QED  BY <1>1, <1>5, <1>6, <1>7, <2>1
<1>9. w * excess < w * (lost + units + 2)
  <2>1. w * (lost + units + 2) = w * lost + w + w * units + w
    BY <1>6, <1>7
  <2> QED  BY <1>8, <2>1
<1>10. excess < lost + units + 2
  BY <1>6, <1>7, <1>9, ProductCancel
<1>11. excess - lost <= units + 1
  BY <1>6, <1>7, <1>10
<1> QED  BY <1>3, <1>4, <1>2, <1>11 DEF lost, units, loss

(* Where a stored liquidation price comes from: it lies where the move that *)
(* uses up the equity above a margin of a configured rate takes the price.  *)
Move(pos, margin) == ((pos.collateral - margin) * WAD) \div pos.size

SetAt(pos, margin) ==
    pos.liquidationPrice \in 2..(MaxUint - 1) =>
      /\ pos.size > 0 /\ pos.collateral > margin
      /\ pos.side = "LONG" => pos.liquidationPrice <= pos.entryPrice - Move(pos, margin)
      /\ pos.side = "SHORT" => pos.liquidationPrice >= pos.entryPrice + Move(pos, margin)

PriceDerived(pos) ==
    \E c \in RiskConfigs : SetAt(pos, MarginAt(c.maintenanceMarginBps, pos.size, pos.entryPrice))

(* And a stored mark: profit and mark were taken at the same price.         *)
MarkDerived(pos) ==
    pos.isLiquidatable =>
      \E price \in Nat : pos.unrealizedPnL = UnrealizedPnL(pos, price) /\ PriceReached(pos, price)

Solvency(pos) ==
    pos.isLiquidatable /\ pos.liquidationPrice \in 2..(MaxUint - 1) =>
      \E c \in RiskConfigs :
         pos.collateral + pos.unrealizedPnL
           <= MarginAt(c.maintenanceMarginBps, pos.size, pos.entryPrice)
              + (pos.size \div WAD) + 1

LEMMA ConfigMarginType ==
    ASSUME NEW c \in RiskConfigs, NEW size \in Nat, NEW entryPrice \in Nat
    PROVE  MarginAt(c.maintenanceMarginBps, size, entryPrice) \in Nat
<1>1. size * entryPrice \in Nat
  OBVIOUS
<1>2. Notional(size, entryPrice) \in Nat /\ c.maintenanceMarginBps \in Nat
  BY <1>1, DivTypes, UnitsAssumption, ConfigsAssumption DEF Notional
<1>3. Notional(size, entryPrice) * c.maintenanceMarginBps \in Nat
  BY <1>2
<1> QED  BY <1>3 DEF MarginAt

LEMMA DerivedIsSolvent ==
    ASSUME NEW pos \in PositionData, PriceDerived(pos), MarkDerived(pos)
    PROVE  Solvency(pos)
<1> SUFFICES ASSUME pos.isLiquidatable, pos.liquidationPrice \in 2..(MaxUint - 1)
             PROVE  \E c \in RiskConfigs :
                       pos.collateral + pos.unrealizedPnL
                         <= MarginAt(c.maintenanceMarginBps, pos.size, pos.entryPrice)
                            + (pos.size \div WAD) + 1
  BY DEF Solvency
<1>1. PICK c \in RiskConfigs :
         SetAt(pos, MarginAt(c.maintenanceMarginBps, pos.size, pos.entryPrice))
  BY DEF PriceDerived
<1>2. PICK price \in Nat :
         pos.unrealizedPnL = UnrealizedPnL(pos, price) /\ PriceReached(pos, price)
  BY DEF MarkDerived
<1> DEFINE margin == MarginAt(c.maintenanceMarginBps, pos.size, pos.entryPrice)
           d == IF pos.side = "LONG" THEN price - pos.entryPrice ELSE pos.entryPrice - price
           excess == pos.collateral - margin
           loss == -(d * pos.size)
<1>3. /\ pos.side \in Sides /\ pos.size \in Nat /\ pos.collateral \in Nat
      /\ pos.entryPrice \in Nat /\ pos.liquidationPrice \in Nat
  BY DEF PositionData
<1>4. margin \in Nat
  BY <1>3, ConfigMarginType
<1>5. /\ pos.size > 0 /\ pos.collateral > margin
      /\ pos.side = "LONG" => pos.liquidationPrice <= pos.entryPrice - Move(pos, margin)
      /\ pos.side = "SHORT" => pos.liquidationPrice >= pos.entryPrice + Move(pos, margin)
  BY <1>1 DEF SetAt
<1> HIDE DEF margin
<1>6. excess \in Nat /\ Move(pos, margin) = (excess * WAD) \div pos.size
  BY <1>3, <1>4, <1>5 DEF Move
<1>7. Move(pos, margin) \in Nat
  <2>1. excess * WAD \in Nat
    BY <1>6, UnitsAssumption
  <2> QED  BY <1>3, <1>5, <1>6, <2>1, DivTypes
<1>8. d \in Int /\ d <= -Move(pos, margin)
  <2>1. CASE pos.side = "LONG"
    BY <1>2, <1>3, <1>5, <1>7, <2>1 DEF PriceReached
  <2>2. CASE pos.side # "LONG"
    BY <1>2, <1>3, <1>5, <1>7, <2>2 DEF PriceReached, Sides
  <2> QED  BY <2>1, <2>2
<1>9. pos.unrealizedPnL = SignedDiv(d * pos.size, WAD)
  BY <1>2 DEF UnrealizedPnL
<1> HIDE DEF d, excess
<1>10. d * pos.size <= 0 /\ excess - (loss \div WAD) <= (pos.size \div WAD) + 1
  <2>1. pos.size \in Nat \ {0} /\ WAD \in Nat \ {0}
    BY <1>3, <1>5, UnitsAssumption
  <2> QED  BY <1>6, <1>8, <2>1, MoveUsesEquity
<1>11. d * pos.size \in Int
  BY <1>3, <1>8
<1>12. SignedDiv(d * pos.size, WAD) = -(loss \div WAD) /\ loss \div WAD \in Nat
  <2> DEFINE a == d * pos.size
  <2>1. a \in Int /\ a <= 0
    BY <1>10, <1>11
  <2> HIDE DEF a
  <2>2. SignedDiv(a, WAD) = -((-a) \div WAD) /\ (-a) \div WAD \in Nat
    <3>1. (-a) \div WAD \in Nat
      BY <2>1, DivTypes, UnitsAssumption
    <3>2. CASE a = 0
      <4>1. 0 \div WAD = 0
        BY UnitsAssumption
      <4> QED  BY <3>2, <4>1 DEF SignedDiv
    <3>3. CASE a # 0
      BY <2>1, <3>1, <3>3 DEF SignedDiv
    <3> QED  BY <3>1, <3>2, <3>3
  <2> QED  BY <2>2 DEF a
<1> HIDE DEF loss
<1>13. pos.collateral + pos.unrealizedPnL = margin + (excess - (loss \div WAD))
  BY <1>3, <1>4, <1>9, <1>12 DEF excess
<1>14. pos.size \div WAD \in Nat /\ excess \in Nat /\ loss \div WAD \in Nat
  BY <1>3, <1>6, <1>12, DivTypes, UnitsAssumption
<1>15. pos.collateral + pos.unrealizedPnL <= margin + (pos.size \div WAD) + 1
  BY <1>4, <1>10, <1>13, <1>14
<1> QED  BY <1>15 DEF margin

(* What resizes and marks write is so derived.                              *)
ActiveRates ==
    \A m \in Markets : marketRiskConfigs[m].isActive =>
        /\ marketRiskConfigs[m].maintenanceMarginBps > 0
        /\ \E c \in RiskConfigs : c.maintenanceMarginBps = marketRiskConfigs[m].maintenanceMarginBps

LEMMA LiquidationPriceDerived ==
    ASSUME CoreTypeOK, ActiveRates, NEW m \in Markets, marketRiskConfigs[m].isActive,
           NEW pos \in PositionData,
           pos.liquidationPrice =
             LiquidationPrice(m, pos.side, pos.entryPrice, pos.collateral, pos.size)
    PROVE  PriceDerived(pos)
<1>1. PICK c \in RiskConfigs : c.maintenanceMarginBps = MaintenanceBps(m)
  BY DEF ActiveRates, MaintenanceBps
<1> DEFINE margin == MaintenanceMargin(m, pos.size, pos.entryPrice)
<1>2. margin = MarginAt(c.maintenanceMarginBps, pos.size, pos.entryPrice)
  BY <1>1 DEF MaintenanceMargin
<1>3. /\ pos.side \in Sides /\ pos.size \in Nat /\ pos.collateral \in Nat
      /\ pos.entryPrice \in Nat
  BY DEF PositionData
<1>4. margin \in Nat
  BY <1>3, MarginType
<1> HIDE DEF margin
<1>5. SetAt(pos, margin)
  <2> SUFFICES ASSUME pos.liquidationPrice \in 2..(MaxUint - 1)
               PROVE  /\ pos.size > 0 /\ pos.collateral > margin
                      /\ pos.side = "LONG" => pos.liquidationPrice <= pos.entryPrice - Move(pos, margin)
                      /\ pos.side = "SHORT" => pos.liquidationPrice >= pos.entryPrice + Move(pos, margin)
    BY DEF SetAt
  <2> DEFINE move == Move(pos, margin)
  <2>1. pos.liquidationPrice # 0 /\ pos.liquidationPrice # 1 /\ pos.liquidationPrice # MaxUint
    BY UnitsAssumption
  <2>2. pos.liquidationPrice =
          IF pos.size = 0 \/ pos.collateral <= margin
          THEN IF pos.side = "LONG" THEN 0 ELSE MaxUint
          ELSE IF pos.side = "LONG"
          THEN IF move >= pos.entryPrice THEN 1 ELSE pos.entryPrice - move
          ELSE IF move > MaxUint - pos.entryPrice THEN MaxUint ELSE pos.entryPrice + move
    BY DEF LiquidationPrice, Move, margin
  <2>3. pos.size # 0 /\ ~(pos.collateral <= margin)
    BY <2>1, <2>2
  <2>4. move \in Nat
    <3>1. (pos.collateral - margin) * WAD \in Nat
      BY <1>3, <1>4, <2>3, UnitsAssumption
    <3> QED  BY <1>3, <2>3, <3>1, DivTypes DEF Move
  <2> HIDE DEF move
  <2>5. pos.liquidationPrice = IF pos.side = "LONG" THEN pos.entryPrice - move ELSE pos.entryPrice + move
    BY <2>1, <2>2, <2>3
  <2> QED  BY <1>3, <1>4, <2>3, <2>4, <2>5 DEF move
<1> QED  BY <1>2, <1>5 DEF PriceDerived

LEMMA MarkedIsDerived ==
    ASSUME NEW pos \in PositionData, PriceDerived(pos), NEW price \in Nat
    PROVE  PriceDerived(Marked(pos, price)) /\ MarkDerived(Marked(pos, price))
<1> DEFINE rec == Marked(pos, price)
<1>1. /\ rec.side = pos.side /\ rec.size = pos.size /\ rec.collateral = pos.collateral
      /\ rec.entryPrice = pos.entryPrice /\ rec.liquidationPrice = pos.liquidationPrice
      /\ rec.unrealizedPnL = UnrealizedPnL(pos, price)
      /\ rec.isLiquidatable = PriceReached(pos, price)
  BY Zenon DEF Marked, PositionData
<1> HIDE DEF rec
<1>2. PriceDerived(rec)
  BY <1>1 DEF PriceDerived, SetAt, Move
<1>3. UnrealizedPnL(rec, price) = UnrealizedPnL(pos, price)
      /\ (PriceReached(rec, price) <=> PriceReached(pos, price))
  BY <1>1 DEF UnrealizedPnL, PriceReached
<1>4. MarkDerived(rec)
  BY <1>1, <1>3 DEF MarkDerived
<1> QED  BY <1>2, <1>4 DEF rec

RatesInv ==
    /\ LedgerInv /\ ActiveRates
    /\ \A id \in OpenIds :
          /\ marketRiskConfigs[positions[id].marketId].isActive
          /\ PriceDerived(positions[id]) /\ MarkDerived(positions[id])

(* The record one step writes is derived, the others are left.              *)
LEMMA RatesKept ==
    ASSUME RatesInv, LedgerInv', UNCHANGED marketRiskConfigs, NEW id \in PositionIds, NEW rec,
           positions' = [positions EXCEPT ![id] = rec],
           rec.opened => /\ marketRiskConfigs[rec.marketId].isActive
                         /\ PriceDerived(rec) /\ MarkDerived(rec)
    PROVE  RatesInv'
<1>1. positions \in [PositionIds -> PositionData]
  BY DEF RatesInv, LedgerInv, CoreTypeOK, LedgerTypeOK
<1>2. \A i \in OpenIds' : IF i = id THEN positions'[i] = rec /\ rec.opened
                                    ELSE positions'[i] = positions[i] /\ i \in OpenIds
  BY <1>1 DEF OpenIds, IsOpen
<1>3. ASSUME NEW i \in OpenIds'
      PROVE  /\ marketRiskConfigs[positions'[i].marketId].isActive
             /\ PriceDerived(positions'[i]) /\ MarkDerived(positions'[i])
  <2>1. CASE i = id
    BY <1>2, <2>1
  <2>2. CASE i # id
    BY <1>2, <2>2 DEF RatesInv
  <2> QED  BY <2>1, <2>2
<1>4. ActiveRates'
  BY DEF RatesInv, ActiveRates
<1>5. \A pos : (PriceDerived(pos) => PriceDerived(pos)') /\ (MarkDerived(pos) => MarkDerived(pos)')
  BY DEF PriceDerived, SetAt, Move, MarginAt, MarkDerived
<1> QED  BY <1>3, <1>4 DEF RatesInv, PriceDerived, SetAt, Move, MarginAt, MarkDerived

LEMMA AdminKeepsRates ==
    ASSUME RatesInv, LedgerInv', AdminStep
    PROVE  RatesInv'
<1>1. UNCHANGED positions
  BY DEF AdminStep, setMarketRiskConfig, setTradingEngine, setLiquidationEngine, ledgerVars
<1>2. ASSUME NEW m \in Markets, NEW c \in RiskConfigs, setMarketRiskConfig(m, c)
      PROVE  /\ ActiveRates'
             /\ \A k \in Markets : marketRiskConfigs[k].isActive => marketRiskConfigs'[k].isActive
  <2> DEFINE config == [maintenanceMarginBps |-> c.maintenanceMarginBps,
                        initialMarginBps |-> c.initialMarginBps,
                        maxLeverage |-> c.maxLeverage, isActive |-> TRUE]
  <2>1. marketRiskConfigs' = [marketRiskConfigs EXCEPT ![m] = config] /\ c.maintenanceMarginBps > 0
    BY <1>2 DEF setMarketRiskConfig, ValidRiskConfig
  <2>2. config.isActive /\ config.maintenanceMarginBps = c.maintenanceMarginBps
    OBVIOUS
  <2>3. marketRiskConfigs \in [Markets -> MarketRiskConfig]
    BY DEF RatesInv, LedgerInv, CoreTypeOK, LedgerTypeOK
  <2> HIDE DEF config
  <2> QED  BY <2>1, <2>2, <2>3 DEF RatesInv, ActiveRates
<1>3. UNCHANGED marketRiskConfigs
      \/ /\ ActiveRates'
         /\ \A k \in Markets : marketRiskConfigs[k].isActive => marketRiskConfigs'[k].isActive
  BY <1>2 DEF AdminStep, setTradingEngine, setLiquidationEngine
<1>4. \A id \in OpenIds : positions[id].marketId \in Markets
  BY DEF RatesInv, LedgerInv, OpenNamed
<1>5. ActiveRates' /\ \A id \in OpenIds : marketRiskConfigs'[positions[id].marketId].isActive
  BY <1>3, <1>4 DEF RatesInv, ActiveRates
<1> QED  BY <1>1, <1>5 DEF RatesInv, OpenIds, IsOpen, PriceDerived, SetAt, Move, MarginAt, MarkDerived

LEMMA OpenKeepsRates ==
    ASSUME RatesInv, LedgerInv', OpenStep
    PROVE  RatesInv'
<1>1. PICK t \in Traders, m \in Markets, side \in Sides, size \in OpenSizes,
           collateral \in OpenCollaterals, price \in OpenPrices, leverage \in Leverages :
              openPosition(t, m, side, size, collateral, price, leverage)
  BY DEF OpenStep
<1> DEFINE rec == NewPosition(t, m, side, size, collateral, price, leverage)
<1>2. PICK id \in PositionIds : positions' = [positions EXCEPT ![id] = rec]
  BY <1>1 DEF openPosition
<1>3. marketRiskConfigs[m].isActive /\ UNCHANGED marketRiskConfigs
  BY <1>1 DEF openPosition, adminVars
<1>4. rec \in PositionData
  BY NewPositionType, UnitsAssumption DEF RatesInv, LedgerInv
<1>5. /\ rec.marketId = m /\ rec.side = side /\ rec.size = size /\ rec.collateral = collateral
      /\ rec.entryPrice = price /\ rec.isLiquidatable = FALSE
      /\ rec.liquidationPrice = LiquidationPrice(m, side, price, collateral, size)
  BY Zenon DEF NewPosition
<1> HIDE DEF rec
<1>6. PriceDerived(rec)
  BY <1>3, <1>4, <1>5, LiquidationPriceDerived DEF RatesInv, LedgerInv
<1>7. MarkDerived(rec)
  BY <1>5 DEF MarkDerived
<1> QED  BY <1>2, <1>3, <1>5, <1>6, <1>7, RatesKept

LEMMA MarkKeepsRates ==
    ASSUME RatesInv, LedgerInv', UNCHANGED marketRiskConfigs, NEW id \in PositionIds, IsOpen(id),
           NEW pos \in PositionData, pos.marketId = positions[id].marketId, PriceDerived(pos),
           NEW price \in Prices, MarkPosition(id, pos, price)
    PROVE  RatesInv'
<1> DEFINE rec == Marked(pos, price)
<1>1. positions' = [positions EXCEPT ![id] = rec]
  BY DEF MarkPosition
<1>2. PriceDerived(rec) /\ MarkDerived(rec)
  BY MarkedIsDerived, UnitsAssumption
<1>3. rec.marketId = pos.marketId
  BY Zenon DEF Marked, PositionData
<1>4. marketRiskConfigs[positions[id].marketId].isActive
  BY DEF RatesInv, OpenIds
<1> HIDE DEF rec
<1> QED  BY <1>1, <1>2, <1>3, <1>4, RatesKept

LEMMA ModifyKeepsRates ==
    ASSUME RatesInv, LedgerInv', ModifyStep
    PROVE  RatesInv'
<1>1. PICK id \in PositionIds, ds \in SizeDeltas, dc \in CollateralDeltas, price \in Prices :
              modifyPosition(id, ds, dc, price)
  BY DEF ModifyStep
<1> DEFINE old == positions[id]
           pos == Resized(old, ds, dc)
<1>2. /\ IsOpen(id) /\ WithinHoldings(old, ds, dc) /\ MarkPosition(id, pos, price)
      /\ UNCHANGED marketRiskConfigs
  BY <1>1 DEF modifyPosition, adminVars
<1>3. /\ old \in PositionData /\ old.marketId \in Markets /\ CoreTypeOK /\ ActiveRates
      /\ marketRiskConfigs[old.marketId].isActive
  BY <1>2 DEF RatesInv, LedgerInv, OpenNamed, OpenIds, CoreTypeOK, LedgerTypeOK
<1>4. pos \in PositionData
  BY <1>2, <1>3, ResizedType, UnitsAssumption
<1>5. /\ pos.marketId = old.marketId /\ pos.side = old.side /\ pos.entryPrice = old.entryPrice
      /\ pos.size = old.size + ds /\ pos.collateral = old.collateral + dc
      /\ pos.liquidationPrice =
           LiquidationPrice(old.marketId, old.side, old.entryPrice, old.collateral + dc, old.size + ds)
  BY <1>3, Zenon DEF Resized, PositionData
<1> HIDE DEF pos
<1>6. PriceDerived(pos)
  BY <1>3, <1>4, <1>5, LiquidationPriceDerived
<1> QED  BY <1>2, <1>4, <1>5, <1>6, MarkKeepsRates

LEMMA RatesInvInductive == RatesInv /\ [Next]_vars => RatesInv'
<1> SUFFICES ASSUME RatesInv, [Next]_vars PROVE RatesInv'
  OBVIOUS
<1>1. LedgerInv /\ LedgerInv'
  BY LedgerInvInductive DEF RatesInv
<1>2. CASE AdminStep
  BY <1>1, <1>2, AdminKeepsRates
<1>3. CASE OpenStep
  BY <1>1, <1>3, OpenKeepsRates
<1>4. CASE ModifyStep
  BY <1>1, <1>4, ModifyKeepsRates
<1>5. CASE MarkStep
  <2>1. PICK id \in PositionIds, price \in Prices : updatePositionState(id, price)
    BY <1>5 DEF MarkStep
  <2>2. /\ IsOpen(id) /\ MarkPosition(id, positions[id], price) /\ UNCHANGED marketRiskConfigs
    BY <2>1 DEF updatePositionState, adminVars
  <2>3. positions[id] \in PositionData /\ PriceDerived(positions[id])
    BY <1>1, <2>2 DEF RatesInv, OpenIds, LedgerInv, CoreTypeOK, LedgerTypeOK
  <2> QED  BY <1>1, <2>2, <2>3, MarkKeepsRates
<1>6. ASSUME NEW id \in PositionIds, CloseBody(id) PROVE RatesInv'
  <2>1. positions' = [positions EXCEPT ![id] = ZeroPosition] /\ UNCHANGED marketRiskConfigs
    BY <1>6, CloseEffect DEF adminVars
  <2>2. ~ZeroPosition.opened
    BY DEF ZeroPosition
  <2> QED  BY <1>1, <2>1, <2>2, RatesKept
<1>7. CASE GuardianStep \/ UNCHANGED vars
  <2>1. UNCHANGED <<positions, marketRiskConfigs>>
    BY <1>7 DEF GuardianStep, vars, ledgerVars, adminVars
  <2> QED  BY <1>1, <2>1
           DEF RatesInv, ActiveRates, OpenIds, IsOpen, PriceDerived, SetAt, Move, MarginAt, MarkDerived
<1> QED  BY <1>2, <1>3, <1>4, <1>5, <1>6, <1>7
         DEF Next, CloseStep, ForceCloseStep, closePosition, forceClosePosition

(* A position marked for liquidation has used up its equity down to a       *)
(* configured maintenance margin and the rounding, at any scale of prices   *)
(* and sizes, through resizes, re-marks and changes of the rate.            *)
THEOREM NobodySolventIsLiquidatable == Spec => []NoSolventLiquidation
<1>1. Init => RatesInv
  <2> SUFFICES ASSUME Init PROVE RatesInv
    OBVIOUS
  <2>1. OpenIds = {}
    BY DEF Init, OpenIds, IsOpen, ZeroPosition
  <2>2. ActiveRates
    BY DEF Init, ActiveRates, UnconfiguredMarket
  <2> QED  BY <2>1, <2>2, LedgerInvInit DEF RatesInv
<1>2. RatesInv => NoSolventLiquidation
  <2> SUFFICES ASSUME RatesInv, NEW id \in OpenIds PROVE Solvency(positions[id])
    BY DEF NoSolventLiquidation, Solvency
  <2>1. positions[id] \in PositionData /\ PriceDerived(positions[id]) /\ MarkDerived(positions[id])
    BY DEF RatesInv, OpenIds, LedgerInv, CoreTypeOK, LedgerTypeOK
  <2> QED  BY <2>1, DerivedIsSolvent
<1> QED  BY <1>1, <1>2, RatesInvInductive, PTL DEF Spec

=============================================================================
