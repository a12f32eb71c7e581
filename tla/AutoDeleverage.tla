----------------------------- MODULE AutoDeleverage -----------------------------
(***************************************************************************)
(* core/trading/engines/AutoDeleverageEngine.sol composed with the          *)
(* PositionManager it is wired to: the liquidation engine's executeADL,     *)
(* which walks the opposing queue while each forced close calls back into   *)
(* removeFromADLQueue and shifts the very array being walked, and the       *)
(* admin's configureADL and toggleADL.                                      *)
(***************************************************************************)
EXTENDS PositionManager

CONSTANTS
    ADLLimits,          \* arguments of configureADL: maxPositionsPerADL
    CloseSizes,         \* arguments of executeADL: sizeToClose
    MaxADLEvents        \* bound: executions per market

ASSUME EngineAssumption ==
    ADLLimits \subseteq Nat /\ CloseSizes \subseteq Nat /\ MaxADLEvents \in Nat

VARIABLES
    adlConfigs,         \* [market -> isEnabled, maxPositionsPerADL]
    totalADLEvents,     \* [market -> executions so far]
    lastExecution       \* the newest ADLExecution record

engineVars == <<adlConfigs, totalADLEvents, lastExecution>>
allVars == <<vars, engineVars>>

ADLConfig == [isEnabled : BOOLEAN, maxPositionsPerADL : Nat]

NoExecution == [marketId |-> NoAddress, deleveragedPositions |-> << >>, totalSizeClosed |-> 0]

EngineTypeOK ==
    /\ adlConfigs \in [Markets -> ADLConfig]
    /\ totalADLEvents \in [Markets -> 0..MaxADLEvents]
    /\ lastExecution \in [marketId : Markets \cup {NoAddress},
                          deleveragedPositions : Seq(PositionIds), totalSizeClosed : Nat]

Opposing(side) == IF side = "LONG" THEN "SHORT" ELSE "LONG"

-----------------------------------------------------------------------------
(* The walk of executeADL, as a state carried from one turn of the loop to  *)
(* the next: ledger and queue as they are by then, the loop index, the      *)
(* running total, the ids closed; ok turns FALSE when a call reverts.       *)
WalkStart(m, side) ==
    [ledger |-> Ledger, queue |-> adlQueues[m][side], indices |-> queueIndices,
     i |-> 1, total |-> 0, closed |-> << >>, ok |-> TRUE]

(* Slip: the loop does not stop at maxPositionsPerADL.                      *)
MutIgnoresLimit(w, sizeToClose, limit) ==
    w.ok /\ w.i <= Len(w.queue) /\ w.total < sizeToClose

WalkGoesOn(w, sizeToClose, limit) ==
    /\ w.ok
    /\ w.i <= Len(w.queue)
    /\ w.total < sizeToClose
    /\ Len(w.closed) < limit

(* Slip: the size still wanted is not capped by the position's own.         *)
MutCountsWanted(w, id, sizeToClose) == sizeToClose - w.total

(* The part of the wanted size this candidate is counted for.               *)
CountedSize(w, id, sizeToClose) ==
    LET wanted == sizeToClose - w.total
        held   == w.ledger.positions[id].size
    IN  IF wanted > held THEN held ELSE wanted

(* The conditions under which _forceClosePosition and the callback pass.    *)
ForceCloseGoesThrough(w, m, id, counted) ==
    /\ counted > 0
    /\ whenNotEmergencyPaused("POSITION_MANAGER") /\ whenGlobalCircuitActivated
    /\ w.ledger.positions[id].opened
    /\ OpenInterestCovers(w.ledger, id)
    /\ w.ledger.positions[id].inADLQueue => AdlGatesOpen(m)

(* One turn: the whole position is closed; if it is flagged, the callback   *)
(* takes an entry out of the queue at the position's recorded index.        *)
WalkTurn(w, m, sizeToClose) ==
    LET id      == w.queue[w.i].positionId
        counted == CountedSize(w, id, sizeToClose)
        calls   == w.ledger.positions[id].inADLQueue /\ w.indices[id] > 0
    IN  IF ~ForceCloseGoesThrough(w, m, id, counted) THEN [w EXCEPT !.ok = FALSE]
        ELSE [w EXCEPT !.ledger  = AfterClose(@, id),
                       !.queue   = IF calls THEN WithoutEntry(@, w.indices[id]) ELSE @,
                       !.indices = IF calls THEN [@ EXCEPT ![id] = 0] ELSE @,
                       !.i       = @ + 1,
                       !.total   = @ + counted,
                       !.closed  = Append(@, id)]

Walk(m, side, sizeToClose, limit) ==
    LET after[k \in 0..Len(adlQueues[m][side])] ==
            IF k = 0 THEN WalkStart(m, side)
            ELSE IF WalkGoesOn(after[k - 1], sizeToClose, limit)
                 THEN WalkTurn(after[k - 1], m, sizeToClose) ELSE after[k - 1]
    IN  after[Len(adlQueues[m][side])]

(* _removeFromQueue: count entries go from the head, with the indices of    *)
(* whatever positions they name.                                            *)
RemovedFromHead(q, count) == IF count < Len(q) THEN count ELSE Len(q)

AfterHeadRemoval(q, count) == SubSeq(q, RemovedFromHead(q, count) + 1, Len(q))

(* Slip: _removeFromQueue is passed the liquidated position's side.         *)
MutTrimsOtherQueue(m, side, q, count) ==
    [adlQueues EXCEPT ![m] = [s \in Sides |-> IF s = side THEN q ELSE AfterHeadRemoval(@[s], count)]]

(* The walked queue as the callbacks left it, less its first count entries. *)
QueuesAfterADL(m, side, q, count) ==
    [adlQueues EXCEPT ![m][side] = AfterHeadRemoval(q, count)]

IndicesAfterHeadRemoval(indices, q, count) ==
    [id \in PositionIds |->
        IF \E k \in 1..RemovedFromHead(q, count) : q[k].positionId = id THEN 0 ELSE indices[id]]

executeADL(m, side, sizeToClose) ==
    LET opposing == Opposing(side)
        w        == Walk(m, opposing, sizeToClose, adlConfigs[m].maxPositionsPerADL)
        count    == Len(w.closed)
    IN  /\ whenNotEmergencyPaused("ADL_ENGINE")
        /\ adlConfigs[m].isEnabled
        /\ adlQueues[m][opposing] # << >>
        /\ totalADLEvents[m] < MaxADLEvents
        /\ w.ok
        /\ SetLedger(w.ledger)
        /\ adlQueues' = QueuesAfterADL(m, opposing, w.queue, count)
        /\ queueIndices' = IndicesAfterHeadRemoval(w.indices, w.queue, count)
        /\ lastExecution' = [marketId |-> m, deleveragedPositions |-> w.closed,
                             totalSizeClosed |-> w.total]
        /\ totalADLEvents' = [totalADLEvents EXCEPT ![m] = @ + 1]
        /\ UNCHANGED <<adminVars, adlConfigs>>

configureADL(m, limit) ==
    /\ adlConfigs' = [adlConfigs EXCEPT ![m] = [isEnabled |-> TRUE, maxPositionsPerADL |-> limit]]
    /\ UNCHANGED <<ledgerVars, adminVars, adlVars, totalADLEvents, lastExecution>>

toggleADL(m) ==
    /\ whenNotEmergencyPaused("ADL_ENGINE")
    /\ adlConfigs' = [adlConfigs EXCEPT ![m].isEnabled = ~@]
    /\ UNCHANGED <<ledgerVars, adminVars, adlVars, totalADLEvents, lastExecution>>

-----------------------------------------------------------------------------
AdlInit ==
    /\ Init
    /\ adlConfigs = [m \in Markets |-> [isEnabled |-> FALSE, maxPositionsPerADL |-> 0]]
    /\ totalADLEvents = [m \in Markets |-> 0]
    /\ lastExecution = NoExecution

AdlStep ==
    \/ \E m \in Markets, side \in Sides, size \in CloseSizes : executeADL(m, side, size)
    \/ \E m \in Markets, limit \in ADLLimits : configureADL(m, limit)
    \/ \E m \in Markets : toggleADL(m)

AdlNext ==
    \/ Next /\ UNCHANGED engineVars
    \/ AdlStep

AdlSpec == AdlInit /\ [][AdlNext]_allVars

-----------------------------------------------------------------------------
(* PROPERTIES                                                               *)

(* Every variable of the composition has its type.                          *)
AdlTypeOK == CoreTypeOK /\ EngineTypeOK

(* The walk's forced closes, which delete records and count interest while  *)
(* the queue shifts under it, leave the ledger as a trader's closes do: no  *)
(* counter below zero, open interest the sum of the open positions' sizes,  *)
(* the lists without a closed position.                                     *)
AdlLedgerOK == AdlTypeOK /\ OpenInterestExact /\ ListsExact

(* A step that raises totalADLEvents is an execution; the ids it closed are *)
(* those open before it and deleted after it.                               *)
Executed(m) == totalADLEvents'[m] # totalADLEvents[m]
ClosedIds == { id \in OpenIds : ~positions'[id].opened }
SizeClosed == SumFunctionOnSet([id \in PositionIds |-> positions[id].size], ClosedIds)

(* Whatever the callbacks did to the queue under the walk, an execution     *)
(* closes exactly the positions its record names, each once, all on one     *)
(* side of the market, and no more of them than the market's limit.         *)
ADLClosesWhatItRecords ==
    [][ \A m \in Markets : Executed(m) =>
            LET ids == lastExecution'.deleveragedPositions
            IN  /\ IsInjective(ids)
                /\ ToSet(ids) = ClosedIds
                /\ \E side \in Sides : ClosedIds \subseteq OpenOn(m, side)
                /\ Len(ids) <= adlConfigs[m].maxPositionsPerADL ]_allVars

(* An execution never reports more size than it took out of open interest.  *)
ReportedWithinClosed ==
    [][ \A m \in Markets : Executed(m) => lastExecution'.totalSizeClosed <= SizeClosed ]_allVars

(* The queues of the other side of the market, and of other markets, come   *)
(* through an execution as they were.                                       *)
ADLTouchesOneQueue ==
    [][ \A m \in Markets : Executed(m) =>
            \E side \in Sides : \A n \in Markets, other \in Sides :
                <<n, other>> # <<m, side>> =>
                    /\ adlQueues'[n][other] = adlQueues[n][other]
                    /\ openInterest'[n][other] = openInterest[n][other] ]_allVars

-----------------------------------------------------------------------------
(* What the source's comments say and its code does not do.                 *)

(* "Force-closes top-ranked positions until shortfall fully covered": while *)
(* a side has a flagged position with size and every gate is open, an       *)
(* enabled engine can execute against that side.                            *)
ADLAvailable ==
    \A m \in Markets, side \in Sides :
        /\ EveryGateOpen(m)
        /\ adlConfigs[m].isEnabled /\ totalADLEvents[m] < MaxADLEvents
        /\ \E id \in FlaggedOn(m, Opposing(side)) : positions[id].size > 0
        => ENABLED (\E size \in CloseSizes : executeADL(m, side, size))

=============================================================================
