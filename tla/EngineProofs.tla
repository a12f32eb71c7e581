------------------------------ MODULE EngineProofs ------------------------------
(***************************************************************************)
(* Proofs about the two contracts that work beside the ledger, each         *)
(* composed with PositionManager.                                           *)
(*                                                                         *)
(* AutoDeleverage: the walk of executeADL closes positions while its own    *)
(* callbacks shift the queue under it.  Its last state is found by          *)
(* induction over its turns (Walked says where it can be), and an execution *)
(* is judged by that state.                                                 *)
(*                                                                         *)
(* FundingRateEngine: funding leaves the ledger's behaviour alone, so that  *)
(* all that is proved of PositionManager holds with it; no time is charged  *)
(* twice, what is charged flows from the crowded side to the other, and a   *)
(* market pays out no more than it collects, but for a unit a position.     *)
(***************************************************************************)
EXTENDS AutoDeleverage, FundingRateEngine, PositionManagerProofs

-----------------------------------------------------------------------------
(* What every call keeps, the engine's executions included.  (That flags    *)
(* match indices is not among it: an execution breaks that.)                *)
AdlInv == ListsExact /\ BooksInv /\ QueueInv /\ EngineTypeOK

(* The sizes the walk starts from, and the size a set of positions has.     *)
SizeNow == [id \in PositionIds |-> positions[id].size]
HeldBy(C) == SumFunctionOnSet(SizeNow, C)

LedgerRecords ==
    [positions : [PositionIds -> PositionData], userPositions : [Accounts -> Seq(PositionIds)],
     openInterest : [Markets -> [Sides -> Nat]],
     portfolios : [Accounts -> [totalCollateral : Nat, totalUnrealizedPnL : Int,
                                positionCount : Nat]]]

(* A ledger in which the positions of C, and nothing else, have been closed.*)
LessClosed(l, C, m, side) ==
    /\ \A id \in PositionIds :
          l.positions[id] = IF id \in C THEN ZeroPosition ELSE positions[id]
    /\ \A t \in Accounts :
          /\ IsInjective(l.userPositions[t])
          /\ ToSet(l.userPositions[t]) = ToSet(userPositions[t]) \ C
    /\ \A n \in Markets, s \in Sides :
          l.openInterest[n][s] = IF n = m /\ s = side THEN HeldBy(OpenOn(m, side) \ C)
                                 ELSE openInterest[n][s]

(* Where the walk along the queue of m, side can be after any number of     *)
(* turns.                                                                   *)
WalkStates ==
    [ledger : LedgerRecords, queue : Seq(Candidates), indices : [PositionIds -> Nat],
     i : Nat \ {0}, total : Nat, closed : Seq(PositionIds), ok : BOOLEAN]

OnTheWay(w, m, side, limit) ==
    /\ IsInjective(w.closed)
    /\ ToSet(w.closed) \subseteq OpenOn(m, side)
    /\ Len(w.closed) <= limit
    /\ LessClosed(w.ledger, ToSet(w.closed), m, side)
    /\ w.total <= HeldBy(ToSet(w.closed))
    /\ EntriesFrom(w.queue, adlQueues[m][side])
    /\ DescendingByScore(w.queue)

Walked(m, side, limit) == { w \in WalkStates : OnTheWay(w, m, side, limit) }

LEMMA AdlInvParts ==
    ASSUME AdlInv
    PROVE  /\ LedgerInv /\ LedgerTypeOK /\ QueueTypeOK /\ GatesTypeOK /\ ListsExact
           /\ positions \in [PositionIds -> PositionData]
           /\ SizeNow \in [PositionIds -> Int] /\ \A id \in PositionIds : SizeNow[id] \in Nat
           /\ \A m, side : OpenOn(m, side) \subseteq PositionIds /\ IsFiniteSet(OpenOn(m, side))
<1>1. positions \in [PositionIds -> PositionData]
  BY DEF AdlInv, BooksInv, LedgerInv, CoreTypeOK, LedgerTypeOK
<1>2. SizeNow \in [PositionIds -> Int] /\ \A id \in PositionIds : SizeNow[id] \in Nat
  BY <1>1 DEF SizeNow, PositionData
<1>3. \A m, side : OpenOn(m, side) \subseteq PositionIds /\ IsFiniteSet(OpenOn(m, side))
  BY IdsAssumption, FS_Subset DEF OpenOn, OpenIds
<1> QED  BY <1>1, <1>2, <1>3 DEF AdlInv, BooksInv, LedgerInv, CoreTypeOK

LEMMA WalkStartsOnTheWay ==
    ASSUME AdlInv, NEW m \in Markets, NEW side \in Sides, NEW limit \in Nat
    PROVE  WalkStart(m, side) \in Walked(m, side, limit)
<1> DEFINE w == WalkStart(m, side)
<1>1. /\ w.ledger = Ledger /\ w.queue = adlQueues[m][side] /\ w.closed = << >> /\ w.total = 0
      /\ w = [ledger |-> Ledger, queue |-> adlQueues[m][side], indices |-> queueIndices,
              i |-> 1, total |-> 0, closed |-> << >>, ok |-> TRUE]
  BY DEF WalkStart
<1>2. /\ Ledger.positions = positions /\ Ledger.userPositions = userPositions
      /\ Ledger.openInterest = openInterest
  BY DEF Ledger
<1>3. Ledger \in LedgerRecords
  BY DEF Ledger, LedgerRecords, AdlInv, BooksInv, LedgerInv, CoreTypeOK, LedgerTypeOK, PortfoliosTypeOK
<1>4. adlQueues[m][side] \in Seq(Candidates) /\ queueIndices \in [PositionIds -> Nat]
      /\ << >> \in Seq(PositionIds)
  BY AdlInvParts DEF QueueTypeOK
<1>5. w \in WalkStates
  BY <1>1, <1>3, <1>4 DEF WalkStates
<1>6. ToSet(<< >>) = {} /\ IsInjective(<< >>) /\ Len(<< >>) = 0
  BY DEF ToSet, IsInjective
<1>7. HeldBy({}) = 0
  BY AdlInvParts, SumEmpty DEF HeldBy
<1>8. openInterest[m][side] = HeldBy(OpenOn(m, side))
  BY DEF AdlInv, BooksInv, OpenInterestExact, HeldBy, SizeNow
<1>9. LessClosed(Ledger, {}, m, side)
  BY <1>2, <1>8 DEF LessClosed, AdlInv, ListsExact
<1>10. EntriesFrom(adlQueues[m][side], adlQueues[m][side]) /\ DescendingByScore(adlQueues[m][side])
  BY DEF EntriesFrom, AdlInv, QueueInv, QueuesDescending
<1> HIDE DEF w
<1>11. ToSet(w.closed) = {} /\ IsInjective(w.closed) /\ Len(w.closed) = 0
  BY <1>1, <1>6
<1>12. w.total <= HeldBy(ToSet(w.closed))
  BY <1>1, <1>7, <1>11
<1>13. OnTheWay(w, m, side, limit)
  BY <1>1, <1>9, <1>10, <1>11, <1>12 DEF OnTheWay
<1> QED  BY <1>5, <1>13 DEF w, Walked

LEMMA AfterCloseFields ==
    ASSUME NEW l, NEW id, NEW t, NEW m, NEW side,
           l.positions \in [PositionIds -> PositionData], id \in PositionIds,
           l.positions[id].trader = t, l.positions[id].marketId = m, l.positions[id].side = side
    PROVE  LET r == AfterClose(l, id)
           IN  /\ r.positions = [l.positions EXCEPT ![id] = ZeroPosition]
               /\ r.userPositions = [l.userPositions EXCEPT ![t] = WithoutUserPosition(@, id)]
               /\ r.openInterest =
                     [l.openInterest EXCEPT ![m][side] = @ - l.positions[id].size]
               /\ r.portfolios = [l.portfolios EXCEPT ![NoAddress] =
                                     PortfolioOf(r.positions, r.userPositions[NoAddress])]
               /\ r = [positions |-> r.positions, userPositions |-> r.userPositions,
                       openInterest |-> r.openInterest, portfolios |-> r.portfolios]
<1>1. [l.positions EXCEPT ![id] = ZeroPosition][id].trader = NoAddress
  BY DEF ZeroPosition
<1> QED  BY <1>1 DEF AfterClose

(* Closing one more position of the walked side.                            *)
LEMMA OneMoreClosed ==
    ASSUME AdlInv, NEW m \in Markets, NEW side \in Sides,
           NEW l \in LedgerRecords, NEW C \in SUBSET OpenOn(m, side), LessClosed(l, C, m, side),
           NEW id \in OpenOn(m, side) \ C
    PROVE  /\ AfterClose(l, id) \in LedgerRecords
           /\ LessClosed(AfterClose(l, id), C \cup {id}, m, side)
<1> DEFINE pos == positions[id]
           r == AfterClose(l, id)
           t == pos.trader
<1>1. /\ l.positions \in [PositionIds -> PositionData] /\ id \in PositionIds /\ id \in OpenIds
      /\ l.positions[id] = pos /\ pos.marketId = m /\ pos.side = side
      /\ t \in Traders /\ t \in Accounts /\ pos.size = SizeNow[id]
  BY AdlInvParts DEF LessClosed, LedgerRecords, OpenOn, OpenIds, OpenNamed, AdlInv, BooksInv,
     LedgerInv, Accounts, SizeNow
<1>2. /\ r.positions = [l.positions EXCEPT ![id] = ZeroPosition]
      /\ r.userPositions = [l.userPositions EXCEPT ![t] = WithoutUserPosition(@, id)]
      /\ r.openInterest = [l.openInterest EXCEPT ![m][side] = @ - l.positions[id].size]
      /\ r.portfolios = [l.portfolios EXCEPT ![NoAddress] =
                            PortfolioOf(r.positions, r.userPositions[NoAddress])]
      /\ r = [positions |-> r.positions, userPositions |-> r.userPositions,
              openInterest |-> r.openInterest, portfolios |-> r.portfolios]
  BY <1>1, AfterCloseFields
<1> HIDE DEF r, pos
<1>3. \A i \in PositionIds :
         r.positions[i] = IF i \in C \cup {id} THEN ZeroPosition ELSE positions[i]
  BY <1>1, <1>2 DEF LessClosed
<1>4. r.positions \in [PositionIds -> PositionData]
  BY <1>1, <1>2, ZeroPositionType
<1>5. /\ l.userPositions \in [Accounts -> Seq(PositionIds)]
      /\ r.userPositions \in [Accounts -> Seq(PositionIds)]
  <2>1. l.userPositions \in [Accounts -> Seq(PositionIds)]
    BY DEF LedgerRecords
  <2>2. WithoutUserPosition(l.userPositions[t], id) \in Seq(PositionIds)
    BY <1>1, <2>1, WithoutUserPositionType
  <2> QED  BY <1>2, <2>1, <2>2
<1>6. ASSUME NEW a \in Accounts
      PROVE  /\ IsInjective(r.userPositions[a])
             /\ ToSet(r.userPositions[a]) = ToSet(userPositions[a]) \ (C \cup {id})
  <2>1. /\ IsInjective(l.userPositions[a])
        /\ ToSet(l.userPositions[a]) = ToSet(userPositions[a]) \ C
        /\ ToSet(userPositions[a]) = { i \in OpenIds : positions[i].trader = a }
    BY AdlInvParts DEF LessClosed, ListsExact
  <2>2. CASE a = t
    <3>1. id \in ToSet(l.userPositions[t])
      BY <1>1, <2>1, <2>2 DEF pos
    <3>2. r.userPositions[t] = WithoutUserPosition(l.userPositions[t], id)
      BY <1>1, <1>2, <1>5
    <3>3. l.userPositions[t] \in Seq(PositionIds)
      BY <1>1, <1>5
    <3> QED  BY <2>1, <2>2, <3>1, <3>2, <3>3, WithoutUserPositionExact
  <2>3. CASE a # t
    <3>1. r.userPositions[a] = l.userPositions[a]
      BY <1>2, <1>5, <2>3
    <3>2. id \notin ToSet(userPositions[a])
      BY <2>1, <2>3 DEF pos
    <3> QED  BY <2>1, <3>1, <3>2
  <2> QED  BY <2>2, <2>3
<1>7. ASSUME NEW n \in Markets, NEW s \in Sides
      PROVE  /\ r.openInterest[n][s] \in Nat
             /\ r.openInterest[n][s] = IF n = m /\ s = side
                                       THEN HeldBy(OpenOn(m, side) \ (C \cup {id}))
                                       ELSE openInterest[n][s]
  <2>1. l.openInterest \in [Markets -> [Sides -> Nat]]
    BY DEF LedgerRecords
  <2>2. l.openInterest[n][s] = IF n = m /\ s = side THEN HeldBy(OpenOn(m, side) \ C)
                               ELSE openInterest[n][s]
    BY DEF LessClosed
  <2>3. r.openInterest[n][s] = IF n = m /\ s = side THEN l.openInterest[n][s] - SizeNow[id]
                               ELSE l.openInterest[n][s]
    BY <1>1, <1>2, <2>1
  <2>4. /\ HeldBy(OpenOn(m, side) \ (C \cup {id})) \in Nat
        /\ HeldBy(OpenOn(m, side) \ (C \cup {id})) = HeldBy(OpenOn(m, side) \ C) - SizeNow[id]
    <3> DEFINE S == OpenOn(m, side) \ C
    <3>1. S \ {id} = OpenOn(m, side) \ (C \cup {id}) /\ id \in S
      OBVIOUS
    <3>2. /\ SizeNow \in [PositionIds -> Int] /\ \A i \in PositionIds : SizeNow[i] \in Nat
          /\ S \subseteq PositionIds /\ IsFiniteSet(S)
          /\ S \ {id} \subseteq PositionIds /\ IsFiniteSet(S \ {id})
      BY AdlInvParts, FS_Subset
    <3> HIDE DEF S
    <3>3. SumFunctionOnSet(SizeNow, S \ {id}) = SumFunctionOnSet(SizeNow, S) - SizeNow[id]
      BY <3>1, <3>2, SumRemove
    <3>4. SumFunctionOnSet(SizeNow, S \ {id}) \in Nat
      BY <3>2, SumNat
    <3> QED  BY <3>1, <3>3, <3>4 DEF HeldBy, S
  <2> QED  BY <2>1, <2>2, <2>3, <2>4
<1>8. r.openInterest \in [Markets -> [Sides -> Nat]]
  <2>1. l.openInterest \in [Markets -> [Sides -> Nat]]
    BY DEF LedgerRecords
  <2>2. DOMAIN r.openInterest = Markets /\ \A n \in Markets : r.openInterest[n] \in [Sides -> Nat]
    BY <1>2, <1>7, <2>1
  <2> QED  BY <1>2, <2>1, <2>2
<1>9. r.portfolios \in [Accounts -> [totalCollateral : Nat, totalUnrealizedPnL : Int,
                                     positionCount : Nat]]
  <2>1. NoAddress \in Accounts
    BY DEF Accounts
  <2>2. r.userPositions[NoAddress] \in Seq(PositionIds)
    BY <1>5, <2>1
  <2>3. PortfolioOf(r.positions, r.userPositions[NoAddress]) \in
           [totalCollateral : Nat, totalUnrealizedPnL : Int, positionCount : Nat]
    BY <1>4, <2>2, PortfolioOfType
  <2>4. l.portfolios \in [Accounts -> [totalCollateral : Nat, totalUnrealizedPnL : Int,
                                       positionCount : Nat]]
    BY DEF LedgerRecords
  <2> QED  BY <1>2, <2>1, <2>3, <2>4
<1>10. r \in LedgerRecords
  BY <1>2, <1>4, <1>5, <1>8, <1>9 DEF LedgerRecords
<1> QED  BY <1>3, <1>6, <1>7, <1>10 DEF LessClosed, r

LEMMA EntriesFromTrans ==
    ASSUME NEW p, NEW q, NEW r, EntriesFrom(p, q), EntriesFrom(q, r)
    PROVE  EntriesFrom(p, r)
  BY DEF EntriesFrom

(* The queue after the callback, if there is one.                           *)
LEMMA CallbackKeepsQueue ==
    ASSUME NEW w \in WalkStates, NEW q0, NEW id \in PositionIds, NEW calls \in BOOLEAN,
           calls => w.indices[id] > 0, w.queue # << >>,
           EntriesFrom(w.queue, q0), DescendingByScore(w.queue)
    PROVE  LET q == IF calls THEN WithoutEntry(w.queue, w.indices[id]) ELSE w.queue
               x == IF calls THEN [w.indices EXCEPT ![id] = 0] ELSE w.indices
           IN  /\ q \in Seq(Candidates) /\ x \in [PositionIds -> Nat]
               /\ EntriesFrom(q, q0) /\ DescendingByScore(q)
<1>1. w.queue \in Seq(Candidates) /\ w.indices \in [PositionIds -> Nat]
  BY DEF WalkStates
<1>2. CASE calls
  <2>1. w.indices[id] \in Nat \ {0}
    BY <1>1, <1>2
  <2> DEFINE q == WithoutEntry(w.queue, w.indices[id])
  <2>2. /\ q \in Seq(Candidates) /\ DescendingByScore(q)
        /\ \A i \in DOMAIN q : \E j \in DOMAIN w.queue : q[i] = w.queue[j]
    BY <1>1, <2>1, WithoutEntryProperties
  <2>3. EntriesFrom(q, w.queue)
    BY <2>2 DEF EntriesFrom
  <2>4. EntriesFrom(q, q0)
    BY <2>3, EntriesFromTrans
  <2> QED  BY <1>1, <1>2, <2>2, <2>4
<1>3. CASE ~calls
  BY <1>1, <1>3
<1> QED  BY <1>2, <1>3

(* A turn that does not revert closes a position of the walked side that    *)
(* was open, and counts no more than its size.                              *)
LEMMA TurnCloses ==
    ASSUME AdlInv, NEW m \in Markets, NEW side \in Sides, NEW limit \in Nat,
           NEW sizeToClose \in Nat, NEW w \in Walked(m, side, limit),
           WalkGoesOn(w, sizeToClose, limit), NEW id, id = w.queue[w.i].positionId,
           w.ledger.positions[id].opened
    PROVE  /\ id \in OpenOn(m, side) \ ToSet(w.closed)
           /\ w.ledger.positions[id].size = SizeNow[id]
           /\ CountedSize(w, id, sizeToClose) \in Nat
           /\ CountedSize(w, id, sizeToClose) <= SizeNow[id]
<1>1. w \in WalkStates /\ OnTheWay(w, m, side, limit)
  BY DEF Walked
<1>2. w.i \in DOMAIN w.queue /\ w.queue[w.i] \in Candidates
  BY <1>1 DEF WalkStates, WalkGoesOn
<1>3. id \in PositionIds
  BY <1>2 DEF Candidates
<1>4. w.ledger.positions[id] = IF id \in ToSet(w.closed) THEN ZeroPosition ELSE positions[id]
  BY <1>1, <1>3 DEF OnTheWay, LessClosed
<1>5. id \notin ToSet(w.closed) /\ positions[id].opened /\ w.ledger.positions[id] = positions[id]
  BY <1>4 DEF ZeroPosition
<1>6. PICK j \in DOMAIN adlQueues[m][side] : w.queue[w.i] = adlQueues[m][side][j]
  BY <1>1, <1>2 DEF OnTheWay, EntriesFrom
<1>7. adlQueues[m][side][j] \in ToSet(adlQueues[m][side])
  BY <1>6 DEF ToSet
<1>8. id \in OpenOn(m, side)
  BY <1>5, <1>6, <1>7 DEF AdlInv, QueueInv, EntriesOnTheirSide, IsOpen
<1>9. SizeNow[id] \in Nat /\ positions[id].size = SizeNow[id]
  BY <1>3, AdlInvParts DEF SizeNow
<1>10. w.total \in Nat /\ w.total < sizeToClose
  BY <1>1 DEF WalkStates, WalkGoesOn
<1>11. CountedSize(w, id, sizeToClose) =
         IF sizeToClose - w.total > SizeNow[id] THEN SizeNow[id] ELSE sizeToClose - w.total
  BY <1>5, <1>9 DEF CountedSize
<1> QED  BY <1>5, <1>8, <1>9, <1>10, <1>11

LEMMA TurnStaysOnTheWay ==
    ASSUME AdlInv, NEW m \in Markets, NEW side \in Sides, NEW limit \in Nat,
           NEW sizeToClose \in Nat, NEW w \in Walked(m, side, limit),
           WalkGoesOn(w, sizeToClose, limit)
    PROVE  WalkTurn(w, m, sizeToClose) \in Walked(m, side, limit)
<1> DEFINE id == w.queue[w.i].positionId
           counted == CountedSize(w, id, sizeToClose)
           calls == w.ledger.positions[id].inADLQueue /\ w.indices[id] > 0
           q == IF calls THEN WithoutEntry(w.queue, w.indices[id]) ELSE w.queue
           x == IF calls THEN [w.indices EXCEPT ![id] = 0] ELSE w.indices
           C == ToSet(w.closed)
<1>1. w \in WalkStates /\ OnTheWay(w, m, side, limit)
  BY DEF Walked
<1>2. CASE ~ForceCloseGoesThrough(w, m, id, counted)
  <2>1. WalkTurn(w, m, sizeToClose) = [w EXCEPT !.ok = FALSE]
    BY <1>2 DEF WalkTurn
  <2>2. [w EXCEPT !.ok = FALSE] \in WalkStates
    BY <1>1 DEF WalkStates
  <2>3. OnTheWay([w EXCEPT !.ok = FALSE], m, side, limit)
    BY <1>1 DEF WalkStates, OnTheWay
  <2> QED  BY <2>1, <2>2, <2>3 DEF Walked
<1>3. CASE ForceCloseGoesThrough(w, m, id, counted)
  <2> DEFINE ledger == AfterClose(w.ledger, id)
             r == [ledger |-> ledger, queue |-> q, indices |-> x, i |-> w.i + 1,
                   total |-> w.total + counted, closed |-> Append(w.closed, id), ok |-> w.ok]
  <2>1. WalkTurn(w, m, sizeToClose) = r
    BY <1>1, <1>3 DEF WalkTurn, WalkStates
  <2>2. w.ledger.positions[id].opened
    BY <1>3 DEF ForceCloseGoesThrough
  <2>3. /\ id \in OpenOn(m, side) \ C /\ id \in PositionIds
        /\ w.ledger.positions[id].size = SizeNow[id]
        /\ counted \in Nat /\ counted <= SizeNow[id]
    BY <2>2, TurnCloses DEF OpenOn, OpenIds
  <2>4. w.queue # << >>
    BY <1>1 DEF WalkStates, WalkGoesOn
  <2>5. calls \in BOOLEAN /\ (calls => w.indices[id] > 0)
    <3>1. w.ledger.positions[id] \in PositionData
      BY <1>1, <2>3 DEF WalkStates, LedgerRecords
    <3> QED  BY <3>1 DEF PositionData
  <2> HIDE DEF id, calls, counted
  <2>6. /\ q \in Seq(Candidates) /\ x \in [PositionIds -> Nat]
        /\ EntriesFrom(q, adlQueues[m][side]) /\ DescendingByScore(q)
    BY <1>1, <2>3, <2>4, <2>5, CallbackKeepsQueue DEF OnTheWay
  <2>7. /\ ledger \in LedgerRecords
        /\ LessClosed(ledger, C \cup {id}, m, side)
    <3>1. w.ledger \in LedgerRecords
      BY <1>1 DEF WalkStates
    <3>2. C \in SUBSET OpenOn(m, side) /\ LessClosed(w.ledger, C, m, side)
      BY <1>1 DEF OnTheWay
    <3> HIDE DEF C
    <3> QED  BY <2>3, <3>1, <3>2, OneMoreClosed
  <2>8. /\ Append(w.closed, id) \in Seq(PositionIds)
        /\ IsInjective(Append(w.closed, id))
        /\ ToSet(Append(w.closed, id)) = C \cup {id}
        /\ Len(Append(w.closed, id)) <= limit
    <3>1. w.closed \in Seq(PositionIds) /\ IsInjective(w.closed) /\ Len(w.closed) < limit
      BY <1>1 DEF WalkStates, OnTheWay, WalkGoesOn
    <3> QED  BY <2>3, <3>1, AppendExact
  <2>9. w.total + counted <= HeldBy(C \cup {id}) /\ w.total + counted \in Nat
    <3>1. C \subseteq PositionIds /\ IsFiniteSet(C)
      BY <1>1, AdlInvParts, FS_Subset DEF OnTheWay
    <3>2. SizeNow \in [PositionIds -> Int] /\ SizeNow[id] \in Nat
      BY <2>3, AdlInvParts
    <3> HIDE DEF C
    <3>3. HeldBy(C) \in Int /\ HeldBy(C \cup {id}) = HeldBy(C) + SizeNow[id]
      BY <2>3, <3>1, <3>2, SumAdd DEF HeldBy
    <3>4. w.total \in Nat /\ w.total <= HeldBy(C)
      BY <1>1 DEF WalkStates, OnTheWay, C
    <3> QED  BY <2>3, <3>2, <3>3, <3>4
  <2>10. w.i + 1 \in Nat \ {0} /\ w.ok \in BOOLEAN
    BY <1>1 DEF WalkStates
  <2> HIDE DEF q, x, C, ledger
  <2>11. r \in WalkStates
    BY <2>6, <2>7, <2>8, <2>9, <2>10 DEF WalkStates
  <2>12. OnTheWay(r, m, side, limit)
    <3>1. C \cup {id} \subseteq OpenOn(m, side)
      BY <1>1, <2>3 DEF OnTheWay, C
    <3> QED  BY <2>6, <2>7, <2>8, <2>9, <3>1 DEF OnTheWay
  <2> QED  BY <2>1, <2>11, <2>12 DEF Walked
<1> QED  BY <1>2, <1>3

(* The walk as a whole.                                                     *)
LEMMA WalkStaysOnTheWay ==
    ASSUME AdlInv, NEW m \in Markets, NEW side \in Sides, NEW limit \in Nat,
           NEW sizeToClose \in Nat
    PROVE  Walk(m, side, sizeToClose, limit) \in Walked(m, side, limit)
<1> DEFINE n == Len(adlQueues[m][side])
           S == Walked(m, side, limit)
           Turn(w) == IF WalkGoesOn(w, sizeToClose, limit) THEN WalkTurn(w, m, sizeToClose) ELSE w
           turn == [p \in S \X (1..n) |-> Turn(p[1])]
           after == CHOOSE after : after = [k \in 0..n |->
                        IF k = 0 THEN WalkStart(m, side)
                        ELSE IF WalkGoesOn(after[k - 1], sizeToClose, limit)
                             THEN WalkTurn(after[k - 1], m, sizeToClose) ELSE after[k - 1]]
<1>1. n \in Nat
  BY AdlInvParts DEF QueueTypeOK
<1>2. WalkStart(m, side) \in S
  BY WalkStartsOnTheWay
<1>3. \A w \in S : Turn(w) \in S
  BY TurnStaysOnTheWay
<1>4. Walk(m, side, sizeToClose, limit) = after[n]
  BY DEF Walk
<1> HIDE DEF S, n
<1>5. StepsIn(S, n, turn) /\ \A w \in S, k \in 1..n : turn[<<w, k>>] = Turn(w)
  <2> HIDE DEF Turn
  <2> QED  BY <1>1, <1>3 DEF StepsIn
<1>6. PICK g : RunsFrom(WalkStart(m, side), S, n, turn, g)
  <2> HIDE DEF turn
  <2> QED  BY <1>2, <1>5, LoopRuns
<1>7. \A k \in 1..n : g[k] = Turn(g[k - 1])
  <2>1. \A k \in 1..n : g[k - 1] \in S
    BY <1>1, <1>6 DEF RunsFrom
  <2> HIDE DEF Turn, turn
  <2> QED  BY <1>5, <1>6, <2>1 DEF RunsFrom
<1>8. g = [k \in 0..n |-> IF k = 0 THEN WalkStart(m, side)
                          ELSE IF WalkGoesOn(g[k - 1], sizeToClose, limit)
                               THEN WalkTurn(g[k - 1], m, sizeToClose) ELSE g[k - 1]]
  BY <1>1, <1>6, <1>7 DEF RunsFrom
<1>9. after = [k \in 0..n |-> IF k = 0 THEN WalkStart(m, side)
                          ELSE IF WalkGoesOn(after[k - 1], sizeToClose, limit)
                               THEN WalkTurn(after[k - 1], m, sizeToClose) ELSE after[k - 1]]
  BY <1>8
<1> HIDE DEF after
<1>10. after[0] = WalkStart(m, side) /\ \A k \in 1..n : after[k] = Turn(after[k - 1])
  <2>1. 0 \in 0..n /\ \A k \in 1..n : k \in 0..n /\ k # 0
    BY <1>1
  <2> QED  BY <1>9, <2>1
<1> HIDE DEF Turn
<1>11. \A k \in 1..n : after[k - 1] \in S => after[k] \in S
  BY <1>3, <1>10
<1>12. after[n] \in S
  BY <1>1, <1>2, <1>10, <1>11, LoopStays
<1> QED  BY <1>4, <1>12 DEF S, n

LEMMA HeadRemovalProperties ==
    ASSUME NEW q \in Seq(Candidates), NEW count \in Nat
    PROVE  /\ AfterHeadRemoval(q, count) \in Seq(Candidates)
           /\ EntriesFrom(AfterHeadRemoval(q, count), q)
           /\ DescendingByScore(q) => DescendingByScore(AfterHeadRemoval(q, count))
<1> DEFINE k == RemovedFromHead(q, count)
           r == AfterHeadRemoval(q, count)
<1>1. Len(q) \in Nat /\ k \in 0..Len(q)
  BY DEF RemovedFromHead
<1>2. r = SubSeq(q, k + 1, Len(q))
  BY DEF AfterHeadRemoval
<1> HIDE DEF k, r
<1>3. /\ r \in Seq(Candidates) /\ DOMAIN r = 1..(Len(q) - k)
      /\ \A i \in 1..(Len(q) - k) : r[i] = q[i + k] /\ i + k \in 1..Len(q)
  BY <1>1, <1>2
<1>4. EntriesFrom(r, q)
  BY <1>1, <1>3 DEF EntriesFrom
<1>5. ASSUME DescendingByScore(q) PROVE DescendingByScore(r)
  <2>1. \A i, j \in 1..Len(q) : i < j => q[i].adlScore >= q[j].adlScore
    BY <1>5 DEF DescendingByScore
  <2>2. ASSUME NEW i \in 1..(Len(q) - k), NEW j \in 1..(Len(q) - k), i < j
        PROVE  r[i].adlScore >= r[j].adlScore
    <3>1. i + k \in 1..Len(q) /\ j + k \in 1..Len(q) /\ i + k < j + k
      BY <1>1, <2>2
    <3>2. r[i] = q[i + k] /\ r[j] = q[j + k]
      BY <1>3
    <3> QED  BY <2>1, <3>1, <3>2
  <2> QED  BY <1>3, <2>2 DEF DescendingByScore
<1> QED  BY <1>3, <1>4, <1>5 DEF r

-----------------------------------------------------------------------------
(* What an execution leaves, in terms of the walk's last state w along the  *)
(* queue of the side it closes.                                             *)
ClosedAlong(w, m, side) ==
    /\ positions' = w.ledger.positions /\ userPositions' = w.ledger.userPositions
    /\ openInterest' = w.ledger.openInterest /\ portfolios' = w.ledger.portfolios
    /\ UNCHANGED <<positionIdCounter, marketPositions, adminVars, adlConfigs>>
    /\ adlQueues' = [adlQueues EXCEPT ![m][side] = AfterHeadRemoval(w.queue, Len(w.closed))]
    /\ queueIndices' = IndicesAfterHeadRemoval(w.indices, w.queue, Len(w.closed))
    /\ lastExecution' = [marketId |-> m, deleveragedPositions |-> w.closed,
                         totalSizeClosed |-> w.total]
    /\ totalADLEvents' = [totalADLEvents EXCEPT ![m] = @ + 1]
    /\ totalADLEvents[m] < MaxADLEvents

LEMMA ExecuteEffect ==
    ASSUME AdlInv, NEW m \in Markets, NEW side \in Sides, NEW sizeToClose \in CloseSizes,
           executeADL(m, side, sizeToClose)
    PROVE  \E opposing \in Sides :
              \E w \in Walked(m, opposing, adlConfigs[m].maxPositionsPerADL) :
                 ClosedAlong(w, m, opposing)
<1> DEFINE opposing == Opposing(side)
           w == Walk(m, opposing, sizeToClose, adlConfigs[m].maxPositionsPerADL)
<1>1. opposing \in Sides
  BY DEF Opposing, Sides
<1>2. adlConfigs[m].maxPositionsPerADL \in Nat
  BY DEF AdlInv, EngineTypeOK, ADLConfig
<1>3. w \in Walked(m, opposing, adlConfigs[m].maxPositionsPerADL)
  BY <1>1, <1>2, WalkStaysOnTheWay, EngineAssumption
<1>4. ClosedAlong(w, m, opposing)
  BY DEF executeADL, ClosedAlong, SetLedger, QueuesAfterADL
<1> QED  BY <1>1, <1>3, <1>4

LEMMA OpenAfterwards ==
    ASSUME AdlInv, NEW m \in Markets, NEW side \in Sides, NEW limit,
           NEW w \in Walked(m, side, limit), positions' = w.ledger.positions
    PROVE  /\ positions' \in [PositionIds -> PositionData]
           /\ \A id \in PositionIds : positions'[id] = IF id \in ToSet(w.closed) THEN ZeroPosition
                                                       ELSE positions[id]
           /\ OpenIds' = OpenIds \ ToSet(w.closed)
           /\ \A n, s : OpenOn(n, s)' = OpenOn(n, s) \ ToSet(w.closed)
           /\ ToSet(w.closed) \subseteq OpenOn(m, side)
<1>1. /\ positions' \in [PositionIds -> PositionData]
      /\ ToSet(w.closed) \subseteq OpenOn(m, side)
      /\ \A id \in PositionIds : positions'[id] = IF id \in ToSet(w.closed) THEN ZeroPosition
                                                  ELSE positions[id]
  BY DEF Walked, WalkStates, LedgerRecords, OnTheWay, LessClosed
<1>2. ~ZeroPosition.opened
  BY DEF ZeroPosition
<1>3. OpenIds' = OpenIds \ ToSet(w.closed)
  BY <1>1, <1>2 DEF OpenIds, IsOpen
<1>4. \A n, s : OpenOn(n, s)' = OpenOn(n, s) \ ToSet(w.closed)
  BY <1>1, <1>3 DEF OpenOn, OpenIds
<1> QED  BY <1>1, <1>3, <1>4

LEMMA ExecuteKeepsLedger ==
    ASSUME AdlInv, NEW m \in Markets, NEW side \in Sides, NEW limit,
           NEW w \in Walked(m, side, limit), ClosedAlong(w, m, side)
    PROVE  LedgerInv' /\ ListsExact'
<1> DEFINE C == ToSet(w.closed)
           q == AfterHeadRemoval(w.queue, Len(w.closed))
<1>1. /\ positions' \in [PositionIds -> PositionData]
      /\ \A id \in PositionIds : positions'[id] = IF id \in C THEN ZeroPosition ELSE positions[id]
      /\ OpenIds' = OpenIds \ C
  BY OpenAfterwards DEF ClosedAlong
<1>2. LedgerInv /\ LedgerTypeOK /\ QueueTypeOK /\ GatesTypeOK /\ ListsExact
  BY AdlInvParts
<1>3. w \in WalkStates /\ LessClosed(w.ledger, C, m, side)
  BY DEF Walked, OnTheWay
<1>4. LedgerTypeOK'
  BY <1>1, <1>2, <1>3 DEF LedgerTypeOK, ClosedAlong, adminVars, WalkStates, LedgerRecords
<1>5. QueueTypeOK'
  <2>1. q \in Seq(Candidates)
    BY <1>3, HeadRemovalProperties DEF WalkStates
  <2>2. adlQueues' \in [Markets -> [Sides -> Seq(Candidates)]]
    BY <1>2, <2>1 DEF ClosedAlong, QueueTypeOK
  <2>3. queueIndices' \in [PositionIds -> Nat]
    BY <1>3 DEF ClosedAlong, IndicesAfterHeadRemoval, WalkStates
  <2> QED  BY <2>2, <2>3 DEF QueueTypeOK
<1>6. GatesTypeOK'
  BY <1>2 DEF GatesTypeOK, ClosedAlong, adminVars, gateVars
<1>7. OpenNamed' /\ DeletedAreZero' /\ FreshAreClosed'
  BY <1>1, <1>2 DEF OpenNamed, DeletedAreZero, FreshAreClosed, OpenIds, IsOpen, LedgerInv,
     ClosedAlong
<1>8. ListsExact'
  <2>1. ASSUME NEW t \in Accounts
        PROVE  /\ IsInjective(userPositions'[t])
               /\ ToSet(userPositions'[t]) = { id \in OpenIds' : positions'[id].trader = t }
    <3>1. /\ IsInjective(userPositions'[t])
          /\ ToSet(userPositions'[t]) = ToSet(userPositions[t]) \ C
      BY <1>3 DEF LessClosed, ClosedAlong
    <3>2. ToSet(userPositions[t]) = { id \in OpenIds : positions[id].trader = t }
      BY <1>2 DEF ListsExact
    <3>3. \A id \in OpenIds' : positions'[id] = positions[id]
      BY <1>1 DEF OpenIds
    <3> QED  BY <1>1, <3>1, <3>2, <3>3
  <2>2. ASSUME NEW id \in OpenIds'
        PROVE  Contains(marketPositions'[positions'[id].marketId], id)
    <3>1. id \in OpenIds /\ positions'[id] = positions[id] /\ marketPositions' = marketPositions
      BY <1>1 DEF OpenIds, ClosedAlong
    <3> QED  BY <1>2, <3>1 DEF ListsExact
  <2> QED  BY <2>1, <2>2 DEF ListsExact
<1> QED  BY <1>4, <1>5, <1>6, <1>7, <1>8 DEF LedgerInv, CoreTypeOK

LEMMA ExecuteKeepsBooks ==
    ASSUME AdlInv, NEW m \in Markets, NEW side \in Sides, NEW limit,
           NEW w \in Walked(m, side, limit), ClosedAlong(w, m, side)
    PROVE  PortfoliosTypeOK' /\ OpenInterestExact'
<1> DEFINE C == ToSet(w.closed)
<1>1. /\ positions' \in [PositionIds -> PositionData]
      /\ \A id \in PositionIds : positions'[id] = IF id \in C THEN ZeroPosition ELSE positions[id]
      /\ \A n, s : OpenOn(n, s)' = OpenOn(n, s) \ C
      /\ C \subseteq OpenOn(m, side)
  BY OpenAfterwards DEF ClosedAlong
<1>2. PortfoliosTypeOK'
  BY DEF Walked, WalkStates, LedgerRecords, ClosedAlong, PortfoliosTypeOK
<1>3. ASSUME NEW n \in Markets, NEW s \in Sides
      PROVE  openInterest'[n][s] = OpenSize(n, s)'
  <2> DEFINE S == OpenOn(n, s) \ C
             after == [id \in PositionIds |-> positions'[id].size]
  <2>1. openInterest'[n][s] = IF n = m /\ s = side THEN HeldBy(OpenOn(m, side) \ C)
                              ELSE openInterest[n][s]
    BY DEF Walked, OnTheWay, LessClosed, ClosedAlong
  <2>2. openInterest[n][s] = HeldBy(OpenOn(n, s))
    BY DEF AdlInv, BooksInv, OpenInterestExact, HeldBy, SizeNow
  <2>3. ~(n = m /\ s = side) => OpenOn(n, s) \ C = OpenOn(n, s)
    BY <1>1 DEF OpenOn
  <2>4. openInterest'[n][s] = SumFunctionOnSet(SizeNow, S)
    BY <2>1, <2>2, <2>3 DEF HeldBy
  <2>5. /\ SizeNow \in [PositionIds -> Int] /\ after \in [PositionIds -> Int]
        /\ S \subseteq PositionIds /\ IsFiniteSet(S)
        /\ \A id \in S : SizeNow[id] = after[id]
    <3>1. S \subseteq PositionIds /\ IsFiniteSet(S)
      BY AdlInvParts, FS_Subset
    <3>2. after \in [PositionIds -> Int]
      BY <1>1 DEF PositionData
    <3>3. \A id \in S : SizeNow[id] = after[id]
      BY <1>1, <3>1 DEF SizeNow
    <3> QED  BY <3>1, <3>2, <3>3, AdlInvParts
  <2>6. OpenSize(n, s)' = SumFunctionOnSet(after, S)
    BY <1>1 DEF OpenSize
  <2> HIDE DEF S, after
  <2> QED  BY <2>4, <2>5, <2>6, SumSame
<1> QED  BY <1>2, <1>3 DEF OpenInterestExact, OpenSize

LEMMA ExecuteKeepsQueues ==
    ASSUME AdlInv, NEW m \in Markets, NEW side \in Sides, NEW limit,
           NEW w \in Walked(m, side, limit), ClosedAlong(w, m, side)
    PROVE  QueuesDescending' /\ EntriesOnTheirSide' /\ EntriesIssued'
<1> DEFINE q == AfterHeadRemoval(w.queue, Len(w.closed))
<1>1. /\ w.queue \in Seq(Candidates) /\ Len(w.closed) \in Nat
      /\ EntriesFrom(w.queue, adlQueues[m][side]) /\ DescendingByScore(w.queue)
  BY DEF Walked, WalkStates, OnTheWay
<1>2. EntriesFrom(q, w.queue) /\ DescendingByScore(q)
  BY <1>1, HeadRemovalProperties
<1>3. EntriesFrom(q, adlQueues[m][side])
  BY <1>1, <1>2, EntriesFromTrans
<1>4. adlQueues \in [Markets -> [Sides -> Seq(Candidates)]]
  BY AdlInvParts DEF QueueTypeOK
<1>5. /\ adlQueues'[m][side] = q
      /\ \A n \in Markets, s \in Sides : n # m \/ s # side => adlQueues'[n][s] = adlQueues[n][s]
  BY <1>4 DEF ClosedAlong
<1> HIDE DEF q
<1>6. ASSUME NEW n \in Markets, NEW s \in Sides
      PROVE  /\ EntriesFrom(adlQueues'[n][s], adlQueues[n][s])
             /\ DescendingByScore(adlQueues'[n][s])
  <2>1. CASE n = m /\ s = side
    BY <1>2, <1>3, <1>5, <2>1
  <2>2. CASE n # m \/ s # side
    <3>1. adlQueues'[n][s] = adlQueues[n][s]
      BY <1>5, <2>2
    <3>2. EntriesFrom(adlQueues[n][s], adlQueues[n][s])
      BY DEF EntriesFrom
    <3> QED  BY <3>1, <3>2 DEF AdlInv, QueueInv, QueuesDescending
  <2> QED  BY <2>1, <2>2
<1>7. QueuesDescending'
  BY <1>6 DEF QueuesDescending
<1>8. /\ \A id \in PositionIds : positions'[id].opened => positions[id].opened
      /\ \A n, s : \A id \in OpenOn(n, s) : positions'[id].opened => id \in OpenOn(n, s)'
  <2>1. /\ OpenIds' = OpenIds \ ToSet(w.closed)
        /\ \A n, s : OpenOn(n, s)' = OpenOn(n, s) \ ToSet(w.closed)
    BY OpenAfterwards DEF ClosedAlong
  <2>2. \A id \in PositionIds : positions'[id].opened => positions[id].opened /\ id \notin ToSet(w.closed)
    BY <2>1 DEF OpenIds, IsOpen
  <2> QED  BY <2>1, <2>2 DEF OpenOn, OpenIds
<1>9. EntriesOnTheirSide'
  <2> SUFFICES ASSUME NEW n \in Markets, NEW s \in Sides, NEW c \in ToSet(adlQueues'[n][s]),
                      positions'[c.positionId].opened
               PROVE  c.positionId \in OpenOn(n, s)'
    BY DEF EntriesOnTheirSide, IsOpen
  <2>1. PICK i \in DOMAIN adlQueues'[n][s] : c = adlQueues'[n][s][i]
    BY DEF ToSet
  <2>2. PICK j \in DOMAIN adlQueues[n][s] : c = adlQueues[n][s][j]
    BY <1>6, <2>1 DEF EntriesFrom
  <2>3. c \in ToSet(adlQueues[n][s]) /\ c \in Candidates
    BY <1>4, <2>2 DEF ToSet
  <2>4. c.positionId \in PositionIds /\ positions[c.positionId].opened
    BY <1>8, <2>3 DEF Candidates
  <2>5. c.positionId \in OpenOn(n, s)
    BY <2>3, <2>4 DEF AdlInv, QueueInv, EntriesOnTheirSide, IsOpen
  <2> QED  BY <1>8, <2>5
<1>10. EntriesIssued'
  <2> SUFFICES ASSUME NEW n \in Markets, NEW s \in Sides, NEW i \in DOMAIN adlQueues'[n][s]
               PROVE  adlQueues'[n][s][i].positionId < positionIdCounter'
    BY DEF EntriesIssued
  <2>1. PICK j \in DOMAIN adlQueues[n][s] : adlQueues'[n][s][i] = adlQueues[n][s][j]
    BY <1>6 DEF EntriesFrom
  <2> QED  BY <2>1 DEF AdlInv, QueueInv, EntriesIssued, ClosedAlong
<1> QED  BY <1>7, <1>9, <1>10

LEMMA ExecuteKeepsEngine ==
    ASSUME AdlInv, NEW m \in Markets, NEW side \in Sides, NEW limit,
           NEW w \in Walked(m, side, limit), ClosedAlong(w, m, side)
    PROVE  EngineTypeOK'
<1>1. w.closed \in Seq(PositionIds) /\ w.total \in Nat
  BY DEF Walked, WalkStates
<1>2. totalADLEvents \in [Markets -> 0..MaxADLEvents] /\ MaxADLEvents \in Nat
  BY EngineAssumption DEF AdlInv, EngineTypeOK
<1>3. totalADLEvents' \in [Markets -> 0..MaxADLEvents]
  <2>1. totalADLEvents[m] + 1 \in 0..MaxADLEvents
    BY <1>2 DEF ClosedAlong
  <2> QED  BY <1>2, <2>1 DEF ClosedAlong
<1> QED  BY <1>1, <1>3 DEF AdlInv, EngineTypeOK, ClosedAlong

LEMMA AdlInvInductive == AdlInv /\ [AdlNext]_allVars => AdlInv'
<1> SUFFICES ASSUME AdlInv, [AdlNext]_allVars PROVE AdlInv'
  OBVIOUS
<1>1. CASE [Next]_vars /\ UNCHANGED engineVars
  <2>1. ListInv /\ BooksInv /\ QueueInv
    BY DEF AdlInv, ListInv, BooksInv
  <2>2. ListInv' /\ BooksInv' /\ QueueInv'
    BY <1>1, <2>1, ListInvInductive, BooksInvInductive, QueueInvInductive
  <2>3. EngineTypeOK'
    BY <1>1 DEF AdlInv, EngineTypeOK, engineVars
  <2> QED  BY <2>2, <2>3 DEF AdlInv, ListInv
<1>2. CASE (\E m \in Markets, limit \in ADLLimits : configureADL(m, limit))
           \/ (\E m \in Markets : toggleADL(m))
  <2>1. UNCHANGED vars
    BY <1>2 DEF configureADL, toggleADL, vars
  <2>2. EngineTypeOK'
    <3>1. EngineTypeOK /\ UNCHANGED <<totalADLEvents, lastExecution>>
      BY <1>2 DEF configureADL, toggleADL, AdlInv
    <3>2. ASSUME NEW m \in Markets, NEW limit \in ADLLimits, configureADL(m, limit)
          PROVE  adlConfigs' \in [Markets -> ADLConfig]
      <4>1. [isEnabled |-> TRUE, maxPositionsPerADL |-> limit] \in ADLConfig
        BY EngineAssumption DEF ADLConfig
      <4> QED  BY <3>1, <3>2, <4>1 DEF configureADL, EngineTypeOK
    <3>3. ASSUME NEW m \in Markets, toggleADL(m)
          PROVE  adlConfigs' \in [Markets -> ADLConfig]
      <4>1. adlConfigs[m] \in ADLConfig
        BY <3>1 DEF EngineTypeOK
      <4>2. [adlConfigs[m] EXCEPT !.isEnabled = ~@] \in ADLConfig
        BY <4>1 DEF ADLConfig
      <4>3. adlConfigs' = [adlConfigs EXCEPT ![m] = [adlConfigs[m] EXCEPT !.isEnabled = ~@]]
        BY <3>3 DEF toggleADL
      <4> QED  BY <3>1, <4>2, <4>3 DEF EngineTypeOK
    <3> QED  BY <1>2, <3>1, <3>2, <3>3 DEF EngineTypeOK
  <2>3. ListInv /\ BooksInv /\ QueueInv
    BY DEF AdlInv, ListInv, BooksInv
  <2>4. ListInv' /\ BooksInv' /\ QueueInv'
    BY <2>1, <2>3, ListInvInductive, BooksInvInductive, QueueInvInductive
  <2> QED  BY <2>2, <2>4 DEF AdlInv, ListInv
<1>3. ASSUME NEW m \in Markets, NEW side \in Sides, NEW size \in CloseSizes,
             executeADL(m, side, size)
      PROVE  AdlInv'
  <2>0. PICK opposing \in Sides :
           \E w \in Walked(m, opposing, adlConfigs[m].maxPositionsPerADL) : ClosedAlong(w, m, opposing)
    BY <1>3, ExecuteEffect
  <2>1. PICK w \in Walked(m, opposing, adlConfigs[m].maxPositionsPerADL) :
           ClosedAlong(w, m, opposing)
    BY <2>0
  <2>2. LedgerInv' /\ ListsExact'
    BY <2>1, ExecuteKeepsLedger
  <2>3. PortfoliosTypeOK' /\ OpenInterestExact'
    BY <2>1, ExecuteKeepsBooks
  <2>4. QueuesDescending' /\ EntriesOnTheirSide' /\ EntriesIssued'
    BY <2>1, ExecuteKeepsQueues
  <2>5. EngineTypeOK'
    BY <2>1, ExecuteKeepsEngine
  <2> QED  BY <2>2, <2>3, <2>4, <2>5 DEF AdlInv, BooksInv, QueueInv
<1> QED  BY <1>1, <1>2, <1>3 DEF AdlNext, AdlStep, allVars

LEMMA AdlInvInit == AdlInit => AdlInv
<1> SUFFICES ASSUME AdlInit PROVE AdlInv
  OBVIOUS
<1>1. Init
  BY DEF AdlInit
<1>2. ListInv /\ BooksInv /\ QueueInv
  BY <1>1, ListInvInit, BooksInvInit, QueueInvInit
<1>3. << >> \in Seq(PositionIds)
  OBVIOUS
<1>4. EngineTypeOK
  BY <1>3, EngineAssumption DEF AdlInit, EngineTypeOK, ADLConfig, NoExecution
<1> QED  BY <1>2, <1>4 DEF AdlInv, ListInv

LEMMA AdlInvHolds == AdlSpec => []AdlInv
  BY AdlInvInit, AdlInvInductive, PTL DEF AdlSpec

(* The ledger is sound after executions as after any other call: nothing    *)
(* underflowed, open interest is the sum of the open sizes, and the lists   *)
(* name the open positions, for every queue the walk may meet.              *)
THEOREM ExecutionsKeepTheLedger == AdlSpec => []AdlLedgerOK
<1>1. AdlInv => AdlLedgerOK
  BY DEF AdlInv, AdlLedgerOK, AdlTypeOK, BooksInv, LedgerInv
<1> QED  BY <1>1, AdlInvHolds, PTL

(* Executions leave the queues as calls of the ledger do: still falling in  *)
(* score, every entry the one of an open position in its own market and     *)
(* side.  (Which a position may no longer find: AdlStuck.)                  *)
THEOREM QueuesSurviveExecutions == AdlSpec => [](QueuesDescending /\ EntriesOnTheirSide)
<1>1. AdlInv => QueuesDescending /\ EntriesOnTheirSide
  BY DEF AdlInv, QueueInv
<1> QED  BY <1>1, AdlInvHolds, PTL

-----------------------------------------------------------------------------
(* Only an execution counts as one.                                         *)
LEMMA OnlyExecutionsCount ==
    ASSUME AdlInv, [AdlNext]_allVars, NEW m \in Markets, Executed(m)
    PROVE  \E side \in Sides :
              \E w \in Walked(m, side, adlConfigs[m].maxPositionsPerADL) : ClosedAlong(w, m, side)
<1>1. totalADLEvents \in [Markets -> 0..MaxADLEvents]
  BY DEF AdlInv, EngineTypeOK
<1>2. PICK k \in Markets, side \in Sides, size \in CloseSizes : executeADL(k, side, size)
  BY DEF Executed, AdlNext, AdlStep, allVars, engineVars, configureADL, toggleADL
<1>3. k = m
  BY <1>1, <1>2 DEF executeADL, Executed
<1> QED  BY <1>2, <1>3, ExecuteEffect

(* The positions an execution deleted are those its walk closed.            *)
LEMMA ClosedAreWalked ==
    ASSUME AdlInv, NEW m \in Markets, NEW side \in Sides, NEW limit,
           NEW w \in Walked(m, side, limit), ClosedAlong(w, m, side)
    PROVE  ClosedIds = ToSet(w.closed)
<1>1. /\ OpenIds' = OpenIds \ ToSet(w.closed)
      /\ ToSet(w.closed) \subseteq OpenOn(m, side)
  BY OpenAfterwards DEF ClosedAlong
<1>2. OpenOn(m, side) \subseteq OpenIds /\ OpenIds \subseteq PositionIds
  BY DEF OpenOn, OpenIds
<1>3. \A id \in PositionIds : id \in OpenIds' <=> positions'[id].opened
  BY DEF OpenIds, IsOpen
<1> QED  BY <1>1, <1>2, <1>3 DEF ClosedIds

(* The record of an execution names the positions it closed, each once, all *)
(* of one side and within the limit, however its callbacks had shifted the  *)
(* queue under the walk.                                                    *)
THEOREM RecordsNameTheClosed == AdlSpec => ADLClosesWhatItRecords
<1>1. ASSUME AdlInv, [AdlNext]_allVars, NEW m \in Markets, Executed(m)
      PROVE  /\ IsInjective(lastExecution'.deleveragedPositions)
             /\ ToSet(lastExecution'.deleveragedPositions) = ClosedIds
             /\ \E side \in Sides : ClosedIds \subseteq OpenOn(m, side)
             /\ Len(lastExecution'.deleveragedPositions) <= adlConfigs[m].maxPositionsPerADL
  <2>1. PICK side \in Sides :
           \E w \in Walked(m, side, adlConfigs[m].maxPositionsPerADL) : ClosedAlong(w, m, side)
    BY <1>1, OnlyExecutionsCount
  <2>2. PICK w \in Walked(m, side, adlConfigs[m].maxPositionsPerADL) : ClosedAlong(w, m, side)
    BY <2>1
  <2>3. ClosedIds = ToSet(w.closed) /\ lastExecution'.deleveragedPositions = w.closed
    BY <1>1, <2>2, ClosedAreWalked DEF ClosedAlong
  <2> QED  BY <2>3 DEF Walked, OnTheWay
<1>2. AdlInv /\ [AdlNext]_allVars =>
         [ \A m \in Markets : Executed(m) =>
             LET ids == lastExecution'.deleveragedPositions
             IN  /\ IsInjective(ids)
                 /\ ToSet(ids) = ClosedIds
                 /\ \E side \in Sides : ClosedIds \subseteq OpenOn(m, side)
                 /\ Len(ids) <= adlConfigs[m].maxPositionsPerADL ]_allVars
  BY <1>1
<1> QED  BY <1>2, AdlInvHolds, PTL DEF AdlSpec, ADLClosesWhatItRecords

(* An execution reports at most the size it closed.                         *)
THEOREM ReportsAreCovered == AdlSpec => ReportedWithinClosed
<1>1. ASSUME AdlInv, [AdlNext]_allVars, NEW m \in Markets, Executed(m)
      PROVE  lastExecution'.totalSizeClosed <= SizeClosed
  <2>1. PICK side \in Sides :
           \E w \in Walked(m, side, adlConfigs[m].maxPositionsPerADL) : ClosedAlong(w, m, side)
    BY <1>1, OnlyExecutionsCount
  <2>2. PICK w \in Walked(m, side, adlConfigs[m].maxPositionsPerADL) : ClosedAlong(w, m, side)
    BY <2>1
  <2>3. ClosedIds = ToSet(w.closed) /\ lastExecution'.totalSizeClosed = w.total
    BY <1>1, <2>2, ClosedAreWalked DEF ClosedAlong
  <2>4. w.total <= HeldBy(ToSet(w.closed))
    BY DEF Walked, OnTheWay
  <2> QED  BY <2>3, <2>4 DEF SizeClosed, HeldBy, SizeNow
<1>2. AdlInv /\ [AdlNext]_allVars =>
         [ \A m \in Markets : Executed(m) => lastExecution'.totalSizeClosed <= SizeClosed ]_allVars
  BY <1>1
<1> QED  BY <1>2, AdlInvHolds, PTL DEF AdlSpec, ReportedWithinClosed

(* An execution leaves every queue and every open interest but one alone.   *)
THEOREM OneQueueTouched == AdlSpec => ADLTouchesOneQueue
<1> DEFINE OneSide(m) == \E side \in Sides : \A n \in Markets, other \in Sides :
                            <<n, other>> # <<m, side>> =>
                               /\ adlQueues'[n][other] = adlQueues[n][other]
                               /\ openInterest'[n][other] = openInterest[n][other]
<1>1. ASSUME AdlInv, [AdlNext]_allVars, NEW m \in Markets, Executed(m)
      PROVE  OneSide(m)
  <2>1. PICK side \in Sides :
           \E w \in Walked(m, side, adlConfigs[m].maxPositionsPerADL) : ClosedAlong(w, m, side)
    BY <1>1, OnlyExecutionsCount
  <2>2. PICK w \in Walked(m, side, adlConfigs[m].maxPositionsPerADL) : ClosedAlong(w, m, side)
    BY <2>1
  <2>3. ASSUME NEW n \in Markets, NEW other \in Sides, n # m \/ other # side
        PROVE  /\ adlQueues'[n][other] = adlQueues[n][other]
               /\ openInterest'[n][other] = openInterest[n][other]
    <3>1. adlQueues \in [Markets -> [Sides -> Seq(Candidates)]]
      BY <1>1, AdlInvParts DEF QueueTypeOK
    <3>2. adlQueues'[n][other] = adlQueues[n][other]
      BY <2>2, <2>3, <3>1 DEF ClosedAlong
    <3>3. openInterest'[n][other] = openInterest[n][other]
      BY <2>2, <2>3 DEF ClosedAlong, Walked, OnTheWay, LessClosed
    <3> QED  BY <3>2, <3>3
  <2> QED  BY <2>3
<1>2. AdlInv /\ [AdlNext]_allVars => [ \A m \in Markets : Executed(m) => OneSide(m) ]_allVars
  BY <1>1
<1> QED  BY <1>2, AdlInvHolds, PTL DEF AdlSpec, ADLTouchesOneQueue

-----------------------------------------------------------------------------
fvars == <<vars, fundingVars>>

(* Every step of the composed system is a step of PositionManager or leaves *)
(* its state as it is.                                                      *)
THEOREM FundingLeavesTheLedger == FundingSpec => Spec
<1>1. FundingInit => Init
  BY DEF FundingInit
<1>2. [FundingNext]_fvars => [Next]_vars
  BY DEF FundingNext, fvars, TradingStep, ConfigStep, FundingStep, Tick, setMarketConfig,
         setFundingEngine, updateAccumulatedFunding, applyFundingRate, SkipDisabled, SkipEmpty,
         ChargePositions
<1> QED  BY <1>1, <1>2, PTL DEF FundingSpec, Spec, fvars

(* The two contracts agree who is a candidate, with funding as well.        *)
THEOREM ContractsAgreeWithFunding == FundingSpec => []FlagMatchesIndex
  BY FundingLeavesTheLedger, ContractsAgree, PTL

-----------------------------------------------------------------------------
(* Whole periods in a stretch of time are no longer than the stretch.       *)
LEMMA PeriodsFit ==
    ASSUME NEW n \in Nat
    PROVE  /\ n \div FUNDING_PERIOD \in Nat
           /\ (n \div FUNDING_PERIOD) * FUNDING_PERIOD <= n
<1>1. FUNDING_PERIOD \in Nat \ {0}
  BY FundingAssumption
<1>2. \A p \in Nat \ {0} : n \div p \in Nat /\ (n \div p) * p <= n
  OBVIOUS
<1> QED  BY <1>1, <1>2

LEMMA SignedDivType ==
    ASSUME NEW a \in Int, NEW b \in Nat \ {0}
    PROVE  SignedDiv(a, b) \in Int
  BY DivTypes DEF SignedDiv

(* What is charged so far, and the new periods, fit before now.             *)
LEMMA ChargesFit ==
    ASSUME NEW c \in Nat, NEW p \in Nat, NEW last \in Nat, NEW t \in Nat,
           c * FUNDING_PERIOD <= last, p * FUNDING_PERIOD <= t - last
    PROVE  (c + p) * FUNDING_PERIOD <= t
<1>1. FUNDING_PERIOD \in Nat
  BY FundingAssumption
<1>2. \A q \in Nat : (c + p) * q = c * q + p * q
  OBVIOUS
<1>3. (c + p) * FUNDING_PERIOD = c * FUNDING_PERIOD + p * FUNDING_PERIOD
  BY <1>1, <1>2
<1>4. c * FUNDING_PERIOD \in Nat /\ p * FUNDING_PERIOD \in Nat
  BY <1>1
<1> QED  BY <1>3, <1>4

LEMMA RateType ==
    ASSUME NEW longOI \in Nat, NEW shortOI \in Nat, NEW cap \in Nat, longOI + shortOI # 0
    PROVE  FundingRate(longOI, shortOI, cap) \in Int
<1> DEFINE imbalance == SignedDiv((longOI - shortOI) * WAD, longOI + shortOI)
<1>1. WAD \in Nat \ {0}
  BY UnitsAssumption
<1>2. (longOI - shortOI) * WAD \in Int
  BY <1>1, ProductTypes
<1>3. imbalance \in Int
  BY <1>2, SignedDivType
<1> HIDE DEF imbalance
<1>4. imbalance * cap \in Int
  BY <1>3, ProductTypes
<1>5. SignedDiv(imbalance * cap, WAD) \in Int
  BY <1>1, <1>4, SignedDivType
<1>6. \A r \in Int : Capped(r, cap) \in Int
  BY DEF Capped
<1> QED  BY <1>5, <1>6 DEF FundingRate, imbalance

LEMMA PaymentType ==
    ASSUME NEW pos \in PositionData, NEW rate \in Int, NEW periods \in Nat
    PROVE  FundingPayment(pos, rate, periods) \in Int
<1>1. pos.size \in Int
  BY DEF PositionData
<1>2. pos.size * rate \in Int
  BY <1>1, ProductTypes
<1>3. (pos.size * rate) * periods \in Int
  BY <1>2, ProductTypes
<1>4. SignedDiv(pos.size * rate * periods, 10000) \in Int
  BY <1>3, SignedDivType
<1> QED  BY <1>4 DEF FundingPayment

-----------------------------------------------------------------------------
(* What the induction carries beside the ledger's types.                    *)
ClockInv ==
    /\ marketConfig \in [Markets -> MarketConfig]
    /\ fundingEngine \in FundingEngines
    /\ accumulatedFunding \in [PositionIds -> Int]
    /\ lastFundingTime \in [Markets -> Nat]
    /\ now \in Nat
    /\ chargedPeriods \in [Markets -> Nat]
    /\ \A m \in Markets : lastFundingTime[m] <= now
    /\ NoPeriodChargedTwice

LEMMA ClockInvInit == FundingInit => ClockInv
<1> SUFFICES ASSUME FundingInit PROVE ClockInv
  OBVIOUS
<1>1. UnfundedMarket \in MarketConfig
  BY DEF UnfundedMarket, MarketConfig
<1>2. StartTime \in Nat /\ FUNDING_PERIOD \in Nat
  BY FundingAssumption
<1>3. 0 * FUNDING_PERIOD = 0
  BY <1>2
<1> QED  BY <1>1, <1>2, <1>3 DEF FundingInit, ClockInv, NoPeriodChargedTwice

(* A skipped application moves the date forward and charges nothing.        *)
LEMMA SkipKeepsClock ==
    ASSUME ClockInv, NEW m \in Markets,
           lastFundingTime' = [lastFundingTime EXCEPT ![m] = now],
           UNCHANGED <<marketConfig, fundingEngine, accumulatedFunding, now, chargedPeriods>>
    PROVE  ClockInv'
<1>1. \A k \in Markets : lastFundingTime'[k] >= lastFundingTime[k] /\ lastFundingTime'[k] <= now
  BY DEF ClockInv
<1>2. \A k \in Markets : chargedPeriods'[k] * FUNDING_PERIOD <= lastFundingTime'[k]
  <2> SUFFICES ASSUME NEW k \in Markets
               PROVE  chargedPeriods[k] * FUNDING_PERIOD <= lastFundingTime'[k]
    OBVIOUS
  <2>1. chargedPeriods[k] * FUNDING_PERIOD \in Nat
    BY FundingAssumption DEF ClockInv
  <2>2. chargedPeriods[k] * FUNDING_PERIOD <= lastFundingTime[k]
    BY DEF ClockInv, NoPeriodChargedTwice
  <2>3. lastFundingTime[k] \in Nat /\ lastFundingTime'[k] \in Nat
    BY DEF ClockInv
  <2> QED  BY <1>1, <2>1, <2>2, <2>3
<1> QED  BY <1>1, <1>2 DEF ClockInv, NoPeriodChargedTwice

LEMMA ChargeKeepsClock ==
    ASSUME CoreTypeOK, ClockInv, NEW m \in Markets, ChargePositions(m)
    PROVE  ClockInv'
<1> DEFINE rate == FundingRate(openInterest[m]["LONG"], openInterest[m]["SHORT"],
                               marketConfig[m].maxFundingRateBps)
           waited == now - lastFundingTime[m]
<1>1. waited \in Nat
  BY DEF ClockInv
<1>2. Periods(m) \in Nat /\ Periods(m) * FUNDING_PERIOD <= waited
  BY <1>1, PeriodsFit DEF Periods
<1>3. rate \in Int
  <2>1. openInterest[m]["LONG"] \in Nat /\ openInterest[m]["SHORT"] \in Nat
    BY DEF CoreTypeOK, LedgerTypeOK, Sides
  <2>2. marketConfig[m].maxFundingRateBps \in Nat
    BY DEF ClockInv, MarketConfig
  <2>3. openInterest[m]["LONG"] + openInterest[m]["SHORT"] # 0
    BY DEF ChargePositions, TotalOI
  <2> QED  BY <2>1, <2>2, <2>3, RateType
<1> HIDE DEF rate
<1>4. \A id \in PositionIds : FundingPayment(positions[id], rate, Periods(m)) \in Int
  BY <1>2, <1>3, PaymentType DEF CoreTypeOK, LedgerTypeOK
<1>5. accumulatedFunding' \in [PositionIds -> Int]
  BY <1>4 DEF ChargePositions, rate, ClockInv
<1>6. /\ lastFundingTime' = [lastFundingTime EXCEPT ![m] = now]
      /\ chargedPeriods' = [chargedPeriods EXCEPT ![m] = @ + Periods(m)]
      /\ UNCHANGED <<marketConfig, fundingEngine, now>>
  BY DEF ChargePositions
<1>7. (chargedPeriods[m] + Periods(m)) * FUNDING_PERIOD <= now
  <2>1. chargedPeriods[m] * FUNDING_PERIOD <= lastFundingTime[m]
    BY DEF ClockInv, NoPeriodChargedTwice
  <2> HIDE DEF Periods
  <2> QED  BY <1>2, <2>1, ChargesFit DEF ClockInv
<1>8. NoPeriodChargedTwice'
  <2> HIDE DEF Periods
  <2> SUFFICES ASSUME NEW k \in Markets
               PROVE  chargedPeriods'[k] * FUNDING_PERIOD <= lastFundingTime'[k]
    BY DEF NoPeriodChargedTwice
  <2>1. CASE k = m
    BY <1>6, <1>7, <2>1 DEF ClockInv
  <2>2. CASE k # m
    BY <1>6, <2>2 DEF ClockInv, NoPeriodChargedTwice
  <2> QED  BY <2>1, <2>2
<1>9. /\ lastFundingTime' \in [Markets -> Nat] /\ chargedPeriods' \in [Markets -> Nat]
      /\ \A k \in Markets : lastFundingTime'[k] <= now'
  BY <1>2, <1>6 DEF ClockInv
<1> QED  BY <1>5, <1>6, <1>8, <1>9 DEF ClockInv

LEMMA ClockInvNext ==
    ASSUME CoreTypeOK, ClockInv, [FundingNext]_fvars
    PROVE  ClockInv'
<1>1. CASE TradingStep
  <2>1. accumulatedFunding' \in [PositionIds -> Int]
    BY <1>1 DEF TradingStep, FundingOfRecords, ClockInv
  <2> QED  BY <1>1, <2>1 DEF TradingStep, ClockInv, NoPeriodChargedTwice
<1>2. CASE ConfigStep
  <2>1. ASSUME NEW m \in Markets, NEW c \in FundingConfigs, setMarketConfig(m, c)
        PROVE  ClockInv'
    <3>1. c \in MarketConfig
      BY FundingAssumption DEF MarketConfig
    <3> QED  BY <2>1, <3>1 DEF setMarketConfig, ClockInv, NoPeriodChargedTwice
  <2>2. ASSUME NEW e \in FundingEngines, setFundingEngine(e)
        PROVE  ClockInv'
    BY <2>2 DEF setFundingEngine, ClockInv, NoPeriodChargedTwice
  <2> QED  BY <1>2, <2>1, <2>2 DEF ConfigStep
<1>3. CASE FundingStep
  <2>1. ASSUME NEW caller \in OtherCallers, NEW id \in PositionIds, NEW value \in WrittenFunding,
               updateAccumulatedFunding(caller, id, value)
        PROVE  ClockInv'
    <3>1. value \in Int
      BY FundingAssumption
    <3> QED  BY <2>1, <3>1 DEF updateAccumulatedFunding, ClockInv, NoPeriodChargedTwice
  <2>2. ASSUME NEW m \in Markets, SkipDisabled(m)
        PROVE  ClockInv'
    BY <2>2, SkipKeepsClock DEF SkipDisabled
  <2>3. ASSUME NEW m \in Markets, SkipEmpty(m)
        PROVE  ClockInv'
    BY <2>3, SkipKeepsClock DEF SkipEmpty
  <2>4. ASSUME NEW m \in Markets, ChargePositions(m)
        PROVE  ClockInv'
    BY <2>4, ChargeKeepsClock
  <2> QED  BY <1>3, <2>1, <2>2, <2>3, <2>4 DEF FundingStep, applyFundingRate
<1>4. CASE Tick
  BY <1>4 DEF Tick, ClockInv, NoPeriodChargedTwice
<1>5. CASE UNCHANGED fvars
  BY <1>5 DEF fvars, fundingVars, ClockInv, NoPeriodChargedTwice
<1> QED  BY <1>1, <1>2, <1>3, <1>4, <1>5 DEF FundingNext

LEMMA ClockInvHolds == FundingSpec => []ClockInv
<1>1. FundingSpec => []CoreTypeOK
  BY FundingLeavesTheLedger, CoreTypesCorrect, PTL
<1>2. FundingInit => ClockInv
  BY ClockInvInit
<1>3. CoreTypeOK /\ ClockInv /\ [FundingNext]_fvars => ClockInv'
  BY ClockInvNext
<1> QED  BY <1>1, <1>2, <1>3, PTL DEF FundingSpec, fvars

(* Type correctness of the ledger and the funding state together.           *)
THEOREM FundingTypeCorrect == FundingSpec => []FundingTypeOK
<1>1. CoreTypeOK /\ ClockInv => FundingTypeOK
  BY DEF ClockInv, FundingTypeOK
<1>2. FundingSpec => []CoreTypeOK
  BY FundingLeavesTheLedger, CoreTypesCorrect, PTL
<1> QED  BY <1>1, <1>2, ClockInvHolds, PTL

(* All periods ever charged to a market fit before its last application.    *)
THEOREM NoDoubleCharge == FundingSpec => []NoPeriodChargedTwice
<1>1. ClockInv => NoPeriodChargedTwice
  BY DEF ClockInv
<1> QED  BY <1>1, ClockInvHolds, PTL

-----------------------------------------------------------------------------
(* Only ChargePositions adds to the charged periods.                        *)
LEMMA OnlyChargesApply ==
    ASSUME ClockInv, [FundingNext]_fvars, NEW m \in Markets, Applied(m)
    PROVE  ChargePositions(m)
<1>1. CASE TradingStep \/ ConfigStep \/ Tick \/ UNCHANGED fvars
  BY <1>1 DEF TradingStep, ConfigStep, setMarketConfig, setFundingEngine, Tick, fvars,
     fundingVars, Applied
<1>2. CASE FundingStep
  <2>1. PICK k \in Markets : ChargePositions(k)
    BY <1>2 DEF FundingStep, updateAccumulatedFunding, applyFundingRate, SkipDisabled, SkipEmpty,
       Applied
  <2>2. chargedPeriods' = [chargedPeriods EXCEPT ![k] = @ + Periods(k)]
    BY <2>1 DEF ChargePositions
  <2>3. k = m
    BY <2>2 DEF Applied, ClockInv
  <2> QED  BY <2>1, <2>3
<1> QED  BY <1>1, <1>2 DEF FundingNext

(* While PositionManager names the engine, nobody is charged.               *)
THEOREM NoFundingOnceRegistered == FundingSpec => RegistrationEndsFunding
<1>1. ASSUME ClockInv, [FundingNext]_fvars, fundingEngine = ThisEngine,
             NEW m \in Markets, Applied(m)
      PROVE  ListedOpen(m) = {}
  <2>1. ListedOpen(m) # {} => MayWriteFunding(ThisEngine)
    BY <1>1, OnlyChargesApply DEF ChargePositions
  <2> QED  BY <1>1, <2>1 DEF MayWriteFunding, onlyFundingEngine
<1>2. ClockInv /\ [FundingNext]_fvars =>
         [ fundingEngine = ThisEngine =>
             \A m \in Markets : Applied(m) => ListedOpen(m) = {} ]_fvars
  BY <1>1
<1> QED  BY <1>2, ClockInvHolds, PTL DEF FundingSpec, RegistrationEndsFunding, fvars

(* No call that gets through while PositionManager is paused or everything  *)
(* is halted deletes a record or opens one in its place.                    *)
LEMMA OpenStaysOpen ==
    ASSUME LedgerInv, [Next]_vars,
           ~whenNotEmergencyPaused("POSITION_MANAGER") \/ globalHalt, NEW id \in OpenIds
    PROVE  positions'[id].opened = positions[id].opened
<1>1. CASE OpenStep
  <2>1. PICK pos \in PositionData :
           /\ positionIdCounter \in PositionIds /\ ~IsOpen(positionIdCounter)
           /\ positions' = [positions EXCEPT ![positionIdCounter] = pos]
    BY <1>1, OpenEffect
  <2>2. id # positionIdCounter /\ id \in PositionIds /\ positions \in [PositionIds -> PositionData]
    BY <2>1 DEF OpenIds, LedgerInv, CoreTypeOK, LedgerTypeOK
  <2> QED  BY <2>1, <2>2
<1>2. CASE UNCHANGED vars \/ AdminStep \/ GuardianStep
  BY <1>2 DEF vars, ledgerVars, AdminStep, setMarketRiskConfig, setTradingEngine,
     setLiquidationEngine, GuardianStep
<1>3. CASE ModifyStep \/ MarkStep
  BY <1>3 DEF ModifyStep, modifyPosition, MarkStep, updatePositionState, whenGlobalCircuitActivated
<1>4. CASE CloseStep \/ ForceCloseStep
  BY <1>4 DEF CloseStep, ForceCloseStep, closePosition, forceClosePosition, CloseBody,
     whenGlobalCircuitActivated
<1> QED  BY <1>1, <1>2, <1>3, <1>4 DEF Next

(* A pause or a halt freezes the funding of every open position.            *)
THEOREM PauseFreezesFundingToo == FundingSpec => PauseFreezesFunding
<1> DEFINE Frozen == ~whenNotEmergencyPaused("POSITION_MANAGER") \/ globalHalt
<1>1. ASSUME LedgerInv, ClockInv, [FundingNext]_fvars, Frozen, NEW id \in OpenIds
      PROVE  accumulatedFunding'[id] = accumulatedFunding[id]
  <2>1. CASE TradingStep
    <3>1. positions'[id].opened = positions[id].opened
      BY <1>1, <2>1, OpenStaysOpen DEF TradingStep
    <3>2. id \in PositionIds
      BY DEF OpenIds
    <3> QED  BY <2>1, <3>1, <3>2 DEF TradingStep, FundingOfRecords
  <2>2. CASE ConfigStep \/ Tick \/ UNCHANGED fvars
    BY <2>2 DEF ConfigStep, setMarketConfig, setFundingEngine, Tick, fvars, fundingVars
  <2>3. CASE \E caller \in OtherCallers, k \in PositionIds, value \in WrittenFunding :
                updateAccumulatedFunding(caller, k, value)
    BY <1>1, <2>3 DEF updateAccumulatedFunding, MayWriteFunding, whenGlobalCircuitActivated
  <2>4. CASE \E m \in Markets : SkipDisabled(m) \/ SkipEmpty(m)
    BY <2>4 DEF SkipDisabled, SkipEmpty
  <2>5. ASSUME NEW m \in Markets, ChargePositions(m)
        PROVE  accumulatedFunding'[id] = accumulatedFunding[id]
    <3>1. ~MayWriteFunding(ThisEngine)
      BY <1>1 DEF MayWriteFunding, whenGlobalCircuitActivated
    <3>2. ListedOpen(m) = {}
      BY <2>5, <3>1 DEF ChargePositions
    <3>3. id \in PositionIds /\ accumulatedFunding[id] \in Int
      BY <1>1 DEF OpenIds, ClockInv
    <3> QED  BY <2>5, <3>2, <3>3 DEF ChargePositions
  <2> QED  BY <1>1, <2>1, <2>2, <2>3, <2>4, <2>5 DEF FundingNext, FundingStep, applyFundingRate
<1>2. LedgerInv /\ ClockInv /\ [FundingNext]_fvars =>
         [Frozen => \A id \in OpenIds : accumulatedFunding'[id] = accumulatedFunding[id]]_fvars
  BY <1>1
<1>3. FundingSpec => []LedgerInv
  BY FundingLeavesTheLedger, LedgerInvHolds, PTL
<1> QED  BY <1>2, <1>3, ClockInvHolds, PTL DEF FundingSpec, PauseFreezesFunding, fvars

(* PositionManager's guards of its records hold in the ledger with funding: *)
(* against every caller while it is paused, and against the engine it names *)
(* at all times.                                                            *)
THEOREM RecordsStayGuarded == FundingSpec => RecordsGuarded
  BY FundingLeavesTheLedger, PauseFreezes, PauseFreezesFundingToo, NoFundingOnceRegistered
  DEF RecordsGuarded

-----------------------------------------------------------------------------
(* FUNDING flows from the crowded side to the other.                        *)

(* The rate takes the sign of the longs' lead.                              *)
LEMMA SignedDivSign ==
    ASSUME NEW a \in Int, NEW b \in Nat \ {0}
    PROVE  /\ SignedDiv(a, b) \in Int
           /\ a >= 0 => SignedDiv(a, b) >= 0
           /\ a <= 0 => SignedDiv(a, b) <= 0
<1>1. SignedDiv(a, b) \in Int
  BY SignedDivType
<1>2. CASE a >= 0
  <2>1. a \div b \in Nat
    BY <1>2, DivTypes
  <2>2. a <= 0 => a \div b = 0
    <3>1. b * (a \div b) <= a
      BY <1>2, DivBounds
    <3>2. \A n \in Nat, c \in Nat \ {0} : c * n <= 0 => n = 0
      OBVIOUS
    <3> QED  BY <1>2, <2>1, <3>1, <3>2
  <2> QED  BY <1>1, <1>2, <2>1, <2>2 DEF SignedDiv
<1>3. CASE a < 0
  <2>1. (-a) \div b \in Nat
    BY <1>3, DivTypes
  <2> QED  BY <1>1, <1>3, <2>1 DEF SignedDiv
<1> QED  BY <1>2, <1>3

LEMMA ProductSign ==
    ASSUME NEW a \in Int, NEW b \in Nat
    PROVE  a * b \in Int /\ (a >= 0 => a * b >= 0) /\ (a <= 0 => a * b <= 0)
  OBVIOUS

LEMMA RateSign ==
    ASSUME NEW longOI \in Nat, NEW shortOI \in Nat, NEW cap \in Nat, longOI + shortOI # 0
    PROVE  /\ FundingRate(longOI, shortOI, cap) \in Int
           /\ longOI >= shortOI => FundingRate(longOI, shortOI, cap) >= 0
           /\ longOI <= shortOI => FundingRate(longOI, shortOI, cap) <= 0
<1> DEFINE lead == longOI - shortOI
           imbalance == SignedDiv(lead * WAD, longOI + shortOI)
           rate == SignedDiv(imbalance * cap, WAD)
<1>1. WAD \in Nat \ {0} /\ longOI + shortOI \in Nat \ {0} /\ lead \in Int
  BY UnitsAssumption
<1> HIDE DEF lead
<1>2. lead * WAD \in Int /\ (lead >= 0 => lead * WAD >= 0) /\ (lead <= 0 => lead * WAD <= 0)
  BY <1>1, ProductSign
<1>3. imbalance \in Int /\ (lead >= 0 => imbalance >= 0) /\ (lead <= 0 => imbalance <= 0)
  BY <1>1, <1>2, SignedDivSign
<1> HIDE DEF imbalance
<1>4. /\ imbalance * cap \in Int
      /\ lead >= 0 => imbalance * cap >= 0
      /\ lead <= 0 => imbalance * cap <= 0
  BY <1>3, ProductSign
<1>5. rate \in Int /\ (lead >= 0 => rate >= 0) /\ (lead <= 0 => rate <= 0)
  BY <1>1, <1>4, SignedDivSign
<1> HIDE DEF rate
<1>6. Capped(rate, cap) \in Int /\ (lead >= 0 => Capped(rate, cap) >= 0)
      /\ (lead <= 0 => Capped(rate, cap) <= 0)
  BY <1>5 DEF Capped
<1>7. FundingRate(longOI, shortOI, cap) = Capped(rate, cap)
  BY DEF FundingRate, rate, imbalance, lead
<1> QED  BY <1>6, <1>7 DEF lead

(* What a position receives: at most what its share of the rate comes to,   *)
(* rounded towards zero.                                                    *)
LEMMA SignedDivNear ==
    ASSUME NEW a \in Int
    PROVE  /\ 10000 * SignedDiv(a, 10000) <= a + 10000
           /\ 10000 * (-SignedDiv(a, 10000)) <= -a + 10000
<1>1. CASE a >= 0
  <2>1. SignedDiv(a, 10000) = a \div 10000
    BY <1>1 DEF SignedDiv
  <2> QED  BY <1>1, <2>1
<1>2. CASE a < 0
  <2>1. SignedDiv(a, 10000) = -((-a) \div 10000)
    BY <1>2 DEF SignedDiv
  <2> QED  BY <1>2, <2>1
<1> QED  BY <1>1, <1>2

LEMMA PaymentFollowsRate ==
    ASSUME NEW pos \in PositionData, NEW rate \in Int, NEW periods \in Nat
    PROVE  LET paid == FundingPayment(pos, rate, periods)
               k == rate * periods
           IN  /\ paid \in Int /\ k \in Int
               /\ pos.side = "LONG" => /\ rate >= 0 => paid <= 0
                                       /\ rate <= 0 => paid >= 0
                                       /\ 10000 * paid <= -(k * pos.size) + 10000
               /\ pos.side # "LONG" => /\ rate >= 0 => paid >= 0
                                       /\ rate <= 0 => paid <= 0
                                       /\ 10000 * paid <= k * pos.size + 10000
<1> DEFINE k == rate * periods
           n == pos.size * rate * periods
           base == SignedDiv(n, 10000)
<1>1. pos.size \in Nat
  BY DEF PositionData
<1>2. k \in Int /\ (rate >= 0 => k >= 0) /\ (rate <= 0 => k <= 0)
  BY ProductSign
<1>3. n = k * pos.size
  <2>1. \A a, b, c \in Int : a * b * c = (b * c) * a
    OBVIOUS
  <2> QED  BY <1>1, <2>1
<1> HIDE DEF k, n
<1>4. n \in Int /\ (rate >= 0 => n >= 0) /\ (rate <= 0 => n <= 0)
  BY <1>1, <1>2, <1>3, ProductSign
<1>5. base \in Int /\ (rate >= 0 => base >= 0) /\ (rate <= 0 => base <= 0)
  BY <1>4, SignedDivSign
<1>6. 10000 * base <= n + 10000 /\ 10000 * (-base) <= -n + 10000
  BY <1>4, SignedDivNear
<1>7. FundingPayment(pos, rate, periods) = IF pos.side = "LONG" THEN -base ELSE base
  BY DEF FundingPayment, base, n
<1> HIDE DEF base
<1>8. CASE pos.side = "LONG"
  <2>1. FundingPayment(pos, rate, periods) = -base
    BY <1>7, <1>8
  <2> QED  BY <1>2, <1>3, <1>4, <1>5, <1>6, <1>8, <2>1 DEF k
<1>9. CASE pos.side # "LONG"
  <2>1. FundingPayment(pos, rate, periods) = base
    BY <1>7, <1>9
  <2> QED  BY <1>2, <1>3, <1>4, <1>5, <1>6, <1>9, <2>1 DEF k
<1> QED  BY <1>8, <1>9

(* Added up over T: what the members of two groups receive, each at most    *)
(* its share of k plus one whole, against what the groups' sizes come to.   *)
Balanced(recv, size, L, R, k, T) ==
    10000 * SumFunctionOnSet(recv, T)
       <= k * (SumFunctionOnSet(size, T \cap R) - SumFunctionOnSet(size, T \cap L)) + 10000 * Cardinality(T)

LEMMA BalanceArithmetic ==
    ASSUME NEW k \in Int, NEW r \in Int, NEW lead \in Int, NEW c \in Int,
           NEW x \in Int, NEW w \in Int,
           10000 * r <= k * lead + 10000 * c, 10000 * x <= k * w + 10000
    PROVE  10000 * (r + x) <= k * (lead + w) + 10000 * (c + 1)
<1>1. k * (lead + w) = k * lead + k * w /\ k * lead \in Int /\ k * w \in Int
  OBVIOUS
<1> QED  BY <1>1

Owed(recv, size, L, R, k, x) ==
    /\ x \in L => 10000 * recv[x] <= k * (-size[x]) + 10000
    /\ x \in R => 10000 * recv[x] <= k * size[x] + 10000

LEMMA BalanceStep ==
    ASSUME NEW D, NEW recv \in [D -> Int], NEW size \in [D -> Int],
           NEW L, NEW R, L \cap R = {}, NEW k \in Int,
           NEW T, IsFiniteSet(T), T \subseteq D, NEW x \in D \ T, x \in L \cup R,
           Owed(recv, size, L, R, k, x),
           Balanced(recv, size, L, R, k, T)
    PROVE  Balanced(recv, size, L, R, k, T \cup {x})
<1> DEFINE A == T \cap L
           B == T \cap R
           U == T \cup {x}
           V == U \cap L
           W == U \cap R
<1>0. A = T \cap L /\ B = T \cap R /\ U = T \cup {x} /\ V = U \cap L /\ W = U \cap R
  OBVIOUS
<1> HIDE DEF A, B, U, V, W
<1>1. IsFiniteSet(A) /\ A \subseteq D /\ IsFiniteSet(B) /\ B \subseteq D
  BY <1>0, FS_Subset
<1>2. /\ SumFunctionOnSet(recv, T) \in Int
      /\ SumFunctionOnSet(recv, U) = SumFunctionOnSet(recv, T) + recv[x]
  BY <1>0, SumAdd
<1>3. Cardinality(U) = Cardinality(T) + 1 /\ Cardinality(T) \in Int
  <2>1. Cardinality(T \cup {x}) = Cardinality(T) + 1 /\ Cardinality(T) \in Nat
    BY FS_AddElement, FS_CardinalityType
  <2> QED  BY <1>0, <2>1
<1>4. SumFunctionOnSet(size, A) \in Int /\ SumFunctionOnSet(size, B) \in Int
  BY <1>1, SumType
<1>5. recv[x] \in Int /\ size[x] \in Int
  OBVIOUS
<1>6. CASE x \in L
  <2>1. W = B /\ V = A \cup {x} /\ x \in D \ A
    BY <1>0, <1>6
  <2>2. SumFunctionOnSet(size, A \cup {x}) = SumFunctionOnSet(size, A) + size[x]
    BY <1>1, <2>1, SumAdd
  <2>3. SumFunctionOnSet(size, W) - SumFunctionOnSet(size, V)
           = (SumFunctionOnSet(size, B) - SumFunctionOnSet(size, A)) + (-size[x])
    BY <1>4, <1>5, <2>1, <2>2
  <2>4. 10000 * SumFunctionOnSet(recv, T)
           <= k * (SumFunctionOnSet(size, B) - SumFunctionOnSet(size, A)) + 10000 * Cardinality(T)
    BY <1>0 DEF Balanced
  <2>5. 10000 * SumFunctionOnSet(recv, U)
           <= k * (SumFunctionOnSet(size, W) - SumFunctionOnSet(size, V)) + 10000 * Cardinality(U)
    BY <1>2, <1>3, <1>4, <1>5, <1>6, <2>3, <2>4, BalanceArithmetic DEF Owed
  <2> QED  BY <1>0, <2>5 DEF Balanced
<1>7. CASE x \in R
  <2>1. V = A /\ W = B \cup {x} /\ x \in D \ B
    BY <1>0, <1>7
  <2>2. SumFunctionOnSet(size, B \cup {x}) = SumFunctionOnSet(size, B) + size[x]
    BY <1>1, <2>1, SumAdd
  <2>3. SumFunctionOnSet(size, W) - SumFunctionOnSet(size, V)
           = (SumFunctionOnSet(size, B) - SumFunctionOnSet(size, A)) + size[x]
    BY <1>4, <1>5, <2>1, <2>2
  <2>4. 10000 * SumFunctionOnSet(recv, T)
           <= k * (SumFunctionOnSet(size, B) - SumFunctionOnSet(size, A)) + 10000 * Cardinality(T)
    BY <1>0 DEF Balanced
  <2>5. 10000 * SumFunctionOnSet(recv, U)
           <= k * (SumFunctionOnSet(size, W) - SumFunctionOnSet(size, V)) + 10000 * Cardinality(U)
    BY <1>2, <1>3, <1>4, <1>5, <1>7, <2>3, <2>4, BalanceArithmetic DEF Owed
  <2> QED  BY <1>0, <2>5 DEF Balanced
<1> QED  BY <1>6, <1>7

LEMMA FlowsBalance ==
    ASSUME NEW D, NEW recv \in [D -> Int], NEW size \in [D -> Int],
           NEW S, IsFiniteSet(S), S \subseteq D, NEW L, NEW R,
           L \cup R = S, L \cap R = {}, NEW k \in Int,
           \A x \in S : Owed(recv, size, L, R, k, x)
    PROVE  Balanced(recv, size, L, R, k, S)
<1> DEFINE F == { T \in SUBSET S : Balanced(recv, size, L, R, k, T) }
<1>1. {} \in F
  <2> DEFINE A == {} \cap L
             B == {} \cap R
  <2>0. A = {} \cap L /\ B = {} \cap R
    OBVIOUS
  <2> HIDE DEF A, B
  <2>1. A = {} /\ B = {} /\ Cardinality({}) = 0
    BY <2>0, FS_EmptySet
  <2>2. SumFunctionOnSet(recv, {}) = 0 /\ SumFunctionOnSet(size, {}) = 0
    BY SumEmpty
  <2>3. SumFunctionOnSet(size, B) = 0 /\ SumFunctionOnSet(size, A) = 0
    BY <2>1, <2>2
  <2>4. k * (0 - 0) = 0
    OBVIOUS
  <2>5. Balanced(recv, size, L, R, k, {})
    BY <2>0, <2>1, <2>2, <2>3, <2>4 DEF Balanced
  <2> QED  BY <2>5
<1>2. \A T \in SUBSET S, x \in S : T \in F /\ x \notin T => T \cup {x} \in F
  <2> SUFFICES ASSUME NEW T \in SUBSET S, NEW x \in S, T \in F, x \notin T PROVE T \cup {x} \in F
    OBVIOUS
  <2>1. IsFiniteSet(T) /\ T \subseteq D /\ x \in D \ T /\ x \in L \cup R
    BY FS_Subset
  <2>2. Balanced(recv, size, L, R, k, T)
    OBVIOUS
  <2> HIDE DEF F
  <2>3. Balanced(recv, size, L, R, k, T \cup {x})
    BY <2>1, <2>2, BalanceStep
  <2> QED  BY <2>3 DEF F
<1> HIDE DEF F
<1>3. S \in F
  <2>1. F \subseteq SUBSET S
    BY DEF F
  <2> QED  BY <1>1, <1>2, <2>1, FiniteSetInduction
<1> QED  BY <1>3 DEF F

-----------------------------------------------------------------------------
(* A market's list names no open position of another market: ids are used   *)
(* once.                                                                    *)
ListedHere ==
    \A m \in Markets : \A i \in ToSet(marketPositions[m]) :
        i < positionIdCounter /\ (IsOpen(i) => positions[i].marketId = m)

LEMMA ListedHereInit == Init => ListedHere
  BY DEF Init, ListedHere, ToSet

LEMMA OpenKeepsListed ==
    ASSUME LedgerInv, ListedHere, OpenStep PROVE ListedHere'
<1> DEFINE id == positionIdCounter
<1>1. LedgerTypeOK
  BY DEF LedgerInv, CoreTypeOK
<1>2. PICK m \in Markets, pos \in PositionData :
         /\ id \in PositionIds /\ pos.opened /\ pos.marketId = m
         /\ positions' = [positions EXCEPT ![id] = pos]
         /\ positionIdCounter' = id + 1
         /\ marketPositions' = [marketPositions EXCEPT ![m] = Append(@, id)]
  BY <1>1, OpenEffect
<1>3. id \in Nat /\ PositionIds \subseteq Nat
  BY <1>1, IdsAssumption DEF LedgerTypeOK
<1>4. SUFFICES ASSUME NEW n \in Markets, NEW i \in ToSet(marketPositions'[n])
               PROVE  i < id + 1 /\ (positions'[i].opened => positions'[i].marketId = n)
  BY <1>2 DEF ListedHere, IsOpen
<1>5. marketPositions[n] \in Seq(PositionIds)
  BY <1>1 DEF LedgerTypeOK
<1>6. CASE i \in ToSet(marketPositions[n])
  <2>1. i < id /\ i \in PositionIds /\ (positions[i].opened => positions[i].marketId = n)
    BY <1>5, <1>6 DEF ListedHere, ToSet, IsOpen
  <2>2. positions'[i] = positions[i]
    BY <1>1, <1>2, <1>3, <2>1 DEF LedgerTypeOK
  <2> QED  BY <1>3, <2>1, <2>2
<1>7. CASE i \notin ToSet(marketPositions[n])
  <2>1. n = m /\ marketPositions'[n] = Append(marketPositions[n], id)
    BY <1>1, <1>2, <1>4, <1>7 DEF LedgerTypeOK
  <2>2. \A q \in Seq(PositionIds) : \A e \in PositionIds : ToSet(Append(q, e)) \subseteq ToSet(q) \cup {e}
    BY DEF ToSet
  <2>3. i = id
    BY <1>2, <1>4, <1>5, <1>7, <2>1, <2>2
  <2>4. positions'[i] = pos
    BY <1>1, <1>2, <2>3 DEF LedgerTypeOK
  <2> QED  BY <1>2, <1>3, <2>1, <2>3, <2>4
<1> QED  BY <1>6, <1>7

LEMMA ListedHereNext ==
    ASSUME LedgerInv, ListedHere, [Next]_vars PROVE ListedHere'
<1>0. LedgerTypeOK
  BY DEF LedgerInv, CoreTypeOK
<1>1. CASE QuietStep
  BY <1>1 DEF QuietStep, ListedHere, IsOpen
<1>2. CASE OpenStep
  BY <1>2, OpenKeepsListed
<1>3. ASSUME NEW id \in PositionIds, NEW price \in Prices, NEW pos \in PositionData,
             MarkedStep(id, pos, price)
      PROVE  ListedHere'
  <2>1. /\ positions' = [positions EXCEPT ![id] = Marked(pos, price)]
        /\ Marked(pos, price).marketId = positions[id].marketId /\ IsOpen(id)
        /\ UNCHANGED <<positionIdCounter, marketPositions>>
    BY <1>3, MarkEffect DEF MarkedStep, Holding
  <2>2. \A m \in Markets : \A i \in ToSet(marketPositions[m]) : i \in PositionIds
    BY <1>0 DEF LedgerTypeOK, ToSet
  <2> QED  BY <1>0, <2>1, <2>2 DEF ListedHere, LedgerTypeOK, IsOpen
<1>4. ASSUME NEW id \in PositionIds, CloseBody(id) PROVE ListedHere'
  <2>1. /\ positions' = [positions EXCEPT ![id] = ZeroPosition] /\ ~ZeroPosition.opened
        /\ UNCHANGED <<positionIdCounter, marketPositions>>
    BY <1>4, CloseEffect DEF ZeroPosition
  <2>2. \A m \in Markets : \A i \in ToSet(marketPositions[m]) : i \in PositionIds
    BY <1>0 DEF LedgerTypeOK, ToSet
  <2> QED  BY <1>0, <2>1, <2>2 DEF ListedHere, LedgerTypeOK, IsOpen
<1> QED  BY <1>1, <1>2, <1>3, <1>4, StepKinds

(* What the market's list and the counters of open interest owe to the      *)
(* records, together.                                                       *)
MarketInv == LedgerInv /\ ListsExact /\ OpenInterestExact /\ ListedHere

LEMMA MarketInvHolds == Spec => []MarketInv
<1>1. LedgerInv /\ ListedHere /\ [Next]_vars => ListedHere'
  BY ListedHereNext
<1>2. BooksInv => LedgerInv /\ OpenInterestExact
  BY DEF BooksInv
<1>3. Spec => []ListedHere
  BY <1>1, ListedHereInit, LedgerInvHolds, PTL DEF Spec
<1> QED  BY <1>2, <1>3, ListsStayExact, BooksInvHolds, PTL DEF MarketInv

LEMMA ListedAreOpen ==
    ASSUME MarketInv, NEW m \in Markets
    PROVE  /\ ListedOpen(m) = { i \in OpenIds : positions[i].marketId = m }
           /\ OpenOn(m, "LONG") \cup OpenOn(m, "SHORT") = ListedOpen(m)
           /\ OpenOn(m, "LONG") \cap OpenOn(m, "SHORT") = {}
           /\ ListedOpen(m) \subseteq PositionIds /\ IsFiniteSet(ListedOpen(m))
<1>0. LedgerTypeOK
  BY DEF MarketInv, LedgerInv, CoreTypeOK
<1>1. ASSUME NEW i \in ListedOpen(m) PROVE i \in OpenIds /\ positions[i].marketId = m
  BY <1>0, <1>1 DEF MarketInv, ListedHere, ListedOpen, OpenIds, LedgerTypeOK, ToSet
<1>2. ASSUME NEW i \in OpenIds, positions[i].marketId = m PROVE i \in ListedOpen(m)
  BY <1>0, <1>2 DEF MarketInv, ListsExact, Contains, ListedOpen, OpenIds, LedgerTypeOK, ToSet
<1>3. ListedOpen(m) = { i \in OpenIds : positions[i].marketId = m }
  BY <1>1, <1>2
<1>4. \A i \in OpenIds : positions[i].side \in {"LONG", "SHORT"}
  BY <1>0 DEF OpenIds, LedgerTypeOK, PositionData, Sides
<1>5. ListedOpen(m) \subseteq PositionIds /\ IsFiniteSet(ListedOpen(m))
  BY <1>3, IdsAssumption, FS_Subset DEF OpenIds
<1> QED  BY <1>3, <1>4, <1>5 DEF OpenOn

-----------------------------------------------------------------------------
(* What an application leaves on a record.                                  *)
LEMMA WhatIsReceived ==
    ASSUME MarketInv, ClockInv, NEW m \in Markets, ChargePositions(m)
    PROVE  \E rate \in Int :
              /\ openInterest[m]["LONG"] >= openInterest[m]["SHORT"] => rate >= 0
              /\ openInterest[m]["LONG"] <= openInterest[m]["SHORT"] => rate <= 0
              /\ \A i \in PositionIds :
                    Received(i) = IF i \in ListedOpen(m)
                                  THEN FundingPayment(positions[i], rate, Periods(m)) ELSE 0
<1> DEFINE rate == FundingRate(openInterest[m]["LONG"], openInterest[m]["SHORT"],
                               marketConfig[m].maxFundingRateBps)
<1>0. CoreTypeOK /\ LedgerTypeOK
  BY DEF MarketInv, LedgerInv, CoreTypeOK
<1>1. /\ rate \in Int
      /\ openInterest[m]["LONG"] >= openInterest[m]["SHORT"] => rate >= 0
      /\ openInterest[m]["LONG"] <= openInterest[m]["SHORT"] => rate <= 0
  <2>1. openInterest[m]["LONG"] \in Nat /\ openInterest[m]["SHORT"] \in Nat
    BY <1>0 DEF LedgerTypeOK, Sides
  <2>2. marketConfig[m].maxFundingRateBps \in Nat
    BY DEF ClockInv, MarketConfig
  <2>3. openInterest[m]["LONG"] + openInterest[m]["SHORT"] # 0
    BY DEF ChargePositions, TotalOI
  <2> QED  BY <2>1, <2>2, <2>3, RateSign
<1>2. accumulatedFunding' = [id \in PositionIds |->
              accumulatedFunding[id] + IF id \in ListedOpen(m)
                                       THEN FundingPayment(positions[id], rate, Periods(m))
                                       ELSE 0]
  BY DEF ChargePositions
<1> HIDE DEF rate
<1>3. Periods(m) \in Nat
  <2>1. now - lastFundingTime[m] \in Nat
    BY DEF ClockInv
  <2> QED  BY <2>1, PeriodsFit DEF Periods
<1>4. ASSUME NEW i \in PositionIds
      PROVE  Received(i) = IF i \in ListedOpen(m)
                           THEN FundingPayment(positions[i], rate, Periods(m)) ELSE 0
  <2>1. accumulatedFunding[i] \in Int
    BY DEF ClockInv
  <2>2. positions[i] \in PositionData
    BY <1>0 DEF LedgerTypeOK
  <2>3. FundingPayment(positions[i], rate, Periods(m)) \in Int
    BY <1>1, <1>3, <2>2, PaymentType
  <2>4. accumulatedFunding'[i] = accumulatedFunding[i] + IF i \in ListedOpen(m)
                                       THEN FundingPayment(positions[i], rate, Periods(m))
                                       ELSE 0
    BY <1>2
  <2> QED  BY <2>1, <2>3, <2>4 DEF Received
<1> QED  BY <1>1, <1>4

LEMMA PaymentHasSide ==
    ASSUME NEW pos \in PositionData, NEW rate \in Int, NEW periods \in Nat
    PROVE  LET paid == FundingPayment(pos, rate, periods)
           IN  /\ paid \in Int
               /\ pos.side = "LONG" => (rate >= 0 => paid <= 0) /\ (rate <= 0 => paid >= 0)
               /\ pos.side # "LONG" => (rate >= 0 => paid >= 0) /\ (rate <= 0 => paid <= 0)
  BY PaymentFollowsRate

SidesPayRightly(m) ==
    \A id \in PositionIds :
        IF id \in OpenIds /\ positions[id].marketId = m
        THEN LET lead == openInterest[m]["LONG"] - openInterest[m]["SHORT"]
             IN  IF positions[id].side = "LONG"
                 THEN (lead >= 0 => Received(id) <= 0) /\ (lead <= 0 => Received(id) >= 0)
                 ELSE (lead >= 0 => Received(id) >= 0) /\ (lead <= 0 => Received(id) <= 0)
        ELSE Received(id) = 0

LEMMA ChargeSides ==
    ASSUME MarketInv, ClockInv, NEW m \in Markets, ChargePositions(m)
    PROVE  SidesPayRightly(m)
<1>0. CoreTypeOK /\ LedgerTypeOK
  BY DEF MarketInv, LedgerInv, CoreTypeOK
<1>1. PICK rate \in Int :
         /\ openInterest[m]["LONG"] >= openInterest[m]["SHORT"] => rate >= 0
         /\ openInterest[m]["LONG"] <= openInterest[m]["SHORT"] => rate <= 0
         /\ \A i \in PositionIds :
               Received(i) = IF i \in ListedOpen(m)
                             THEN FundingPayment(positions[i], rate, Periods(m)) ELSE 0
  BY WhatIsReceived
<1>2. Periods(m) \in Nat
  <2>1. now - lastFundingTime[m] \in Nat
    BY DEF ClockInv
  <2> QED  BY <2>1, PeriodsFit DEF Periods
<1>3. openInterest[m]["LONG"] \in Nat /\ openInterest[m]["SHORT"] \in Nat
  BY <1>0 DEF LedgerTypeOK, Sides
<1>4. ASSUME NEW id \in PositionIds, id \in OpenIds, positions[id].marketId = m
      PROVE  LET lead == openInterest[m]["LONG"] - openInterest[m]["SHORT"]
             IN  IF positions[id].side = "LONG"
                 THEN (lead >= 0 => Received(id) <= 0) /\ (lead <= 0 => Received(id) >= 0)
                 ELSE (lead >= 0 => Received(id) >= 0) /\ (lead <= 0 => Received(id) <= 0)
  <2>1. Received(id) = FundingPayment(positions[id], rate, Periods(m))
    BY <1>1, <1>4, ListedAreOpen
  <2>2. positions[id] \in PositionData
    BY <1>0 DEF LedgerTypeOK
  <2> DEFINE paid == FundingPayment(positions[id], rate, Periods(m))
  <2>3. /\ paid \in Int
        /\ positions[id].side = "LONG" => (rate >= 0 => paid <= 0) /\ (rate <= 0 => paid >= 0)
        /\ positions[id].side # "LONG" => (rate >= 0 => paid >= 0) /\ (rate <= 0 => paid <= 0)
    BY <1>2, <2>2, PaymentHasSide
  <2> HIDE DEF paid
  <2>4. Received(id) = paid
    BY <2>1 DEF paid
  <2> QED  BY <1>1, <1>3, <2>3, <2>4
<1>5. ASSUME NEW id \in PositionIds, ~(id \in OpenIds /\ positions[id].marketId = m)
      PROVE  Received(id) = 0
  BY <1>1, <1>5, ListedAreOpen
<1> QED  BY <1>4, <1>5 DEF SidesPayRightly

(* An application takes nothing from the lighter side, gives nothing to the *)
(* heavier one, and leaves every other record alone.                        *)
THEOREM FundingFlowsOneWay == FundingSpec => CrowdedSidePays
<1>1. MarketInv /\ ClockInv /\ [FundingNext]_fvars =>
         [ \A m \in Markets : Applied(m) => SidesPayRightly(m) ]_fvars
  BY OnlyChargesApply, ChargeSides
<1>2. FundingSpec => []MarketInv
  BY FundingLeavesTheLedger, MarketInvHolds, PTL
<1>3. FundingSpec => [][ \A m \in Markets : Applied(m) => SidesPayRightly(m) ]_fvars
  BY <1>1, <1>2, ClockInvHolds, PTL DEF FundingSpec, fvars
<1> QED  BY <1>3 DEF CrowdedSidePays, SidesPayRightly, fvars

(* The payments of one application, added up.                               *)
PaidOut(m) == SumFunctionOnSet([id \in PositionIds |-> Received(id)], ListedOpen(m))

(* What a position receives is within a unit of k for every 10,000 of its   *)
(* size, against it when it is long.                                        *)
NearRate(id, k) ==
    LET size == positions[id].size
    IN  /\ positions[id].side = "LONG" => 10000 * Received(id) <= k * (-size) + 10000
        /\ positions[id].side # "LONG" => 10000 * Received(id) <= k * size + 10000

LEMMA ChargeBalances ==
    ASSUME MarketInv, ClockInv, NEW m \in Markets, ChargePositions(m)
    PROVE  PaidOut(m) <= Cardinality(ListedOpen(m))
<1> DEFINE S == ListedOpen(m)
           L == OpenOn(m, "LONG")
           R == OpenOn(m, "SHORT")
           size == [id \in PositionIds |-> positions[id].size]
           long == openInterest[m]["LONG"]
           short == openInterest[m]["SHORT"]
<1>0. CoreTypeOK /\ LedgerTypeOK
  BY DEF MarketInv, LedgerInv, CoreTypeOK
<1>1. PICK rate \in Int :
         /\ long >= short => rate >= 0
         /\ long <= short => rate <= 0
         /\ \A i \in PositionIds :
               Received(i) = IF i \in ListedOpen(m)
                             THEN FundingPayment(positions[i], rate, Periods(m)) ELSE 0
  BY WhatIsReceived
<1>2. Periods(m) \in Nat
  <2>1. now - lastFundingTime[m] \in Nat
    BY DEF ClockInv
  <2> QED  BY <2>1, PeriodsFit DEF Periods
<1>3. /\ S \subseteq PositionIds /\ IsFiniteSet(S) /\ L \cup R = S /\ L \cap R = {}
      /\ \A i \in L : positions[i].side = "LONG"
      /\ \A i \in R : positions[i].side # "LONG"
  BY ListedAreOpen DEF OpenOn
<1>4. size \in [PositionIds -> Int] /\ \A i \in PositionIds : positions[i] \in PositionData
  BY <1>0 DEF LedgerTypeOK, PositionData
<1>5. long \in Nat /\ short \in Nat
  BY <1>0 DEF LedgerTypeOK, Sides
<1>6. long = SumFunctionOnSet(size, L) /\ short = SumFunctionOnSet(size, R)
  BY DEF MarketInv, OpenInterestExact, Sides
<1>7. PICK k : k = rate * Periods(m)
  OBVIOUS
<1>8. \A i \in S : Received(i) \in Int /\ NearRate(i, k)
  <2> SUFFICES ASSUME NEW i \in S PROVE Received(i) \in Int /\ NearRate(i, k)
    OBVIOUS
  <2> DEFINE z == positions[i].size
  <2>1. i \in PositionIds /\ Received(i) = FundingPayment(positions[i], rate, Periods(m))
    BY <1>1, <1>3
  <2>2. positions[i] \in PositionData /\ z \in Int
    BY <1>4, <2>1
  <2>3. /\ Received(i) \in Int /\ k \in Int
        /\ positions[i].side = "LONG" => 10000 * Received(i) <= -(k * z) + 10000
        /\ positions[i].side # "LONG" => 10000 * Received(i) <= k * z + 10000
    BY <1>2, <1>7, <2>1, <2>2, PaymentFollowsRate
  <2>4. k * (-z) = -(k * z)
    <3>1. \A a, b \in Int : a * (-b) = -(a * b)
      OBVIOUS
    <3> QED  BY <2>2, <2>3, <3>1
  <2> QED  BY <2>3, <2>4 DEF NearRate
<1>9. k \in Int /\ k * (short - long) <= 0
  <2>1. k \in Int /\ (rate >= 0 => k >= 0) /\ (rate <= 0 => k <= 0)
    BY <1>2, <1>7, ProductSign
  <2>2. \A a, b \in Int : (a >= 0 /\ b <= 0 => a * b <= 0) /\ (a <= 0 /\ b >= 0 => a * b <= 0)
    OBVIOUS
  <2>3. CASE long >= short
    <3>1. k >= 0 /\ short - long <= 0 /\ short - long \in Int
      BY <1>1, <1>5, <2>1, <2>3
    <3> QED  BY <2>1, <2>2, <3>1
  <2>4. CASE long <= short
    <3>1. k <= 0 /\ short - long >= 0 /\ short - long \in Int
      BY <1>1, <1>5, <2>1, <2>4
    <3> QED  BY <2>1, <2>2, <3>1
  <2> QED  BY <1>5, <2>3, <2>4
<1> DEFINE recv == [id \in PositionIds |-> Received(id)]
<1>10. recv \in [PositionIds -> Int] /\ \A i \in S : recv[i] = Received(i)
  <2>1. \A i \in PositionIds : Received(i) \in Int
    <3>1. ASSUME NEW i \in PositionIds, i \notin S PROVE Received(i) = 0
      BY <1>1, <3>1
    <3>2. ASSUME NEW i \in PositionIds, i \in S PROVE Received(i) \in Int
      BY <1>8, <3>2
    <3> HIDE DEF S
    <3> QED  BY <3>1, <3>2
  <2> HIDE DEF S
  <2> QED  BY <1>3, <2>1
<1>11. \A i \in S : Owed(recv, size, L, R, k, i)
  <2> SUFFICES ASSUME NEW i \in S PROVE Owed(recv, size, L, R, k, i)
    OBVIOUS
  <2>1. i \in PositionIds /\ NearRate(i, k)
    BY <1>3, <1>8
  <2>2. recv[i] = Received(i) /\ size[i] = positions[i].size
    BY <2>1
  <2>3. (i \in L => positions[i].side = "LONG") /\ (i \in R => positions[i].side # "LONG")
    BY <1>3
  <2> HIDE DEF S, L, R, recv, size
  <2> QED  BY <2>1, <2>2, <2>3 DEF Owed, NearRate
<1> HIDE DEF S, L, R, size, recv, long, short
<1>12. Balanced(recv, size, L, R, k, S)
  BY <1>3, <1>4, <1>9, <1>10, <1>11, FlowsBalance
<1>13. S \cap R = R /\ S \cap L = L
  BY <1>3
<1>14. 10000 * SumFunctionOnSet(recv, S) <= k * (short - long) + 10000 * Cardinality(S)
  BY <1>6, <1>12, <1>13 DEF Balanced
<1>15. SumFunctionOnSet(recv, S) \in Int /\ Cardinality(S) \in Nat /\ k * (short - long) \in Int
  <2>1. SumFunctionOnSet(recv, S) \in Int
    BY <1>3, <1>10, SumType
  <2>2. Cardinality(S) \in Nat
    BY <1>3, FS_CardinalityType
  <2>3. short - long \in Int
    BY <1>5
  <2> QED  BY <1>9, <2>1, <2>2, <2>3, ProductTypes
<1>16. SumFunctionOnSet(recv, S) <= Cardinality(S)
  BY <1>9, <1>14, <1>15
<1> QED  BY <1>16 DEF PaidOut, S, recv

(* The positions of a market receive no more than they pay, but for what    *)
(* truncation leaves with each.                                             *)
THEOREM PayoutsAreCollected == FundingSpec => PaidOutIsCollected
<1>1. MarketInv /\ ClockInv /\ [FundingNext]_fvars =>
         [ \A m \in Markets : Applied(m) => PaidOut(m) <= Cardinality(ListedOpen(m)) ]_fvars
  BY OnlyChargesApply, ChargeBalances
<1>2. FundingSpec => []MarketInv
  BY FundingLeavesTheLedger, MarketInvHolds, PTL
<1>3. FundingSpec => [][ \A m \in Markets : Applied(m) => PaidOut(m) <= Cardinality(ListedOpen(m)) ]_fvars
  BY <1>1, <1>2, ClockInvHolds, PTL DEF FundingSpec, fvars
<1> QED  BY <1>3 DEF PaidOutIsCollected, PaidOut, fvars

==============================================================================
