------------------------------ MODULE OrderStorage ------------------------------
(***************************************************************************)
(* core/data/OrderStorage.sol: orders from placement to fill, cancellation  *)
(* or expiry, and for each market and side a pending queue from which       *)
(* orders are removed by moving the last entry into their place, with a map *)
(* of places that answers 0, a valid place, for orders it does not know.    *)
(* Only PositionManager's address may call; nothing in PositionManager does *)
(* yet, so its calls are the environment's.                                 *)
(***************************************************************************)
EXTENDS Integers, Sequences, FiniteSets, Functions, SequencesExt

CONSTANTS
    Traders, Markets,
    NoAddress,          \* address(0), also the market id of an absent order
    MaxOrders,          \* bound: orders placed
    OrderArgs,          \* [orderType, triggerPrice, limitPrice] of placeOrder
    Sizes, FillSizes,   \* sizes of orders and of fills
    Expiries,           \* expiry arguments; 0 is none
    MaxTime,            \* bound on block.timestamp
    MaxBatch,           \* bound: ids in a batch call
    ReExpires           \* whether the caller expires orders that are not active

ASSUME SizesAssumption ==
    Sizes \subseteq Nat /\ FillSizes \subseteq Nat /\ Expiries \subseteq Nat
ASSUME BoundsAssumption == MaxOrders \in Nat /\ MaxTime \in Nat /\ MaxBatch \in Nat
ASSUME ReExpiresAssumption == ReExpires \in BOOLEAN

VARIABLES
    now, orders, orderIdCounter, userOrders, marketOrders,
    pendingOrders,          \* [market -> [side -> sequence of ids]]
    orderIndexInPending     \* [id -> 0-based place, 0 when deleted]

bookVars == <<orders, pendingOrders, orderIndexInPending>>
listVars == <<orderIdCounter, userOrders, marketOrders>>
orderVars == <<now, bookVars, listVars>>

OrderIds == 1..MaxOrders
Sides == {"LONG", "SHORT"}
OrderStatus == {"PENDING", "PARTIALLY_FILLED", "FILLED", "CANCELLED", "EXPIRED"}

(* An order, without what no decision reads after placement.  placed stands *)
(* for orderId != 0.                                                        *)
Order ==
    [placed : BOOLEAN, trader : Traders \cup {NoAddress},
     marketId : Markets \cup {NoAddress}, side : Sides,
     size : Nat, filledSize : Nat, expiry : Nat, status : OrderStatus]

NoOrder ==
    [placed |-> FALSE, trader |-> NoAddress, marketId |-> NoAddress, side |-> "LONG",
     size |-> 0, filledSize |-> 0, expiry |-> 0, status |-> "PENDING"]

canCancelOrder(o) == o.status \in {"PENDING", "PARTIALLY_FILLED"}

isOrderExpired(o) == o.expiry > 0 /\ now >= o.expiry

IsActive(o) == o.placed /\ canCancelOrder(o)

isValidOrderStorageParams(a) ==
    /\ a.orderType = "LIMIT" => a.limitPrice # 0
    /\ a.orderType \in {"STOP", "TAKE_PROFIT"} => a.triggerPrice # 0

-----------------------------------------------------------------------------
(* What a call works on; ok turns FALSE when it reverts.                    *)
Book == [orders |-> orders, pending |-> pendingOrders,
         index |-> orderIndexInPending, ok |-> TRUE]

Reverted(b) == [b EXCEPT !.ok = FALSE]

Commit(b) ==
    /\ b.ok
    /\ orders' = b.orders
    /\ pendingOrders' = b.pending
    /\ orderIndexInPending' = b.index
    /\ UNCHANGED <<now, listVars>>

(* Slip: the moved entry keeps its old place in the map.                    *)
MutForgetsMoved(index, q, k) == index

(* _removeFromPending: the last entry takes the place at index k.  An empty *)
(* queue, or a place past its end, reverts.                                 *)
MovedIndices(index, q, k) ==
    IF k + 1 = Len(q) THEN index ELSE [index EXCEPT ![Last(q)] = k]

RemovedFromPending(b, id) ==
    LET o == b.orders[id]
        q == b.pending[o.marketId][o.side]
        k == b.index[id]
    IN  IF k >= Len(q) THEN Reverted(b)
        ELSE [b EXCEPT !.pending[o.marketId][o.side] = Front([q EXCEPT ![k + 1] = Last(q)]),
                       !.index = [MovedIndices(@, q, k) EXCEPT ![id] = 0]]

(* _cancelOrder: the event's size - filledSize is checked subtraction.      *)
Cancelling(b, id) ==
    LET o == b.orders[id]
    IN  IF b.ok /\ IsActive(o) /\ o.size >= o.filledSize
        THEN RemovedFromPending([b EXCEPT !.orders[id].status = "CANCELLED"], id)
        ELSE Reverted(b)

(* Slip: the time is not looked at either.                                  *)
MutExpiresEarly(b, id) ==
    IF b.ok /\ b.orders[id].placed
    THEN RemovedFromPending([b EXCEPT !.orders[id].status = "EXPIRED"], id)
    ELSE Reverted(b)

(* _expireOrder does not look at the status; the caller may.                *)
Expiring(b, id) ==
    LET o == b.orders[id]
    IN  IF b.ok /\ o.placed /\ isOrderExpired(o)
        THEN RemovedFromPending([b EXCEPT !.orders[id].status = "EXPIRED"], id)
        ELSE Reverted(b)

CallerExpires(ids) ==
    ReExpires \/ (IsInjective(ids) /\ \A i \in DOMAIN ids : IsActive(orders[ids[i]]))

-----------------------------------------------------------------------------
Init ==
    /\ now = 1
    /\ orders = [id \in OrderIds |-> NoOrder]
    /\ orderIdCounter = 0
    /\ userOrders = [t \in Traders |-> << >>]
    /\ marketOrders = [m \in Markets |-> << >>]
    /\ pendingOrders = [m \in Markets |-> [s \in Sides |-> << >>]]
    /\ orderIndexInPending = [id \in OrderIds |-> 0]

placeOrder(t, m, side, args, size, expiry) ==
    LET id == orderIdCounter + 1
    IN  /\ id \in OrderIds
        /\ size > 0
        /\ isValidOrderStorageParams(args)
        /\ orderIdCounter' = id
        /\ orders' = [orders EXCEPT ![id] =
              [placed |-> TRUE, trader |-> t, marketId |-> m, side |-> side,
               size |-> size, filledSize |-> 0, expiry |-> expiry, status |-> "PENDING"]]
        /\ userOrders' = [userOrders EXCEPT ![t] = Append(@, id)]
        /\ marketOrders' = [marketOrders EXCEPT ![m] = Append(@, id)]
        /\ orderIndexInPending' = [orderIndexInPending EXCEPT ![id] = Len(pendingOrders[m][side])]
        /\ pendingOrders' = [pendingOrders EXCEPT ![m][side] = Append(@, id)]
        /\ UNCHANGED now

canFillOrder(o, fillSize) ==
    /\ o.placed /\ o.status = "PENDING"
    /\ 0 < fillSize /\ fillSize <= o.size

PartlyFilled(o, fillSize) ==
    [o EXCEPT !.filledSize = @ + fillSize, !.status = "PARTIALLY_FILLED", !.size = @ - fillSize]

(* Slip: a partially filled order leaves the pending queue.                 *)
MutDropsPartial(id, fillSize) ==
    LET o == orders[id]
        filled == [o EXCEPT !.filledSize = @ + fillSize, !.status = "FILLED"]
    IN  RemovedFromPending([Book EXCEPT !.orders[id] =
                               IF fillSize = o.size THEN filled ELSE PartlyFilled(o, fillSize)], id)

Filling(id, fillSize) ==
    LET o == orders[id]
        filled == [o EXCEPT !.filledSize = @ + fillSize, !.status = "FILLED"]
    IN  IF fillSize = o.size
        THEN RemovedFromPending([Book EXCEPT !.orders[id] = filled], id)
        ELSE [Book EXCEPT !.orders[id] = PartlyFilled(o, fillSize)]

fillOrder(id, fillSize) == canFillOrder(orders[id], fillSize) /\ Commit(Filling(id, fillSize))

cancelOrder(id) == Commit(Cancelling(Book, id))

(* The loop of a call over many orders: each turn works on what the turns   *)
(* before it left.                                                          *)
InTurn(Turn(_, _), ids) ==
    LET after[k \in 0..Len(ids)] == IF k = 0 THEN Book ELSE Turn(after[k - 1], ids[k])
    IN  after[Len(ids)]

cancelOrderBatch(ids) == Commit(InTurn(Cancelling, ids))

(* Slip: partly filled orders are passed over.                              *)
MutSkipsPartial(list, markets) ==
    LET Turn(b, id) == IF b.orders[id].marketId \in markets /\ b.orders[id].status = "PENDING"
                       THEN Cancelling(b, id) ELSE b
    IN  InTurn(Turn, list)

(* cancelAllUserOrders and cancelAllUserOrdersInMarket: over a copy of the  *)
(* trader's list, the orders still active when their turn comes.            *)
CancelListed(list, markets) ==
    LET Turn(b, id) == IF b.orders[id].marketId \in markets /\ canCancelOrder(b.orders[id])
                       THEN Cancelling(b, id) ELSE b
    IN  InTurn(Turn, list)

cancelAllUserOrdersInMarket(t, m) == Commit(CancelListed(userOrders[t], {m}))

cancelAllUserOrders(t) == Commit(CancelListed(userOrders[t], Markets))

expireOrder(id) == CallerExpires(<<id>>) /\ Commit(Expiring(Book, id))

expireOrderBatch(ids) == CallerExpires(ids) /\ Commit(InTurn(Expiring, ids))

CleanedUp(m) ==
    LET Turn(b, id) == IF isOrderExpired(b.orders[id]) /\ canCancelOrder(b.orders[id])
                       THEN Expiring(b, id) ELSE b
    IN  InTurn(Turn, marketOrders[m])

cleanupExpiredOrders(m) == Commit(CleanedUp(m))

Tick == now < MaxTime /\ now' = now + 1 /\ UNCHANGED <<bookVars, listVars>>

Batches == UNION { [1..n -> OrderIds] : n \in 2..MaxBatch }

Next ==
    \/ Tick
    \/ \E t \in Traders, m \in Markets, side \in Sides, args \in OrderArgs,
          size \in Sizes, expiry \in Expiries : placeOrder(t, m, side, args, size, expiry)
    \/ \E id \in OrderIds, fillSize \in FillSizes : fillOrder(id, fillSize)
    \/ \E id \in OrderIds : cancelOrder(id)
    \/ \E ids \in Batches : cancelOrderBatch(ids)
    \/ \E t \in Traders, m \in Markets : cancelAllUserOrdersInMarket(t, m)
    \/ \E t \in Traders : cancelAllUserOrders(t)
    \/ \E id \in OrderIds : expireOrder(id)
    \/ \E ids \in Batches : expireOrderBatch(ids)
    \/ \E m \in Markets : cleanupExpiredOrders(m)

Spec == Init /\ [][Next]_orderVars

-----------------------------------------------------------------------------
(* PROPERTIES                                                               *)

(* Every variable has its type; the counter counts the ids in use.          *)
TypeOK ==
    /\ now \in Nat
    /\ orders \in [OrderIds -> Order]
    /\ orderIdCounter \in 0..MaxOrders
    /\ userOrders \in [Traders -> Seq(OrderIds)]
    /\ marketOrders \in [Markets -> Seq(OrderIds)]
    /\ pendingOrders \in [Markets -> [Sides -> Seq(OrderIds)]]
    /\ orderIndexInPending \in [OrderIds -> Nat]

ActiveOn(m, side) ==
    { id \in OrderIds : IsActive(orders[id]) /\ orders[id].marketId = m /\ orders[id].side = side }

(* A pending queue names the active orders of its market and side, partly   *)
(* filled ones included, once each and nothing else, however fills,         *)
(* cancellations, expiries and batches of them were mixed.  Holds where the *)
(* caller expires active orders only.                                       *)
PendingExact ==
    \A m \in Markets, side \in Sides :
        /\ IsInjective(pendingOrders[m][side])
        /\ ToSet(pendingOrders[m][side]) = ActiveOn(m, side)

(* Swap-and-pop keeps the map: an active order is where its index says.     *)
IndexExact ==
    \A m \in Markets, side \in Sides : \A id \in ActiveOn(m, side) :
        LET q == pendingOrders[m][side]
        IN  /\ orderIndexInPending[id] < Len(q)
            /\ q[orderIndexInPending[id] + 1] = id

(* Removal from the pending queue never reverts: a market's clean-up goes   *)
(* through whatever its orders went through, and so does the cancellation   *)
(* of an active order, unless more of it was filled than is left.           *)
RemovalNeverBlocked ==
    /\ \A m \in Markets : CleanedUp(m).ok
    /\ \A id \in OrderIds :
          IsActive(orders[id]) /\ orders[id].size >= orders[id].filledSize => Cancelling(Book, id).ok

(* Orders, pending queues and the index map fit together: an active order   *)
(* is where the map says, and therefore every removal finds its order.      *)
BookConsistent == TypeOK /\ IndexExact /\ RemovalNeverBlocked

(* What was ordered is what was filled and what is left, through every      *)
(* later call on the order.                                                 *)
Ordered(o) == IF o.status = "FILLED" THEN o.size ELSE o.size + o.filledSize

OrderedSizeKept ==
    [][ \A id \in OrderIds : orders[id].placed => Ordered(orders'[id]) = Ordered(orders[id]) ]_orderVars

(* The order storage is an order book as OrderLife states it.  What was      *)
(* ordered is what is filled and what is left; a queue is the set of the    *)
(* orders it names.                                                         *)
LifeOf(o) ==
    IF o.placed THEN [stage |-> o.status, ordered |-> Ordered(o), filled |-> o.filledSize]
    ELSE [stage |-> "NONE", ordered |-> 0, filled |-> 0]

Lives == [id \in OrderIds |-> LifeOf(orders[id])]

Waiting == [queue \in Markets \X Sides |-> ToSet(pendingOrders[queue[1]][queue[2]])]

Due == { id \in OrderIds : orders[id].placed /\ isOrderExpired(orders[id]) }

Life == INSTANCE OrderLife
            WITH Ids <- OrderIds, Queues <- Markets \X Sides,
                 lives <- Lives, waiting <- Waiting, due <- Due

(* Every call, however many orders it goes through in its loop, is one step *)
(* of an order's life, or the withdrawal of a set of waiting orders for one *)
(* reason: none of them lost, moved, withdrawn twice or out of turn, and no *)
(* size lost or added.  Holds where the caller expires active orders only.  *)
ImplementsOrderLife == Life!Spec

(* The calls over a whole list, made in any state, end the orders they are  *)
(* for and no others or revert: the clean-up of a market the active orders  *)
(* there whose time is up, the cancellations of a trader all his active     *)
(* orders, or those in a market.  None is missed for having been filled in  *)
(* part or queued behind one that was removed on the way.  Holds where the  *)
(* caller expires active orders only.                                       *)
EndsOnly(b, ids, stage) ==
    b.ok => \A id \in OrderIds :
                b.orders[id] = IF id \in ids THEN [orders[id] EXCEPT !.status = stage] ELSE orders[id]

ActiveOf(t, markets) ==
    { id \in OrderIds : IsActive(orders[id]) /\ orders[id].trader = t /\ orders[id].marketId \in markets }

DueIn(m) ==
    { id \in OrderIds : IsActive(orders[id]) /\ orders[id].marketId = m /\ isOrderExpired(orders[id]) }

MassCallsExact ==
    /\ \A m \in Markets : EndsOnly(CleanedUp(m), DueIn(m), "EXPIRED")
    /\ \A t \in Traders :
          /\ EndsOnly(CancelListed(userOrders[t], Markets), ActiveOf(t, Markets), "CANCELLED")
          /\ \A m \in Markets :
                EndsOnly(CancelListed(userOrders[t], {m}), ActiveOf(t, {m}), "CANCELLED")

(* An order that was filled, cancelled or expired never changes again.      *)
FinalStays ==
    [][ \A id \in OrderIds :
            orders[id].placed /\ ~IsActive(orders[id]) => orders'[id] = orders[id] ]_orderVars

=============================================================================
