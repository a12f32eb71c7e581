--------------------------- MODULE OrderStorageProofs ---------------------------
(***************************************************************************)
(* The pending queues of OrderStorage and the map of places into them stay *)
(* exact, however fills, cancellations, expiries, clean-ups and batches of *)
(* them are mixed, for every number of orders, markets and traders.  The   *)
(* removals work on books (orders, queues and map together): a turn of a   *)
(* loop takes an exact book to an exact book, so the loop does, so the     *)
(* call that commits its last book does.  What a call does to orders and   *)
(* queues together is a step of OrderLife, and what one over a whole list  *)
(* does is to end exactly the orders it is for.                            *)
(***************************************************************************)
EXTENDS OrderStorage, FoldLemmas, TLAPS

-----------------------------------------------------------------------------
(* Books a call can work on.  An order that was placed names a market, and  *)
(* nothing was filled of one that is pending.                               *)
OrderOK(o) ==
    /\ o.placed => o.marketId \in Markets
    /\ o.status = "PENDING" => o.filledSize = 0

Books ==
    { b \in [orders : [OrderIds -> Order], pending : [Markets -> [Sides -> Seq(OrderIds)]],
             index : [OrderIds -> Nat], ok : BOOLEAN] :
        \A id \in OrderIds : OrderOK(b.orders[id]) }

ActiveIn(b, m, side) ==
    { id \in OrderIds :
        IsActive(b.orders[id]) /\ b.orders[id].marketId = m /\ b.orders[id].side = side }

(* The pending queue of m, side names the active orders there, and the map  *)
(* says where.                                                              *)
QueueExact(b, m, side) ==
    /\ IsInjective(b.pending[m][side])
    /\ ToSet(b.pending[m][side]) = ActiveIn(b, m, side)
    /\ \A id \in ActiveIn(b, m, side) :
          /\ b.index[id] < Len(b.pending[m][side])
          /\ b.pending[m][side][b.index[id] + 1] = id

BookExact(b) == \A m \in Markets, side \in Sides : QueueExact(b, m, side)

(* What no call does to an order: move it, lose size, revive it.            *)
Kept(o, p) ==
    /\ p.placed = o.placed /\ p.trader = o.trader /\ p.marketId = o.marketId /\ p.side = o.side
    /\ Ordered(p) = Ordered(o)
    /\ ~IsActive(o) => p = o

(* A removal whatever the map says leaves a book or reverts.                *)
LEMMA RemovalType ==
    ASSUME NEW b \in Books, NEW id \in OrderIds, b.orders[id].marketId \in Markets
    PROVE  RemovedFromPending(b, id) \in Books
<1> DEFINE o == b.orders[id]
           q == b.pending[o.marketId][o.side]
           k == b.index[id]
<1>1. o.side \in Sides /\ q \in Seq(OrderIds) /\ k \in Nat
  BY DEF Books, Order
<1>2. CASE k >= Len(q)
  BY <1>2 DEF RemovedFromPending, Reverted, Books
<1>3. CASE ~(k >= Len(q))
  <2> DEFINE popped == SwapPop(q, k + 1)
             placed == [MovedIndices(b.index, q, k) EXCEPT ![id] = 0]
  <2>1. RemovedFromPending(b, id) =
          [b EXCEPT !.pending = [@ EXCEPT ![o.marketId][o.side] = popped], !.index = placed]
    BY <1>3 DEF RemovedFromPending, Books, SwapPop
  <2> HIDE DEF q, k, o
  <2>0. Len(q) \in Nat
    BY <1>1
  <2>2. k < Len(q)
    BY <1>1, <1>3, <2>0
  <2>3. popped \in Seq(OrderIds) /\ Last(q) \in OrderIds
    <3>1. k + 1 \in 1..Len(q)
      BY <1>1, <2>0, <2>2
    <3> QED  BY <1>1, <3>1, SwapAndPopType
  <2>4. placed \in [OrderIds -> Nat]
    BY <1>1, <2>3 DEF MovedIndices, Books
  <2> HIDE DEF popped, placed
  <2>5. [b.pending EXCEPT ![o.marketId][o.side] = popped] \in [Markets -> [Sides -> Seq(OrderIds)]]
    BY <2>3 DEF Books
  <2> QED  BY <2>1, <2>4, <2>5 DEF Books
<1> QED  BY <1>2, <1>3

(* The queue and the map after the entry at k, order id, is removed.        *)
Popped(q, k) == SwapPop(q, k + 1)

Placed(index, q, k, id) == [MovedIndices(index, q, k) EXCEPT ![id] = 0]

(* What the removal must do to them: every entry but the removed one is     *)
(* where the map now says, and for other ids the map is as it was.          *)
Moves(q, index, id, k) ==
    LET r == Popped(q, k)
        placed == Placed(index, q, k, id)
    IN  /\ r \in Seq(OrderIds) /\ IsInjective(r) /\ ToSet(r) = ToSet(q) \ {id}
        /\ placed \in [OrderIds -> Nat]
        /\ \A i \in OrderIds \ {id} : index[i] < Len(q) /\ q[index[i] + 1] = i
              => placed[i] < Len(r) /\ r[placed[i] + 1] = i
        /\ \A i \in OrderIds \ {id} : i \notin ToSet(q) => placed[i] = index[i]

LEMMA PlacesMoved ==
    ASSUME NEW q \in Seq(OrderIds), IsInjective(q), NEW index \in [OrderIds -> Nat],
           NEW id \in OrderIds, NEW k, k = index[id], k < Len(q), q[k + 1] = id
    PROVE  Moves(q, index, id, k)
<1> DEFINE r == Popped(q, k)
           placed == Placed(index, q, k, id)
<1>1. k \in Nat /\ Len(q) \in Nat /\ k + 1 \in 1..Len(q) /\ k < Len(q) /\ q[k + 1] = id
  OBVIOUS
<1>2. /\ r \in Seq(OrderIds) /\ Len(r) = Len(q) - 1
      /\ \A i \in 1..(Len(q) - 1) : r[i] = IF i = k + 1 THEN q[Len(q)] ELSE q[i]
      /\ IsInjective(r) /\ ToSet(r) = ToSet(q) \ {q[k + 1]}
  <2>1. PICK at \in 1..Len(q) : at = k + 1
    BY <1>1
  <2>2. LET it == SwapPop(q, at)
        IN  /\ it \in Seq(OrderIds) /\ Len(it) = Len(q) - 1
            /\ \A i \in 1..(Len(q) - 1) : it[i] = IF i = at THEN q[Len(q)] ELSE q[i]
            /\ IsInjective(it) /\ ToSet(it) = ToSet(q) \ {q[at]}
    BY SwapAndPop
  <2> QED  BY <2>1, <2>2, Zenon DEF Popped
<1>3. Last(q) = q[Len(q)] /\ Len(q) \in 1..Len(q) /\ q[Len(q)] \in ToSet(q) /\ q[Len(q)] \in OrderIds
  <2>1. Len(q) \in DOMAIN q
    BY <1>1
  <2> QED  BY <1>1, <2>1 DEF Last, ToSet
<1>4. placed \in [OrderIds -> Nat]
  BY <1>1, <1>3 DEF MovedIndices, Placed
<1>5. \A i \in OrderIds \ {id} : placed[i] = IF i = q[Len(q)] THEN k ELSE index[i]
  BY <1>1, <1>3 DEF MovedIndices, Placed
<1> HIDE DEF r, placed
<1>6. ASSUME NEW i \in OrderIds \ {id}, index[i] < Len(q), q[index[i] + 1] = i
      PROVE  placed[i] < Len(r) /\ r[placed[i] + 1] = i
  <2>1. index[i] \in Nat /\ index[i] # k
    BY <1>1, <1>6
  <2>2. CASE i = q[Len(q)]
    <3>1. placed[i] = k
      BY <1>5, <2>2
    <3>2. k # Len(q) - 1
      BY <1>1, <2>2
    <3>3. k + 1 \in 1..(Len(q) - 1)
      BY <1>1, <3>2
    <3>4. r[k + 1] = q[Len(q)]
      BY <1>2, <3>3
    <3>5. k < Len(r)
      BY <1>1, <1>2, <3>2
    <3> QED  BY <2>2, <3>1, <3>4, <3>5
  <2>3. CASE i # q[Len(q)]
    <3>1. placed[i] = index[i]
      BY <1>5, <2>3
    <3>2. index[i] # Len(q) - 1
      BY <1>1, <1>6, <2>1, <2>3
    <3>3. index[i] + 1 \in 1..(Len(q) - 1) /\ index[i] + 1 # k + 1
      BY <1>1, <1>6, <2>1, <3>2
    <3>4. r[index[i] + 1] = q[index[i] + 1]
      <4> DEFINE j == index[i] + 1
      <4>1. j \in 1..(Len(q) - 1) /\ j # k + 1
        BY <3>3
      <4> HIDE DEF j
      <4>2. r[j] = q[j]
        BY <1>2, <4>1
      <4> QED  BY <4>2 DEF j
    <3>5. index[i] < Len(q) - 1
      BY <1>1, <2>1, <3>3
    <3> QED  BY <1>2, <1>6, <3>1, <3>4, <3>5
  <2> QED  BY <2>2, <2>3
<1>7. \A i \in OrderIds \ {id} : i \notin ToSet(q) => placed[i] = index[i]
  BY <1>3, <1>5
<1> QED  BY <1>1, <1>2, <1>4, <1>6, <1>7 DEF r, placed, Moves

(* Taking an order that is no longer active out of an exact book leaves an  *)
(* exact book: the entry moved into its place has its new place in the map. *)
LEMMA RemovalExact ==
    ASSUME NEW b \in Books, BookExact(b), NEW id \in OrderIds, IsActive(b.orders[id]),
           NEW o \in Order, OrderOK(o), o.placed, ~IsActive(o),
           o.marketId = b.orders[id].marketId, o.side = b.orders[id].side
    PROVE  LET r == RemovedFromPending([b EXCEPT !.orders = [b.orders EXCEPT ![id] = o]], id)
           IN  /\ r \in Books /\ BookExact(r) /\ r.ok = b.ok
               /\ r.orders = [b.orders EXCEPT ![id] = o]
<1>0. PICK m, side, q, k, c :
        /\ m = o.marketId /\ side = o.side
        /\ q = b.pending[m][side] /\ k = b.index[id]
        /\ c = [b EXCEPT !.orders = [b.orders EXCEPT ![id] = o]]
  OBVIOUS
<1> DEFINE popped == Popped(q, k)
           placed == Placed(b.index, q, k, id)
           r == RemovedFromPending(c, id)
<1>1. /\ b.orders \in [OrderIds -> Order] /\ b.pending \in [Markets -> [Sides -> Seq(OrderIds)]]
      /\ b.index \in [OrderIds -> Nat] /\ m \in Markets /\ side \in Sides
      /\ q \in Seq(OrderIds) /\ k \in Nat
  BY <1>0 DEF Books, Order, OrderOK
<1>2. c \in Books /\ c.orders[id] = o /\ c.pending = b.pending /\ c.index = b.index /\ c.ok = b.ok
      /\ c.orders = [b.orders EXCEPT ![id] = o]
  BY <1>0, <1>1 DEF Books
<1>3. r \in Books
  BY <1>0, <1>1, <1>2, RemovalType
<1>4. id \in ActiveIn(b, m, side)
  BY <1>0 DEF ActiveIn
<1>5. QueueExact(b, m, side)
  BY <1>1 DEF BookExact
<1>6. IsInjective(q) /\ ToSet(q) = ActiveIn(b, m, side) /\ k < Len(q) /\ q[k + 1] = id
  BY <1>0, <1>4, <1>5 DEF QueueExact
<1>7. r = [c EXCEPT !.pending = [@ EXCEPT ![m][side] = popped], !.index = placed]
  <2>0. Len(q) \in Nat
    BY <1>1
  <2>1. ~(k >= Len(q))
    BY <1>1, <1>6, <2>0
  <2>2. /\ c.orders[id].marketId = m /\ c.orders[id].side = side
        /\ c.pending[m][side] = q /\ c.index[id] = k
    BY <1>0, <1>2
  <2> HIDE DEF r
  <2>3. r = IF c.index[id] >= Len(q) THEN Reverted(c)
            ELSE [c EXCEPT !.pending[m][side] = Popped(q, c.index[id]),
                           !.index = Placed(@, q, c.index[id], id)]
    BY <2>2, Zenon DEF r, RemovedFromPending, Popped, SwapPop, Placed
  <2>4. r = [c EXCEPT !.pending[m][side] = popped, !.index = Placed(@, q, k, id)]
    BY <2>1, <2>2, <2>3, Zenon
  <2> QED  BY <1>2, <2>4, Zenon
<1>8. /\ popped \in Seq(OrderIds) /\ IsInjective(popped) /\ ToSet(popped) = ToSet(q) \ {id}
      /\ \A i \in OrderIds \ {id} : b.index[i] < Len(q) /\ q[b.index[i] + 1] = i
            => placed[i] < Len(popped) /\ popped[placed[i] + 1] = i
      /\ \A i \in OrderIds \ {id} : i \notin ToSet(q) => placed[i] = b.index[i]
  <2>1. PICK index : index = b.index
    OBVIOUS
  <2>2. index \in [OrderIds -> Nat]
    BY <1>1, <2>1
  <2>3. q \in Seq(OrderIds)
    BY <1>1
  <2>4. IsInjective(q) /\ k = index[id] /\ k < Len(q) /\ q[k + 1] = id
    BY <1>0, <1>6, <2>1
  <2> HIDE DEF popped, placed
  <2>5. Moves(q, index, id, k)
    BY <2>2, <2>3, <2>4, PlacesMoved, Zenon
  <2>6. Moves(q, b.index, id, k)
    BY <2>1, <2>5
  <2> QED  BY <2>6, Zenon DEF popped, placed, Moves
<1> HIDE DEF popped, placed
<1>9. /\ r.orders = [b.orders EXCEPT ![id] = o] /\ r.ok = b.ok
      /\ r.pending = [b.pending EXCEPT ![m][side] = popped]
      /\ r.index = placed
  <2> HIDE DEF r
  <2> QED  BY <1>2, <1>7 DEF Books
<1> HIDE DEF r
<1>10. \A n \in Markets, s \in Sides : ActiveIn(r, n, s) = ActiveIn(b, n, s) \ {id}
  <2>1. \A i \in OrderIds \ {id} : r.orders[i] = b.orders[i]
    BY <1>1, <1>9
  <2>2. r.orders[id] = o
    BY <1>1, <1>9
  <2> QED  BY <2>1, <2>2 DEF ActiveIn
<1>11. \A n \in Markets, s \in Sides :
          r.pending[n][s] = IF n = m /\ s = side THEN popped ELSE b.pending[n][s]
  BY <1>1, <1>9
<1>12. ASSUME NEW n \in Markets, NEW s \in Sides
       PROVE  QueueExact(r, n, s)
  <2>1. QueueExact(b, n, s)
    BY DEF BookExact
  <2>2. CASE n = m /\ s = side
    <3>1. r.pending[n][s] = popped /\ ActiveIn(r, n, s) = ToSet(q) \ {id}
      BY <1>6, <1>10, <1>11, <2>2
    <3>2. ASSUME NEW i \in ActiveIn(r, n, s)
          PROVE  r.index[i] < Len(popped) /\ popped[r.index[i] + 1] = i
      <4>1. i \in ActiveIn(b, m, side) /\ i \in OrderIds \ {id}
        BY <1>6, <3>1 DEF ActiveIn
      <4>2. b.index[i] < Len(q) /\ q[b.index[i] + 1] = i
        BY <1>0, <1>5, <4>1 DEF QueueExact
      <4> QED  BY <1>8, <1>9, <4>1, <4>2
    <3> QED  BY <1>8, <3>1, <3>2 DEF QueueExact
  <2>3. CASE n # m \/ s # side
    <3>1. r.pending[n][s] = b.pending[n][s]
      BY <1>11, <2>3
    <3>2. ASSUME NEW i \in ActiveIn(b, n, s)
          PROVE  i \in OrderIds /\ i # id /\ i \notin ToSet(q)
      BY <1>4, <1>6, <2>3, <3>2 DEF ActiveIn
    <3>3. ActiveIn(r, n, s) = ActiveIn(b, n, s)
      BY <1>10, <3>2
    <3>4. ASSUME NEW i \in ActiveIn(r, n, s)
          PROVE  r.index[i] = b.index[i]
      BY <1>8, <1>9, <3>2, <3>3
    <3> QED  BY <2>1, <3>1, <3>3, <3>4 DEF QueueExact
  <2> QED  BY <2>2, <2>3
<1>13. BookExact(r)
  BY <1>12 DEF BookExact
<1>14. r = RemovedFromPending([b EXCEPT !.orders = [b.orders EXCEPT ![id] = o]], id)
  BY <1>0 DEF r
<1> QED  BY <1>3, <1>9, <1>13, <1>14, Zenon
-----------------------------------------------------------------------------
(* What a turn may do: an exact book stays exact, and orders are kept.      *)
Onward(b, c) ==
    c.ok => /\ b.ok
            /\ BookExact(b) => BookExact(c)
            /\ \A id \in OrderIds : Kept(b.orders[id], c.orders[id])

(* Both relations hold from a state to itself and pass on.                  *)
LEMMA KeptOn ==
    /\ \A o \in Order : Kept(o, o)
    /\ \A o, p, q \in Order : Kept(o, p) /\ Kept(p, q) => Kept(o, q)
BY DEF Kept

LEMMA OnwardOn ==
    /\ \A b \in Books : Onward(b, b)
    /\ \A a, b, c \in Books : Onward(a, b) /\ Onward(b, c) => Onward(a, c)
<1>1. \A b \in Books, id \in OrderIds : b.orders[id] \in Order
  BY DEF Books
<1>2. ASSUME NEW b \in Books PROVE Onward(b, b)
  BY <1>1, KeptOn DEF Onward
<1>3. ASSUME NEW a \in Books, NEW b \in Books, NEW c \in Books, Onward(a, b), Onward(b, c)
      PROVE  Onward(a, c)
  BY <1>1, <1>3, KeptOn DEF Onward
<1> QED  BY <1>2, <1>3

(* What a withdrawal does to an order, for either reason: nothing, or it    *)
(* ends the life of an active one that may be withdrawn.                    *)
Withdrawn(o, p, stage) ==
    \/ p = o
    \/ /\ IsActive(o) /\ p = [o EXCEPT !.status = stage]
       /\ stage = "CANCELLED" => o.size >= o.filledSize
       /\ stage = "EXPIRED" => isOrderExpired(o)

Withdraws(b, c, stage) ==
    /\ Onward(b, c)
    /\ c.ok => \A id \in OrderIds : Withdrawn(b.orders[id], c.orders[id], stage)

LEMMA WithdrawnOn ==
    ASSUME NEW stage \in {"CANCELLED", "EXPIRED"}, NEW o \in Order, NEW p \in Order, NEW q \in Order,
           Withdrawn(o, p, stage), Withdrawn(p, q, stage)
    PROVE  Withdrawn(o, q, stage)
<1>1. CASE p = o
  BY <1>1
<1>2. CASE p # o
  <2>1. p = [o EXCEPT !.status = stage]
    BY <1>2 DEF Withdrawn
  <2>2. p.status = stage
    BY <2>1 DEF Order
  <2>3. ~IsActive(p)
    BY <2>2 DEF IsActive, canCancelOrder
  <2>4. q = p
    BY <2>3 DEF Withdrawn
  <2> QED  BY <2>4
<1> QED  BY <1>1, <1>2

LEMMA WithdrawsOn ==
    ASSUME NEW stage \in {"CANCELLED", "EXPIRED"}
    PROVE  /\ \A b \in Books : Withdraws(b, b, stage)
           /\ \A a, b, c \in Books :
                 Withdraws(a, b, stage) /\ Withdraws(b, c, stage) => Withdraws(a, c, stage)
<1>1. \A b \in Books, id \in OrderIds : b.orders[id] \in Order
  BY DEF Books
<1>2. ASSUME NEW b \in Books PROVE Withdraws(b, b, stage)
  BY OnwardOn DEF Withdraws, Withdrawn
<1>3. ASSUME NEW a \in Books, NEW b \in Books, NEW c \in Books,
             Withdraws(a, b, stage), Withdraws(b, c, stage)
      PROVE  Withdraws(a, c, stage)
  <2>1. Onward(a, b) /\ Onward(b, c) /\ Onward(a, c)
    BY <1>3, OnwardOn DEF Withdraws
  <2>2. ASSUME c.ok, NEW id \in OrderIds PROVE Withdrawn(a.orders[id], c.orders[id], stage)
    <3>1. b.ok
      BY <2>1, <2>2 DEF Onward
    <3>2. Withdrawn(a.orders[id], b.orders[id], stage) /\ Withdrawn(b.orders[id], c.orders[id], stage)
      BY <1>3, <2>2, <3>1 DEF Withdraws
    <3> QED  BY <1>1, <3>2, WithdrawnOn
  <2> QED  BY <2>1, <2>2 DEF Withdraws
<1> QED  BY <1>2, <1>3

LEMMA RevertedIs ==
    ASSUME NEW b \in Books
    PROVE  /\ Reverted(b) \in Books /\ Reverted(b).orders = b.orders /\ ~Reverted(b).ok
           /\ \A stage : Withdraws(b, Reverted(b), stage)
BY DEF Reverted, Books, Withdraws, Onward

(* An order that leaves the queue, as CANCELLED, EXPIRED or FILLED.         *)
LEMMA LeavingKeeps ==
    ASSUME NEW b \in Books, NEW id \in OrderIds, NEW o \in Order, OrderOK(o), o.placed,
           ~IsActive(o), o.marketId = b.orders[id].marketId, o.side = b.orders[id].side
    PROVE  LET r == RemovedFromPending([b EXCEPT !.orders = [b.orders EXCEPT ![id] = o]], id)
           IN  /\ r \in Books
               /\ r.orders[id] = o /\ \A i \in OrderIds \ {id} : r.orders[i] = b.orders[i]
               /\ IsActive(b.orders[id]) /\ b.ok /\ Kept(b.orders[id], o) => Onward(b, r)
<1> DEFINE c == [b EXCEPT !.orders = [b.orders EXCEPT ![id] = o]]
           r == RemovedFromPending(c, id)
<1>1. c \in Books /\ c.orders = [b.orders EXCEPT ![id] = o] /\ c.orders[id].marketId \in Markets
  BY DEF Books, OrderOK
<1> HIDE DEF c
<1>2. r \in Books
  BY <1>1, RemovalType
<1>3. r.orders = c.orders
  <2>1. Reverted(c).orders = c.orders
    BY <1>1 DEF Reverted, Books
  <2>2. \A x, y : [c EXCEPT !.pending = x, !.index = y].orders = c.orders
    BY <1>1 DEF Books
  <2> QED  BY <2>1, <2>2, Zenon DEF RemovedFromPending
<1>4. r.orders[id] = o /\ \A i \in OrderIds \ {id} : r.orders[i] = b.orders[i]
  BY <1>1, <1>3 DEF Books
<1>5. ASSUME IsActive(b.orders[id]), b.ok, Kept(b.orders[id], o) PROVE Onward(b, r)
  <2>1. \A i \in OrderIds : Kept(b.orders[i], r.orders[i])
    <3>1. r.orders[id] = o
      BY <1>1, <1>3 DEF Books
    <3>2. \A i \in OrderIds : b.orders[i] \in Order
      BY DEF Books
    <3> HIDE DEF r
    <3> QED  BY <1>4, <1>5, <3>1, <3>2, KeptOn
  <2>2. BookExact(b) => BookExact(r)
    BY <1>5, RemovalExact DEF c
  <2> QED  BY <1>5, <2>1, <2>2 DEF Onward
<1> QED  BY <1>2, <1>4, <1>5 DEF r, c

(* A withdrawal that went through ended one active order.                   *)
Ends(b, c, id, stage) ==
    /\ b.ok /\ IsActive(b.orders[id])
    /\ c.orders[id] = [b.orders[id] EXCEPT !.status = stage]
    /\ \A i \in OrderIds \ {id} : c.orders[i] = b.orders[i]

(* One cancellation, and one expiry, whoever asked for it.                  *)
LEMMA CancellingKeeps ==
    ASSUME NEW b \in Books, NEW id \in OrderIds
    PROVE  /\ Cancelling(b, id) \in Books /\ Withdraws(b, Cancelling(b, id), "CANCELLED")
           /\ Cancelling(b, id).ok => Ends(b, Cancelling(b, id), id, "CANCELLED")
<1> DEFINE o == [b.orders[id] EXCEPT !.status = "CANCELLED"]
           r == RemovedFromPending([b EXCEPT !.orders = [b.orders EXCEPT ![id] = o]], id)
<1>1. CASE b.ok /\ IsActive(b.orders[id]) /\ b.orders[id].size >= b.orders[id].filledSize
  <2>1. b.orders[id] \in Order /\ OrderOK(b.orders[id])
    BY DEF Books
  <2>2. /\ o \in Order /\ OrderOK(o) /\ ~IsActive(o) /\ Kept(b.orders[id], o)
        /\ o.placed /\ o.marketId = b.orders[id].marketId /\ o.side = b.orders[id].side
    BY <1>1, <2>1 DEF Order, OrderStatus, OrderOK, IsActive, canCancelOrder, Kept, Ordered
  <2>3. Cancelling(b, id) = r
    BY <1>1, Zenon DEF Cancelling
  <2>4. Withdrawn(b.orders[id], o, "CANCELLED")
    BY <1>1 DEF Withdrawn
  <2> HIDE DEF o
  <2>5. /\ r \in Books /\ Onward(b, r)
        /\ r.orders[id] = o /\ \A i \in OrderIds \ {id} : r.orders[i] = b.orders[i]
    BY <1>1, <2>2, LeavingKeeps
  <2>7. o = [b.orders[id] EXCEPT !.status = "CANCELLED"]
    BY DEF o
  <2> HIDE DEF r
  <2>6. Withdraws(b, r, "CANCELLED") /\ Ends(b, r, id, "CANCELLED")
    BY <1>1, <2>4, <2>5, <2>7 DEF Withdraws, Withdrawn, Ends
  <2> QED  BY <2>3, <2>5, <2>6
<1>2. CASE ~(b.ok /\ IsActive(b.orders[id]) /\ b.orders[id].size >= b.orders[id].filledSize)
  <2>1. Cancelling(b, id) = Reverted(b)
    BY <1>2 DEF Cancelling
  <2> QED  BY <2>1, RevertedIs
<1> QED  BY <1>1, <1>2

LEMMA ExpiringKeeps ==
    ASSUME NEW b \in Books, NEW id \in OrderIds
    PROVE  /\ Expiring(b, id) \in Books
           /\ canCancelOrder(b.orders[id]) => Withdraws(b, Expiring(b, id), "EXPIRED")
           /\ \A i \in OrderIds \ {id} : Expiring(b, id).orders[i] = b.orders[i]
           /\ Expiring(b, id).ok /\ canCancelOrder(b.orders[id]) => Ends(b, Expiring(b, id), id, "EXPIRED")
<1> DEFINE o == [b.orders[id] EXCEPT !.status = "EXPIRED"]
           r == RemovedFromPending([b EXCEPT !.orders = [b.orders EXCEPT ![id] = o]], id)
<1>1. CASE b.ok /\ b.orders[id].placed /\ isOrderExpired(b.orders[id])
  <2>1. b.orders[id] \in Order /\ OrderOK(b.orders[id])
    BY DEF Books
  <2>2. /\ o \in Order /\ OrderOK(o) /\ ~IsActive(o) /\ (canCancelOrder(b.orders[id]) => Kept(b.orders[id], o))
        /\ o.placed /\ o.marketId = b.orders[id].marketId /\ o.side = b.orders[id].side
    BY <1>1, <2>1 DEF Order, OrderStatus, OrderOK, IsActive, canCancelOrder, Kept, Ordered
  <2>3. Expiring(b, id) = r
    BY <1>1, Zenon DEF Expiring
  <2>4. canCancelOrder(b.orders[id]) => IsActive(b.orders[id])
    BY <1>1 DEF IsActive
  <2>5. canCancelOrder(b.orders[id]) => Withdrawn(b.orders[id], o, "EXPIRED")
    BY <1>1, <2>4 DEF Withdrawn
  <2> HIDE DEF o
  <2>6. /\ r \in Books /\ (canCancelOrder(b.orders[id]) => Onward(b, r))
        /\ r.orders[id] = o /\ \A i \in OrderIds \ {id} : r.orders[i] = b.orders[i]
    BY <1>1, <2>2, <2>4, LeavingKeeps
  <2>8. o = [b.orders[id] EXCEPT !.status = "EXPIRED"]
    BY DEF o
  <2> HIDE DEF r
  <2>7. canCancelOrder(b.orders[id]) => Withdraws(b, r, "EXPIRED") /\ Ends(b, r, id, "EXPIRED")
    BY <1>1, <2>4, <2>5, <2>6, <2>8 DEF Withdraws, Withdrawn, Ends
  <2> QED  BY <2>3, <2>6, <2>7
<1>2. CASE ~(b.ok /\ b.orders[id].placed /\ isOrderExpired(b.orders[id]))
  <2>1. Expiring(b, id) = Reverted(b)
    BY <1>2 DEF Expiring
  <2> QED  BY <2>1, RevertedIs
<1> QED  BY <1>1, <1>2

-----------------------------------------------------------------------------
(* LOOPS: each is its turns, one after the other.                           *)

LEMMA CancelBatchUnfolds ==
    ASSUME Book \in Books, NEW ids \in Seq(OrderIds)
    PROVE  \E f : /\ f[0] = Book /\ f[Len(ids)] = InTurn(Cancelling, ids)
                  /\ \A k \in 1..Len(ids) : f[k] = Cancelling(f[k - 1], ids[k])
<1> DEFINE n == Len(ids)
           turn == [p \in Books \X (1..n) |-> Cancelling(p[1], ids[p[2]])]
           after == CHOOSE after : after = [k \in 0..n |->
                        IF k = 0 THEN Book ELSE Cancelling(after[k - 1], ids[k])]
<1>1. n \in Nat /\ \A k \in 1..n : ids[k] \in OrderIds
  OBVIOUS
<1>2. InTurn(Cancelling, ids) = after[n]
  BY DEF InTurn
<1> HIDE DEF n
<1>3. StepsIn(Books, n, turn)
  BY <1>1, CancellingKeeps DEF StepsIn
<1>4. \A b \in Books, k \in 1..n : turn[<<b, k>>] = Cancelling(b, ids[k])
  OBVIOUS
<1> HIDE DEF turn
<1>5. PICK g : RunsFrom(Book, Books, n, turn, g)
  BY <1>3, LoopRuns
<1>6. g = [k \in 0..n |-> IF k = 0 THEN Book ELSE Cancelling(g[k - 1], ids[k])]
  <2>1. \A k \in 1..n : k - 1 \in 0..n
    BY <1>1
  <2>2. \A k \in 1..n : g[k] = Cancelling(g[k - 1], ids[k])
    BY <1>4, <1>5, <2>1 DEF RunsFrom
  <2> QED  BY <1>1, <1>5, <2>2 DEF RunsFrom
<1>7. after = [k \in 0..n |-> IF k = 0 THEN Book ELSE Cancelling(after[k - 1], ids[k])]
  BY <1>6
<1> HIDE DEF after
<1>8. after[0] = Book /\ \A k \in 1..n : after[k] = Cancelling(after[k - 1], ids[k])
  <2>1. 0 \in 0..n /\ \A k \in 1..n : k \in 0..n /\ k # 0
    BY <1>1
  <2> QED  BY <1>7, <2>1
<1> QED  BY <1>2, <1>8, Zenon DEF n

LEMMA ExpireBatchUnfolds ==
    ASSUME Book \in Books, NEW ids \in Seq(OrderIds)
    PROVE  \E f : /\ f[0] = Book /\ f[Len(ids)] = InTurn(Expiring, ids)
                  /\ \A k \in 1..Len(ids) : f[k] = Expiring(f[k - 1], ids[k])
<1> DEFINE n == Len(ids)
           turn == [p \in Books \X (1..n) |-> Expiring(p[1], ids[p[2]])]
           after == CHOOSE after : after = [k \in 0..n |->
                        IF k = 0 THEN Book ELSE Expiring(after[k - 1], ids[k])]
<1>1. n \in Nat /\ \A k \in 1..n : ids[k] \in OrderIds
  OBVIOUS
<1>2. InTurn(Expiring, ids) = after[n]
  BY DEF InTurn
<1> HIDE DEF n
<1>3. StepsIn(Books, n, turn)
  BY <1>1, ExpiringKeeps DEF StepsIn
<1>4. \A b \in Books, k \in 1..n : turn[<<b, k>>] = Expiring(b, ids[k])
  OBVIOUS
<1> HIDE DEF turn
<1>5. PICK g : RunsFrom(Book, Books, n, turn, g)
  BY <1>3, LoopRuns
<1>6. g = [k \in 0..n |-> IF k = 0 THEN Book ELSE Expiring(g[k - 1], ids[k])]
  <2>1. \A k \in 1..n : k - 1 \in 0..n
    BY <1>1
  <2>2. \A k \in 1..n : g[k] = Expiring(g[k - 1], ids[k])
    BY <1>4, <1>5, <2>1 DEF RunsFrom
  <2> QED  BY <1>1, <1>5, <2>2 DEF RunsFrom
<1>7. after = [k \in 0..n |-> IF k = 0 THEN Book ELSE Expiring(after[k - 1], ids[k])]
  BY <1>6
<1> HIDE DEF after
<1>8. after[0] = Book /\ \A k \in 1..n : after[k] = Expiring(after[k - 1], ids[k])
  <2>1. 0 \in 0..n /\ \A k \in 1..n : k \in 0..n /\ k # 0
    BY <1>1
  <2> QED  BY <1>7, <2>1
<1> QED  BY <1>2, <1>8, Zenon DEF n

ListedTurn(b, id, markets) ==
    IF b.orders[id].marketId \in markets /\ canCancelOrder(b.orders[id]) THEN Cancelling(b, id) ELSE b

LEMMA ListedTurnKeeps ==
    ASSUME NEW b \in Books, NEW id \in OrderIds, NEW markets
    PROVE  ListedTurn(b, id, markets) \in Books
           /\ Withdraws(b, ListedTurn(b, id, markets), "CANCELLED")
BY CancellingKeeps, WithdrawsOn DEF ListedTurn

LEMMA CancelListedUnfolds ==
    ASSUME Book \in Books, NEW list \in Seq(OrderIds), NEW markets
    PROVE  \E f : /\ f[0] = Book /\ f[Len(list)] = CancelListed(list, markets)
                  /\ \A k \in 1..Len(list) : f[k] = ListedTurn(f[k - 1], list[k], markets)
<1> DEFINE n == Len(list)
           turn == [p \in Books \X (1..n) |-> ListedTurn(p[1], list[p[2]], markets)]
           after == CHOOSE after : after = [k \in 0..n |->
                        IF k = 0 THEN Book ELSE IF after[k - 1].orders[list[k]].marketId \in markets /\ canCancelOrder(after[k - 1].orders[list[k]])
                                                   THEN Cancelling(after[k - 1], list[k]) ELSE after[k - 1]]
<1>1. n \in Nat /\ \A k \in 1..n : list[k] \in OrderIds
  OBVIOUS
<1>2. CancelListed(list, markets) = after[n]
  BY DEF InTurn, CancelListed
<1> HIDE DEF n
<1>3. StepsIn(Books, n, turn)
  BY <1>1, ListedTurnKeeps DEF StepsIn
<1>4. \A b \in Books, k \in 1..n : turn[<<b, k>>] = ListedTurn(b, list[k], markets)
  OBVIOUS
<1> HIDE DEF turn
<1>5. PICK g : RunsFrom(Book, Books, n, turn, g)
  BY <1>3, LoopRuns
<1>6. g = [k \in 0..n |-> IF k = 0 THEN Book ELSE ListedTurn(g[k - 1], list[k], markets)]
  <2>1. \A k \in 1..n : k - 1 \in 0..n
    BY <1>1
  <2>2. \A k \in 1..n : g[k] = ListedTurn(g[k - 1], list[k], markets)
    BY <1>4, <1>5, <2>1 DEF RunsFrom
  <2> QED  BY <1>1, <1>5, <2>2 DEF RunsFrom
<1>7. after = [k \in 0..n |-> IF k = 0 THEN Book ELSE ListedTurn(after[k - 1], list[k], markets)]
  BY <1>6 DEF ListedTurn
<1> HIDE DEF after
<1>8. after[0] = Book /\ \A k \in 1..n : after[k] = ListedTurn(after[k - 1], list[k], markets)
  <2>1. 0 \in 0..n /\ \A k \in 1..n : k \in 0..n /\ k # 0
    BY <1>1
  <2> QED  BY <1>7, <2>1
<1> QED  BY <1>2, <1>8, Zenon DEF n

CleanUpTurn(b, id) ==
    IF isOrderExpired(b.orders[id]) /\ canCancelOrder(b.orders[id]) THEN Expiring(b, id) ELSE b

LEMMA CleanUpTurnKeeps ==
    ASSUME NEW b \in Books, NEW id \in OrderIds
    PROVE  CleanUpTurn(b, id) \in Books /\ Withdraws(b, CleanUpTurn(b, id), "EXPIRED")
BY ExpiringKeeps, WithdrawsOn DEF CleanUpTurn

LEMMA CleanedUpUnfolds ==
    ASSUME Book \in Books, NEW m \in Markets, NEW list \in Seq(OrderIds), list = marketOrders[m]
    PROVE  \E f : /\ f[0] = Book /\ f[Len(list)] = CleanedUp(m)
                  /\ \A k \in 1..Len(list) : f[k] = CleanUpTurn(f[k - 1], list[k])
<1> DEFINE n == Len(list)
           turn == [p \in Books \X (1..n) |-> CleanUpTurn(p[1], list[p[2]])]
           after == CHOOSE after : after = [k \in 0..n |->
                        IF k = 0 THEN Book ELSE IF isOrderExpired(after[k - 1].orders[list[k]]) /\ canCancelOrder(after[k - 1].orders[list[k]])
                                                   THEN Expiring(after[k - 1], list[k]) ELSE after[k - 1]]
<1>1. n \in Nat /\ \A k \in 1..n : list[k] \in OrderIds
  OBVIOUS
<1>2. CleanedUp(m) = after[n]
  BY DEF InTurn, CleanedUp
<1> HIDE DEF n
<1>3. StepsIn(Books, n, turn)
  BY <1>1, CleanUpTurnKeeps DEF StepsIn
<1>4. \A b \in Books, k \in 1..n : turn[<<b, k>>] = CleanUpTurn(b, list[k])
  OBVIOUS
<1> HIDE DEF turn
<1>5. PICK g : RunsFrom(Book, Books, n, turn, g)
  BY <1>3, LoopRuns
<1>6. g = [k \in 0..n |-> IF k = 0 THEN Book ELSE CleanUpTurn(g[k - 1], list[k])]
  <2>1. \A k \in 1..n : k - 1 \in 0..n
    BY <1>1
  <2>2. \A k \in 1..n : g[k] = CleanUpTurn(g[k - 1], list[k])
    BY <1>4, <1>5, <2>1 DEF RunsFrom
  <2> QED  BY <1>1, <1>5, <2>2 DEF RunsFrom
<1>7. after = [k \in 0..n |-> IF k = 0 THEN Book ELSE CleanUpTurn(after[k - 1], list[k])]
  BY <1>6 DEF CleanUpTurn
<1> HIDE DEF after
<1>8. after[0] = Book /\ \A k \in 1..n : after[k] = CleanUpTurn(after[k - 1], list[k])
  <2>1. 0 \in 0..n /\ \A k \in 1..n : k \in 0..n /\ k # 0
    BY <1>1
  <2> QED  BY <1>7, <2>1
<1> QED  BY <1>2, <1>8, Zenon DEF n

(* What every call over many orders leaves.                                 *)
LEMMA CancelBatchKeeps ==
    ASSUME Book \in Books, NEW ids \in Seq(OrderIds)
    PROVE  InTurn(Cancelling, ids) \in Books /\ Withdraws(Book, InTurn(Cancelling, ids), "CANCELLED")
<1> DEFINE S == { b \in Books : Withdraws(Book, b, "CANCELLED") }
           n == Len(ids)
<1>1. n \in Nat /\ \A k \in 1..n : ids[k] \in OrderIds
  OBVIOUS
<1>2. PICK f : /\ f[0] = Book /\ f[n] = InTurn(Cancelling, ids)
               /\ \A k \in 1..n : f[k] = Cancelling(f[k - 1], ids[k])
  BY CancelBatchUnfolds
<1> HIDE DEF n
<1>3. f[0] \in S
  BY <1>2, WithdrawsOn
<1>4. ASSUME NEW k \in 1..n, f[k - 1] \in S PROVE f[k] \in S
  <2>1. PICK b : b = f[k - 1]
    OBVIOUS
  <2>2. b \in Books /\ Withdraws(Book, b, "CANCELLED") /\ ids[k] \in OrderIds /\ f[k] = Cancelling(b, ids[k])
    BY <1>1, <1>2, <1>4, <2>1
  <2>3. Cancelling(b, ids[k]) \in Books /\ Withdraws(b, Cancelling(b, ids[k]), "CANCELLED")
    BY <2>2, CancellingKeeps
  <2> QED  BY <2>2, <2>3, WithdrawsOn
<1>5. f[n] \in S
  <2> HIDE DEF S
  <2> QED  BY <1>1, <1>3, <1>4, LoopStays
<1> QED  BY <1>2, <1>5

LEMMA CancelListedKeeps ==
    ASSUME Book \in Books, NEW list \in Seq(OrderIds), NEW markets
    PROVE  CancelListed(list, markets) \in Books /\ Withdraws(Book, CancelListed(list, markets), "CANCELLED")
<1> DEFINE S == { b \in Books : Withdraws(Book, b, "CANCELLED") }
           n == Len(list)
<1>1. n \in Nat /\ \A k \in 1..n : list[k] \in OrderIds
  OBVIOUS
<1>2. PICK f : /\ f[0] = Book /\ f[n] = CancelListed(list, markets)
               /\ \A k \in 1..n : f[k] = ListedTurn(f[k - 1], list[k], markets)
  BY CancelListedUnfolds
<1> HIDE DEF n
<1>3. f[0] \in S
  BY <1>2, WithdrawsOn
<1>4. \A k \in 1..n : f[k - 1] \in S => f[k] \in S
  BY <1>1, <1>2, ListedTurnKeeps, WithdrawsOn
<1>5. f[n] \in S
  <2> HIDE DEF S
  <2> QED  BY <1>1, <1>3, <1>4, LoopStays
<1> QED  BY <1>2, <1>5

(* A clean-up never reverts: the orders listed were placed, and each that   *)
(* is still active is found in the queue.                                   *)
LEMMA ExpiringFinds ==
    ASSUME NEW b \in Books, b.ok, BookExact(b), NEW id \in OrderIds,
           IsActive(b.orders[id]), isOrderExpired(b.orders[id])
    PROVE  Expiring(b, id).ok /\ BookExact(Expiring(b, id))
<1> DEFINE o == [b.orders[id] EXCEPT !.status = "EXPIRED"]
           r == RemovedFromPending([b EXCEPT !.orders = [b.orders EXCEPT ![id] = o]], id)
<1>1. b.orders[id] \in Order /\ OrderOK(b.orders[id]) /\ b.orders[id].placed
  BY DEF Books, IsActive
<1>2. /\ o \in Order /\ OrderOK(o) /\ ~IsActive(o)
      /\ o.placed /\ o.marketId = b.orders[id].marketId /\ o.side = b.orders[id].side
  BY <1>1 DEF Order, OrderStatus, OrderOK, IsActive, canCancelOrder
<1>3. Expiring(b, id) = r
  BY <1>1, Zenon DEF Expiring
<1> HIDE DEF o
<1>4. r.ok = b.ok /\ BookExact(r)
  BY <1>2, RemovalExact
<1> QED  BY <1>3, <1>4

(* Nor does the cancellation of an active order.                            *)
LEMMA CancellingFinds ==
    ASSUME NEW b \in Books, b.ok, BookExact(b), NEW id \in OrderIds,
           IsActive(b.orders[id]), b.orders[id].size >= b.orders[id].filledSize
    PROVE  Cancelling(b, id).ok
<1> DEFINE o == [b.orders[id] EXCEPT !.status = "CANCELLED"]
           r == RemovedFromPending([b EXCEPT !.orders = [b.orders EXCEPT ![id] = o]], id)
<1>1. b.orders[id] \in Order /\ OrderOK(b.orders[id]) /\ b.orders[id].placed
  BY DEF Books, IsActive
<1>2. /\ o \in Order /\ OrderOK(o) /\ ~IsActive(o)
      /\ o.placed /\ o.marketId = b.orders[id].marketId /\ o.side = b.orders[id].side
  BY <1>1 DEF Order, OrderStatus, OrderOK, IsActive, canCancelOrder
<1>3. Cancelling(b, id) = r
  BY <1>1, Zenon DEF Cancelling
<1> HIDE DEF o
<1>4. r.ok = b.ok
  BY <1>2, RemovalExact
<1> QED  BY <1>3, <1>4

LEMMA CleanedUpKeeps ==
    ASSUME Book \in Books, NEW m \in Markets, marketOrders[m] \in Seq(OrderIds)
    PROVE  /\ CleanedUp(m) \in Books /\ Withdraws(Book, CleanedUp(m), "EXPIRED")
           /\ BookExact(Book) /\ (\A k \in 1..Len(marketOrders[m]) : orders[marketOrders[m][k]].placed)
                => CleanedUp(m).ok
<1>0. PICK list : list = marketOrders[m]
  OBVIOUS
<1> DEFINE Good == BookExact(Book) /\ \A k \in 1..Len(list) : orders[list[k]].placed
           S == { b \in Books : Withdraws(Book, b, "EXPIRED") /\ (Good => b.ok) }
           n == Len(list)
<1>1. list \in Seq(OrderIds) /\ n \in Nat /\ \A k \in 1..n : list[k] \in OrderIds
  BY <1>0
<1>2. PICK f : /\ f[0] = Book /\ f[n] = CleanedUp(m)
               /\ \A k \in 1..n : f[k] = CleanUpTurn(f[k - 1], list[k])
  BY <1>0, <1>1, CleanedUpUnfolds
<1> HIDE DEF n, Good
<1>3. f[0] \in S
  BY <1>2, WithdrawsOn DEF Book
<1>4. ASSUME NEW k \in 1..n, f[k - 1] \in S PROVE f[k] \in S
  <2>1. PICK b : b = f[k - 1]
    OBVIOUS
  <2>2. b \in Books /\ Withdraws(Book, b, "EXPIRED") /\ (Good => b.ok) /\ list[k] \in OrderIds
    BY <1>1, <1>4, <2>1
  <2>3. CleanUpTurn(b, list[k]) \in Books /\ Withdraws(Book, CleanUpTurn(b, list[k]), "EXPIRED")
    BY <2>2, CleanUpTurnKeeps, WithdrawsOn
  <2>4. ASSUME Good PROVE CleanUpTurn(b, list[k]).ok
    <3>1. b.ok /\ BookExact(b) /\ Kept(orders[list[k]], b.orders[list[k]])
      BY <2>2, <2>4 DEF Withdraws, Onward, Good, Book
    <3>2. b.orders[list[k]].placed
      BY <2>4, <3>1 DEF Good, Kept, n
    <3>3. CASE isOrderExpired(b.orders[list[k]]) /\ canCancelOrder(b.orders[list[k]])
      BY <2>2, <3>1, <3>2, <3>3, ExpiringFinds DEF CleanUpTurn, IsActive
    <3>4. CASE ~(isOrderExpired(b.orders[list[k]]) /\ canCancelOrder(b.orders[list[k]]))
      BY <3>1, <3>4 DEF CleanUpTurn
    <3> QED  BY <3>3, <3>4
  <2> QED  BY <1>2, <2>1, <2>3, <2>4
<1>5. f[n] \in S
  <2> HIDE DEF S
  <2> QED  BY <1>1, <1>3, <1>4, LoopStays
<1> QED  BY <1>0, <1>2, <1>5 DEF Good

(* A batch that names active orders once each finds each of them active     *)
(* when its turn comes.                                                     *)
LEMMA ExpireBatchKeeps ==
    ASSUME Book \in Books, NEW ids \in Seq(OrderIds)
    PROVE  /\ InTurn(Expiring, ids) \in Books
           /\ IsInjective(ids) /\ (\A k \in DOMAIN ids : IsActive(orders[ids[k]]))
                => Withdraws(Book, InTurn(Expiring, ids), "EXPIRED")
<1> DEFINE Good == IsInjective(ids) /\ \A k \in DOMAIN ids : IsActive(orders[ids[k]])
           n == Len(ids)
           Unturned(b, k) == \A j \in (k + 1)..n : b.orders[ids[j]] = orders[ids[j]]
           S == { p \in Nat \X Books : Good => Withdraws(Book, p[2], "EXPIRED") /\ Unturned(p[2], p[1]) }
<1>1. n \in Nat /\ DOMAIN ids = 1..n /\ \A k \in 1..n : ids[k] \in OrderIds
  OBVIOUS
<1>2. PICK f : /\ f[0] = Book /\ f[n] = InTurn(Expiring, ids)
               /\ \A k \in 1..n : f[k] = Expiring(f[k - 1], ids[k])
  BY ExpireBatchUnfolds
<1> HIDE DEF n
<1> DEFINE h == [k \in 0..n |-> <<k, f[k]>>]
<1>3. h[0] \in S
  <2>1. h[0] = <<0, Book>>
    BY <1>1, <1>2
  <2>2. Withdraws(Book, Book, "EXPIRED")
    BY WithdrawsOn
  <2>3. Unturned(Book, 0)
    BY DEF Book
  <2> HIDE DEF h, Unturned, Good
  <2> QED  BY <2>1, <2>2, <2>3
<1>4. ASSUME NEW k \in 1..n, h[k - 1] \in S PROVE h[k] \in S
  <2>1. PICK b : b = f[k - 1]
    OBVIOUS
  <2>2. /\ k \in Nat /\ k - 1 \in Nat /\ (k - 1) + 1 = k
        /\ h[k - 1] = <<k - 1, b>> /\ h[k] = <<k, Expiring(b, ids[k])>> /\ ids[k] \in OrderIds
    BY <1>1, <1>2, <2>1
  <2> HIDE DEF h
  <2>3. b \in Books /\ (Good => Withdraws(Book, b, "EXPIRED") /\ Unturned(b, k - 1))
    BY <1>4, <2>2
  <2>4. /\ Expiring(b, ids[k]) \in Books
        /\ canCancelOrder(b.orders[ids[k]]) => Withdraws(b, Expiring(b, ids[k]), "EXPIRED")
        /\ \A i \in OrderIds \ {ids[k]} : Expiring(b, ids[k]).orders[i] = b.orders[i]
    BY <2>2, <2>3, ExpiringKeeps
  <2>5. ASSUME Good PROVE Withdraws(Book, Expiring(b, ids[k]), "EXPIRED") /\ Unturned(Expiring(b, ids[k]), k)
    <3>1. b.orders[ids[k]] = orders[ids[k]]
      BY <1>1, <2>2, <2>3, <2>5
    <3>2. canCancelOrder(b.orders[ids[k]])
      BY <1>1, <2>5, <3>1 DEF IsActive
    <3>3. Withdraws(Book, Expiring(b, ids[k]), "EXPIRED")
      BY <2>3, <2>4, <2>5, <3>2, WithdrawsOn
    <3>4. ASSUME NEW j \in (k + 1)..n PROVE Expiring(b, ids[k]).orders[ids[j]] = orders[ids[j]]
      <4>1. j \in 1..n /\ j \in ((k - 1) + 1)..n /\ j # k
        BY <1>1, <2>2
      <4>2. ids[j] \in OrderIds \ {ids[k]}
        BY <1>1, <2>5, <4>1 DEF IsInjective
      <4> QED  BY <2>3, <2>4, <2>5, <4>1, <4>2
    <3> QED  BY <3>3, <3>4
  <2> HIDE DEF Good, Unturned
  <2> QED  BY <2>2, <2>4, <2>5
<1>5. h[n] \in S
  <2> HIDE DEF S, h
  <2> QED  BY <1>1, <1>3, <1>4, LoopStays
<1>6. h[n] = <<n, InTurn(Expiring, ids)>>
  BY <1>1, <1>2
<1> HIDE DEF h, Unturned
<1> QED  BY <1>5, <1>6

-----------------------------------------------------------------------------
(* The invariant.  Exactness is claimed where no order is expired twice.    *)
ListsExact ==
    /\ \A t \in Traders :
          ToSet(userOrders[t]) = { id \in OrderIds : orders[id].placed /\ orders[id].trader = t }
    /\ \A m \in Markets :
          ToSet(marketOrders[m]) = { id \in OrderIds : orders[id].placed /\ orders[id].marketId = m }

BooksAgree ==
    /\ BookExact(Book)
    /\ ListsExact
    /\ \A m \in Markets : \A k \in 1..Len(marketOrders[m]) : orders[marketOrders[m][k]].placed
    /\ \A id \in OrderIds : id > orderIdCounter => ~orders[id].placed

OrdersInv ==
    /\ TypeOK
    /\ \A id \in OrderIds : OrderOK(orders[id])
    /\ ~ReExpires => BooksAgree

AllKept == \A id \in OrderIds : Kept(orders[id], orders'[id])

LEMMA BookTyped ==
    ASSUME OrdersInv
    PROVE  Book \in Books /\ Book.ok /\ Book.orders = orders /\ Book.pending = pendingOrders
           /\ Book.index = orderIndexInPending
BY DEF OrdersInv, TypeOK, Book, Books

(* What a call committed is a book of the same kind.                        *)
LEMMA CommitKeeps ==
    ASSUME OrdersInv, NEW b \in Books, Commit(b), ~ReExpires => Onward(Book, b)
    PROVE  OrdersInv' /\ (~ReExpires => AllKept)
<1>1. /\ orders' = b.orders /\ pendingOrders' = b.pending /\ orderIndexInPending' = b.index /\ b.ok
      /\ now' = now /\ orderIdCounter' = orderIdCounter /\ userOrders' = userOrders
      /\ marketOrders' = marketOrders
  BY DEF Commit, listVars
<1>2. TypeOK' /\ (\A id \in OrderIds : OrderOK(orders[id]))'
  BY <1>1 DEF OrdersInv, TypeOK, Books
<1>3. ASSUME ~ReExpires PROVE BooksAgree' /\ AllKept
  <2>1. BookExact(b) /\ \A id \in OrderIds : Kept(orders[id], b.orders[id])
    BY <1>1, <1>3, BookTyped DEF Onward, OrdersInv, BooksAgree
  <2>2. Book' = b
    BY <1>1 DEF Book, Books
  <2>3. BookExact(Book)'
    BY <2>1, <2>2 DEF BookExact, QueueExact, ActiveIn, IsActive, canCancelOrder
  <2>4. \A id \in OrderIds : /\ orders'[id].placed = orders[id].placed
                             /\ orders'[id].trader = orders[id].trader
                             /\ orders'[id].marketId = orders[id].marketId
    BY <1>1, <2>1 DEF Kept
  <2>5. \A m \in Markets : \A k \in 1..Len(marketOrders[m]) : marketOrders[m][k] \in OrderIds
    BY DEF OrdersInv, TypeOK
  <2>6. BooksAgree
    BY <1>3 DEF OrdersInv
  <2>7. (\A m \in Markets : \A k \in 1..Len(marketOrders[m]) : orders[marketOrders[m][k]].placed)'
    BY <1>1, <2>4, <2>5, <2>6 DEF BooksAgree
  <2>8. (\A id \in OrderIds : id > orderIdCounter => ~orders[id].placed)'
    BY <1>1, <2>4, <2>6 DEF BooksAgree
  <2>9. ListsExact'
    BY <1>1, <2>4, <2>6 DEF BooksAgree, ListsExact
  <2> QED  BY <1>1, <2>1, <2>3, <2>7, <2>8, <2>9 DEF BooksAgree, AllKept
<1> QED  BY <1>2, <1>3 DEF OrdersInv

LEMMA OrdersInvInit == Init => OrdersInv
<1> SUFFICES ASSUME Init PROVE OrdersInv
  OBVIOUS
<1> USE DEF Init
<1>1. NoOrder \in Order /\ OrderOK(NoOrder) /\ ~NoOrder.placed
  BY DEF NoOrder, Order, OrderStatus, Sides, OrderOK
<1>2. TypeOK /\ \A id \in OrderIds : OrderOK(orders[id])
  BY <1>1, BoundsAssumption DEF TypeOK
<1>3. BooksAgree
  <2>1. Book.orders = orders /\ Book.pending = pendingOrders /\ Book.index = orderIndexInPending
    BY DEF Book
  <2>2. ASSUME NEW m \in Markets, NEW side \in Sides PROVE QueueExact(Book, m, side)
    <3>1. Book.pending[m][side] = << >> /\ \A id \in OrderIds : ~IsActive(Book.orders[id])
      BY <1>1, <2>1 DEF IsActive
    <3>2. ActiveIn(Book, m, side) = {}
      BY <3>1 DEF ActiveIn
    <3> QED  BY <3>1, <3>2 DEF QueueExact, ToSet, IsInjective
  <2>3. \A id \in OrderIds : ~orders[id].placed
    BY <1>1
  <2>4. ListsExact
    BY <2>3 DEF ListsExact, ToSet
  <2> QED  BY <1>1, <2>2, <2>4 DEF BooksAgree, BookExact
<1> QED  BY <1>2, <1>3 DEF OrdersInv

(* A placed order joins the end of its queue.                               *)
LEMMA PlacingKeeps ==
    ASSUME OrdersInv, NEW t \in Traders, NEW m \in Markets, NEW side \in Sides,
           NEW args, NEW size \in Nat, NEW expiry \in Nat,
           placeOrder(t, m, side, args, size, expiry)
    PROVE  OrdersInv' /\ (~ReExpires => \A id \in OrderIds : orders[id].placed => orders'[id] = orders[id])
<1> DEFINE id == orderIdCounter + 1
           o == [placed |-> TRUE, trader |-> t, marketId |-> m, side |-> side, size |-> size,
                 filledSize |-> 0, expiry |-> expiry, status |-> "PENDING"]
           q == pendingOrders[m][side]
<1>1. /\ id \in OrderIds /\ orderIdCounter' = id /\ now' = now
      /\ orders' = [orders EXCEPT ![id] = o]
      /\ userOrders' = [userOrders EXCEPT ![t] = Append(@, id)]
      /\ marketOrders' = [marketOrders EXCEPT ![m] = Append(@, id)]
      /\ orderIndexInPending' = [orderIndexInPending EXCEPT ![id] = Len(q)]
      /\ pendingOrders' = [pendingOrders EXCEPT ![m][side] = Append(@, id)]
  BY DEF placeOrder
<1>2. o \in Order /\ OrderOK(o) /\ IsActive(o) /\ o.placed /\ o.marketId = m /\ o.side = side
  BY DEF Order, OrderStatus, OrderOK, IsActive, canCancelOrder
<1>3. /\ now \in Nat /\ orders \in [OrderIds -> Order] /\ orderIdCounter \in 0..MaxOrders
      /\ userOrders \in [Traders -> Seq(OrderIds)] /\ marketOrders \in [Markets -> Seq(OrderIds)]
      /\ pendingOrders \in [Markets -> [Sides -> Seq(OrderIds)]]
      /\ orderIndexInPending \in [OrderIds -> Nat] /\ q \in Seq(OrderIds) /\ Len(q) \in Nat
  BY DEF OrdersInv, TypeOK
<1> HIDE DEF o, q
<1>4. TypeOK'
  <2>1. id \in 0..MaxOrders
    BY <1>1, BoundsAssumption DEF OrderIds
  <2> HIDE DEF id
  <2>2. /\ orders' \in [OrderIds -> Order] /\ userOrders' \in [Traders -> Seq(OrderIds)]
        /\ marketOrders' \in [Markets -> Seq(OrderIds)] /\ orderIndexInPending' \in [OrderIds -> Nat]
    BY <1>1, <1>2, <1>3
  <2>3. pendingOrders' \in [Markets -> [Sides -> Seq(OrderIds)]]
    BY <1>1, <1>3
  <2> QED  BY <1>1, <1>3, <2>1, <2>2, <2>3 DEF TypeOK
<1>5. (\A i \in OrderIds : OrderOK(orders[i]))'
  BY <1>1, <1>2, <1>3 DEF OrdersInv
<1>6. ASSUME ~ReExpires
      PROVE  BooksAgree' /\ \A i \in OrderIds : orders[i].placed => orders'[i] = orders[i]
  <2>1. BooksAgree
    BY <1>6 DEF OrdersInv
  <2>2. ~orders[id].placed
    BY <1>1, <1>3, <2>1 DEF BooksAgree
  <2>3. \A i \in OrderIds : orders'[i] = IF i = id THEN o ELSE orders[i]
    BY <1>1, <1>3
  <2> HIDE DEF id
  <2>4. /\ Book.orders = orders /\ Book.pending = pendingOrders /\ Book.index = orderIndexInPending
        /\ Book'.orders = orders' /\ Book'.pending = pendingOrders' /\ Book'.index = orderIndexInPending'
    BY DEF Book
  <2>5. \A n \in Markets, s \in Sides :
           ActiveIn(Book', n, s) = IF n = m /\ s = side THEN ActiveIn(Book, n, s) \cup {id}
                                   ELSE ActiveIn(Book, n, s)
    BY <1>1, <1>2, <2>2, <2>3, <2>4 DEF ActiveIn, IsActive
  <2>6. \A n \in Markets, s \in Sides :
           Book'.pending[n][s] = IF n = m /\ s = side THEN Append(q, id) ELSE Book.pending[n][s]
    BY <1>1, <1>3, <2>4 DEF q
  <2>7. \A i \in OrderIds : Book'.index[i] = IF i = id THEN Len(q) ELSE Book.index[i]
    BY <1>1, <1>3, <2>4
  <2>8. \A n \in Markets, s \in Sides : id \notin ActiveIn(Book, n, s)
    BY <2>2, <2>4 DEF ActiveIn, IsActive
  <2>9. ASSUME NEW n \in Markets, NEW s \in Sides PROVE QueueExact(Book', n, s)
    <3>1. QueueExact(Book, n, s)
      BY <2>1 DEF BooksAgree, BookExact
    <3>2. CASE n = m /\ s = side
      <4>1. Book.pending[n][s] = q
        BY <2>4, <3>2 DEF q
      <4>2. /\ Len(Append(q, id)) = Len(q) + 1 /\ Len(q) \in Nat
            /\ IsInjective(Append(q, id)) /\ ToSet(Append(q, id)) = ToSet(q) \cup {id}
            /\ \A i \in 1..Len(q) : Append(q, id)[i] = q[i]
            /\ Append(q, id)[Len(q) + 1] = id
        BY <1>1, <1>3, <2>8, <3>1, <4>1, AppendExact DEF QueueExact
      <4>3. PICK r : r = Append(q, id)
        OBVIOUS
      <4>4. ASSUME NEW i \in ActiveIn(Book', n, s)
            PROVE  Book'.index[i] < Len(r) /\ r[Book'.index[i] + 1] = i
        <5>1. i \in OrderIds /\ (i = id \/ i \in ActiveIn(Book, n, s))
          BY <2>5, <3>2 DEF ActiveIn
        <5>2. CASE i = id
          BY <2>7, <4>2, <4>3, <5>1, <5>2
        <5>3. CASE i # id
          <6>1. Book.index[i] < Len(q) /\ q[Book.index[i] + 1] = i /\ Book.index[i] \in Nat
            BY <1>3, <2>4, <3>1, <4>1, <5>1, <5>3 DEF QueueExact
          <6>2. Book'.index[i] = Book.index[i] /\ Book.index[i] + 1 \in 1..Len(q)
            BY <2>7, <4>2, <5>1, <5>3, <6>1
          <6>3. r[Book.index[i] + 1] = q[Book.index[i] + 1]
            BY <4>2, <4>3, <6>2
          <6> QED  BY <4>2, <4>3, <6>1, <6>2, <6>3
        <5> QED  BY <5>2, <5>3
      <4>5. Book'.pending[n][s] = r
        BY <2>6, <3>2, <4>3
      <4>6. ToSet(r) = ActiveIn(Book', n, s)
        BY <2>5, <3>1, <3>2, <4>1, <4>2, <4>3 DEF QueueExact
      <4> QED  BY <4>2, <4>3, <4>4, <4>5, <4>6 DEF QueueExact
    <3>3. CASE ~(n = m /\ s = side)
      <4>1. ActiveIn(Book', n, s) = ActiveIn(Book, n, s) /\ Book'.pending[n][s] = Book.pending[n][s]
        BY <2>5, <2>6, <3>3
      <4>2. \A i \in ActiveIn(Book, n, s) : Book'.index[i] = Book.index[i]
        BY <2>7, <2>8 DEF ActiveIn
      <4> QED  BY <3>1, <4>1, <4>2 DEF QueueExact
    <3> QED  BY <3>2, <3>3
  <2>10. BookExact(Book)'
    BY <2>9 DEF BookExact, QueueExact, ActiveIn, IsActive, canCancelOrder
  <2>11. (\A n \in Markets : \A k \in 1..Len(marketOrders[n]) : orders[marketOrders[n][k]].placed)'
    <3> SUFFICES ASSUME NEW n \in Markets, NEW k \in 1..Len(marketOrders'[n])
                 PROVE  orders'[marketOrders'[n][k]].placed
      OBVIOUS
    <3>1. CASE n = m
      <4>1. PICK list : list = marketOrders[m]
        OBVIOUS
      <4>2. list \in Seq(OrderIds) /\ marketOrders'[n] = Append(list, id)
        BY <1>1, <1>3, <3>1, <4>1
      <4>3. /\ k \in 1..(Len(list) + 1)
            /\ Append(list, id)[k] = IF k = Len(list) + 1 THEN id ELSE list[k]
            /\ k # Len(list) + 1 => k \in 1..Len(list) /\ list[k] \in OrderIds
        BY <4>2
      <4>4. k # Len(list) + 1 => orders[list[k]].placed
        BY <2>1, <4>1, <4>3 DEF BooksAgree
      <4> QED  BY <1>1, <1>2, <2>3, <4>2, <4>3, <4>4
    <3>2. CASE n # m
      <4>1. marketOrders'[n] = marketOrders[n]
        BY <1>1, <1>3, <3>2
      <4>2. orders[marketOrders[n][k]].placed /\ marketOrders[n][k] \in OrderIds
        BY <1>3, <2>1, <4>1 DEF BooksAgree
      <4> QED  BY <1>2, <2>3, <4>1, <4>2
    <3> QED  BY <3>1, <3>2
  <2>12. (\A i \in OrderIds : i > orderIdCounter => ~orders[i].placed)'
    <3>1. ASSUME NEW i \in OrderIds, i > id PROVE ~orders'[i].placed
      <4>1. i > orderIdCounter /\ i # id
        BY <1>3, <3>1 DEF OrderIds, id
      <4> QED  BY <2>1, <2>3, <4>1 DEF BooksAgree
    <3> QED  BY <1>1, <3>1
  <2>13. ListsExact'
    <3>1. ASSUME NEW n \in Traders
          PROVE  ToSet(userOrders'[n]) = { i \in OrderIds : orders'[i].placed /\ orders'[i].trader = n }
      <4>1. userOrders'[n] = IF n = t THEN Append(userOrders[n], id) ELSE userOrders[n]
        BY <1>1, <1>3
      <4>2. userOrders[n] \in Seq(OrderIds)
        BY <1>3
      <4>3. ToSet(userOrders'[n]) = IF n = t THEN ToSet(userOrders[n]) \cup {id} ELSE ToSet(userOrders[n])
        <5>1. PICK list : list = userOrders[n]
          OBVIOUS
        <5>2. list \in Seq(OrderIds)
          BY <4>2, <5>1
        <5>3. ToSet(Append(list, id)) = ToSet(list) \cup {id}
          BY <1>1, <5>2, AppendSet
        <5> QED  BY <4>1, <5>1, <5>3
      <4>4. ToSet(userOrders[n]) = { i \in OrderIds : orders[i].placed /\ orders[i].trader = n }
        BY <2>1 DEF BooksAgree, ListsExact
      <4>5. o.trader = t
        BY DEF o
      <4> QED  BY <1>1, <1>2, <2>2, <2>3, <4>3, <4>4, <4>5
    <3>2. ASSUME NEW n \in Markets
          PROVE  ToSet(marketOrders'[n]) = { i \in OrderIds : orders'[i].placed /\ orders'[i].marketId = n }
      <4>1. marketOrders'[n] = IF n = m THEN Append(marketOrders[n], id) ELSE marketOrders[n]
        BY <1>1, <1>3
      <4>2. marketOrders[n] \in Seq(OrderIds)
        BY <1>3
      <4>3. ToSet(marketOrders'[n]) = IF n = m THEN ToSet(marketOrders[n]) \cup {id} ELSE ToSet(marketOrders[n])
        <5>1. PICK list : list = marketOrders[n]
          OBVIOUS
        <5>2. list \in Seq(OrderIds)
          BY <4>2, <5>1
        <5>3. ToSet(Append(list, id)) = ToSet(list) \cup {id}
          BY <1>1, <5>2, AppendSet
        <5> QED  BY <4>1, <5>1, <5>3
      <4>4. ToSet(marketOrders[n]) = { i \in OrderIds : orders[i].placed /\ orders[i].marketId = n }
        BY <2>1 DEF BooksAgree, ListsExact
      <4> QED  BY <1>1, <1>2, <2>2, <2>3, <4>3, <4>4
    <3> QED  BY <3>1, <3>2 DEF ListsExact
  <2> QED  BY <2>2, <2>3, <2>10, <2>11, <2>12, <2>13 DEF BooksAgree
<1> QED  BY <1>4, <1>5, <1>6 DEF OrdersInv

(* What a fill makes of a pending order.                                    *)
LEMMA FilledIs ==
    ASSUME NEW o \in Order, o.placed, o.marketId \in Markets, o.status = "PENDING", o.filledSize = 0,
           NEW fillSize \in Nat, fillSize <= o.size
    PROVE  LET filled == [o EXCEPT !.filledSize = @ + fillSize, !.status = "FILLED"]
               partly == PartlyFilled(o, fillSize)
           IN  /\ filled \in Order /\ OrderOK(filled) /\ ~IsActive(filled)
               /\ Kept(o, filled)
               /\ filled.placed /\ filled.marketId = o.marketId /\ filled.side = o.side
               /\ partly \in Order /\ OrderOK(partly) /\ IsActive(partly) /\ Kept(o, partly)
               /\ partly.marketId = o.marketId /\ partly.side = o.side
<1>1. PICK filled, partly :
         /\ filled = [o EXCEPT !.filledSize = @ + fillSize, !.status = "FILLED"]
         /\ partly = PartlyFilled(o, fillSize)
  OBVIOUS
<1>2. o.size \in Nat /\ o.filledSize + fillSize = fillSize /\ o.size - fillSize \in Nat
      /\ IsActive(o)
  BY DEF Order, IsActive, canCancelOrder
<1>3. /\ filled \in Order /\ filled.placed /\ filled.marketId = o.marketId /\ filled.side = o.side
      /\ filled.trader = o.trader
      /\ filled.status = "FILLED" /\ filled.size = o.size
  BY <1>1, <1>2 DEF Order, OrderStatus
<1>4. /\ partly \in Order /\ partly.placed /\ partly.marketId = o.marketId /\ partly.side = o.side
      /\ partly.trader = o.trader
      /\ partly.status = "PARTIALLY_FILLED" /\ partly.size = o.size - fillSize
      /\ partly.filledSize = fillSize
  BY <1>1, <1>2 DEF Order, OrderStatus, PartlyFilled
<1>5. OrderOK(filled) /\ ~IsActive(filled) /\ Kept(o, filled)
  BY <1>2, <1>3 DEF OrderOK, IsActive, canCancelOrder, Kept, Ordered
<1>6. OrderOK(partly) /\ IsActive(partly)
  BY <1>4 DEF OrderOK, IsActive, canCancelOrder
<1>7. Ordered(partly) = Ordered(o)
  BY <1>2, <1>4 DEF Ordered
<1>8. Kept(o, partly)
  BY <1>2, <1>4, <1>7 DEF Kept
<1> QED  BY <1>1, <1>3, <1>4, <1>5, <1>6, <1>8, Zenon

FilledOrder(o, fillSize) ==
    IF fillSize = o.size THEN [o EXCEPT !.filledSize = @ + fillSize, !.status = "FILLED"]
    ELSE PartlyFilled(o, fillSize)

(* A fill leaves the order active with less to fill, or takes it out.       *)
LEMMA FillingKeeps ==
    ASSUME OrdersInv, NEW id \in OrderIds, NEW fillSize \in Nat, canFillOrder(orders[id], fillSize)
    PROVE  /\ Filling(id, fillSize) \in Books /\ Onward(Book, Filling(id, fillSize))
           /\ Filling(id, fillSize).orders[id] = FilledOrder(orders[id], fillSize)
           /\ \A i \in OrderIds \ {id} : Filling(id, fillSize).orders[i] = orders[i]
<1> DEFINE filled == [orders[id] EXCEPT !.filledSize = @ + fillSize, !.status = "FILLED"]
           partly == PartlyFilled(orders[id], fillSize)
<1>1. /\ orders[id] \in Order /\ OrderOK(orders[id]) /\ IsActive(orders[id])
      /\ orders[id].placed /\ orders[id].marketId \in Markets /\ orders[id].status = "PENDING" /\ orders[id].filledSize = 0
      /\ fillSize <= orders[id].size
  BY DEF OrdersInv, TypeOK, canFillOrder, OrderOK, IsActive, canCancelOrder
<1>2. Book \in Books /\ Book.ok /\ Book.orders = orders
  BY BookTyped
<1>3. CASE fillSize = orders[id].size
  <2>1. /\ filled \in Order /\ OrderOK(filled) /\ ~IsActive(filled) /\ Kept(orders[id], filled)
        /\ filled.placed /\ filled.marketId = orders[id].marketId /\ filled.side = orders[id].side
    BY <1>1, <1>3, FilledIs
  <2>2. PICK b : b = Book
    OBVIOUS
  <2>3. Filling(id, fillSize) = RemovedFromPending([b EXCEPT !.orders = [b.orders EXCEPT ![id] = filled]], id)
    BY <1>3, <2>2, Zenon DEF Filling
  <2>4. FilledOrder(orders[id], fillSize) = filled
    BY <1>3 DEF FilledOrder
  <2> HIDE DEF filled
  <2> QED  BY <1>1, <1>2, <2>1, <2>2, <2>3, <2>4, LeavingKeeps
<1>4. CASE fillSize # orders[id].size
  <2>1. /\ partly \in Order /\ OrderOK(partly) /\ IsActive(partly) /\ Kept(orders[id], partly)
        /\ partly.marketId = orders[id].marketId /\ partly.side = orders[id].side
    BY <1>1, FilledIs
  <2>2. PICK b : b = Book
    OBVIOUS
  <2>3. Filling(id, fillSize) = [b EXCEPT !.orders = [b.orders EXCEPT ![id] = partly]]
    BY <1>4, <2>2, Zenon DEF Filling
  <2>0. FilledOrder(orders[id], fillSize) = partly
    BY <1>4 DEF FilledOrder
  <2> HIDE DEF partly
  <2>4. PICK c : c = [b EXCEPT !.orders = [b.orders EXCEPT ![id] = partly]]
    OBVIOUS
  <2>5. /\ c \in Books /\ c.pending = b.pending /\ c.index = b.index
        /\ c.orders = [b.orders EXCEPT ![id] = partly]
    BY <1>1, <1>2, <2>1, <2>2, <2>4 DEF Books
  <2>6. \A i \in OrderIds : c.orders[i] = IF i = id THEN partly ELSE b.orders[i]
    BY <1>2, <2>2, <2>5 DEF Books
  <2>7. \A m \in Markets, side \in Sides : ActiveIn(c, m, side) = ActiveIn(b, m, side)
    BY <1>1, <1>2, <2>1, <2>2, <2>6 DEF ActiveIn
  <2>8. BookExact(b) => BookExact(c)
    BY <2>5, <2>7 DEF BookExact, QueueExact
  <2>9. \A i \in OrderIds : Kept(b.orders[i], c.orders[i])
    BY <1>2, <2>1, <2>2, <2>6, KeptOn DEF Books
  <2>10. Onward(b, c)
    BY <1>2, <2>2, <2>8, <2>9 DEF Onward
  <2> QED  BY <1>2, <2>0, <2>2, <2>3, <2>4, <2>5, <2>6, <2>10
<1> QED  BY <1>3, <1>4

-----------------------------------------------------------------------------
(* What a step does to the orders there are.                                *)
PlacedKept == \A id \in OrderIds : orders[id].placed => Kept(orders[id], orders'[id])

LEMMA AllKeptIsPlacedKept == AllKept => PlacedKept
BY DEF AllKept, PlacedKept

(* The invariant is inductive, and no step revives, moves or resizes.       *)
LEMMA OrdersInvNext ==
    OrdersInv /\ [Next]_orderVars => OrdersInv' /\ (~ReExpires => PlacedKept)
<1> SUFFICES ASSUME OrdersInv, [Next]_orderVars
             PROVE  OrdersInv' /\ (~ReExpires => PlacedKept)
  OBVIOUS
<1>0. Book \in Books /\ Book.orders = orders
  BY BookTyped
<1>t. \A id \in OrderIds : orders[id] \in Order
  BY DEF OrdersInv, TypeOK
<1>c. ASSUME NEW b \in Books, Commit(b), ~ReExpires => Onward(Book, b)
      PROVE  OrdersInv' /\ (~ReExpires => PlacedKept)
  BY <1>c, CommitKeeps, AllKeptIsPlacedKept
<1>1. ASSUME NEW t \in Traders, NEW m \in Markets, NEW side \in Sides, NEW args \in OrderArgs,
             NEW size \in Sizes, NEW expiry \in Expiries, placeOrder(t, m, side, args, size, expiry)
      PROVE  OrdersInv' /\ (~ReExpires => PlacedKept)
  <2>1. size \in Nat /\ expiry \in Nat
    BY SizesAssumption
  <2>2. OrdersInv' /\ (~ReExpires => \A id \in OrderIds : orders[id].placed => orders'[id] = orders[id])
    BY <1>1, <2>1, PlacingKeeps
  <2> QED  BY <1>t, <2>2, KeptOn DEF PlacedKept
<1>2. ASSUME NEW id \in OrderIds, NEW fillSize \in FillSizes, fillOrder(id, fillSize)
      PROVE  OrdersInv' /\ (~ReExpires => PlacedKept)
  <2>1. fillSize \in Nat
    BY SizesAssumption
  <2>2. Filling(id, fillSize) \in Books /\ Onward(Book, Filling(id, fillSize))
    BY <1>2, <2>1, FillingKeeps DEF fillOrder
  <2> QED  BY <1>2, <1>c, <2>2 DEF fillOrder
<1>3. ASSUME NEW id \in OrderIds, cancelOrder(id)
      PROVE  OrdersInv' /\ (~ReExpires => PlacedKept)
  <2>1. Cancelling(Book, id) \in Books /\ Onward(Book, Cancelling(Book, id))
    BY <1>0, CancellingKeeps DEF Withdraws
  <2> QED  BY <1>3, <1>c, <2>1 DEF cancelOrder
<1>4. ASSUME NEW ids \in Batches, cancelOrderBatch(ids)
      PROVE  OrdersInv' /\ (~ReExpires => PlacedKept)
  <2>1. ids \in Seq(OrderIds)
    BY DEF Batches
  <2>2. InTurn(Cancelling, ids) \in Books /\ Onward(Book, InTurn(Cancelling, ids))
    BY <1>0, <2>1, CancelBatchKeeps DEF Withdraws
  <2> QED  BY <1>4, <1>c, <2>2 DEF cancelOrderBatch
<1>5. ASSUME NEW t \in Traders, NEW m \in Markets, cancelAllUserOrdersInMarket(t, m)
      PROVE  OrdersInv' /\ (~ReExpires => PlacedKept)
  <2>1. userOrders[t] \in Seq(OrderIds)
    BY DEF OrdersInv, TypeOK
  <2>2. CancelListed(userOrders[t], {m}) \in Books /\ Onward(Book, CancelListed(userOrders[t], {m}))
    BY <1>0, <2>1, CancelListedKeeps DEF Withdraws
  <2> QED  BY <1>5, <1>c, <2>2 DEF cancelAllUserOrdersInMarket
<1>6. ASSUME NEW t \in Traders, cancelAllUserOrders(t)
      PROVE  OrdersInv' /\ (~ReExpires => PlacedKept)
  <2>1. userOrders[t] \in Seq(OrderIds)
    BY DEF OrdersInv, TypeOK
  <2>2. CancelListed(userOrders[t], Markets) \in Books /\ Onward(Book, CancelListed(userOrders[t], Markets))
    BY <1>0, <2>1, CancelListedKeeps DEF Withdraws
  <2> QED  BY <1>6, <1>c, <2>2 DEF cancelAllUserOrders
<1>7. ASSUME NEW id \in OrderIds, expireOrder(id)
      PROVE  OrdersInv' /\ (~ReExpires => PlacedKept)
  <2>1. ~ReExpires => IsActive(orders[id])
    BY <1>7 DEF expireOrder, CallerExpires
  <2>2. Expiring(Book, id) \in Books /\ (~ReExpires => Onward(Book, Expiring(Book, id)))
    BY <1>0, <2>1, ExpiringKeeps DEF IsActive, Withdraws
  <2> QED  BY <1>7, <1>c, <2>2 DEF expireOrder
<1>8. ASSUME NEW ids \in Batches, expireOrderBatch(ids)
      PROVE  OrdersInv' /\ (~ReExpires => PlacedKept)
  <2>1. ids \in Seq(OrderIds)
    BY DEF Batches
  <2>2. /\ InTurn(Expiring, ids) \in Books
        /\ ~ReExpires => Onward(Book, InTurn(Expiring, ids))
    BY <1>0, <1>8, <2>1, ExpireBatchKeeps DEF expireOrderBatch, CallerExpires, Withdraws
  <2> QED  BY <1>8, <1>c, <2>2 DEF expireOrderBatch
<1>9. ASSUME NEW m \in Markets, cleanupExpiredOrders(m)
      PROVE  OrdersInv' /\ (~ReExpires => PlacedKept)
  <2>1. marketOrders[m] \in Seq(OrderIds)
    BY DEF OrdersInv, TypeOK
  <2>2. CleanedUp(m) \in Books /\ Onward(Book, CleanedUp(m))
    BY <1>0, <2>1, CleanedUpKeeps DEF Withdraws
  <2> QED  BY <1>9, <1>c, <2>2 DEF cleanupExpiredOrders
<1>10. CASE Tick \/ UNCHANGED orderVars
  <2>1. /\ now' \in Nat /\ orders' = orders /\ pendingOrders' = pendingOrders
        /\ orderIndexInPending' = orderIndexInPending /\ marketOrders' = marketOrders
        /\ userOrders' = userOrders /\ orderIdCounter' = orderIdCounter
    BY <1>10 DEF Tick, orderVars, bookVars, listVars, OrdersInv, TypeOK
  <2>2. Book' = Book
    BY <2>1 DEF Book
  <2>3. OrdersInv'
    BY <2>1, <2>2 DEF OrdersInv, TypeOK, BooksAgree, ListsExact, BookExact, QueueExact, ActiveIn, IsActive, canCancelOrder
  <2> QED  BY <1>t, <2>1, <2>3, KeptOn DEF PlacedKept
<1> QED
  BY <1>1, <1>2, <1>3, <1>4, <1>5, <1>6, <1>7, <1>8, <1>9, <1>10 DEF Next

-----------------------------------------------------------------------------
(* THEOREMS                                                                 *)

(* The invariant, whoever calls: exactness of the queues is part of it      *)
(* where the caller expires active orders only.                             *)
THEOREM BooksStayOrdered == Spec => []OrdersInv
<1>1. Init => OrdersInv
  BY OrdersInvInit
<1>2. OrdersInv /\ [Next]_orderVars => OrdersInv'
  BY OrdersInvNext
<1> QED  BY <1>1, <1>2, PTL DEF Spec

(* However fills, cancellations, expiries and batches of them were mixed, a *)
(* pending queue names the active orders of its market and side, once each. *)
THEOREM QueuesNameTheActive == ~ReExpires /\ Spec => []PendingExact
<1> SUFFICES ASSUME ~ReExpires PROVE Spec => []PendingExact
  OBVIOUS
<1>1. OrdersInv => PendingExact
  <2> SUFFICES ASSUME OrdersInv, NEW m \in Markets, NEW side \in Sides
               PROVE  /\ IsInjective(pendingOrders[m][side])
                      /\ ToSet(pendingOrders[m][side]) = ActiveOn(m, side)
    BY DEF PendingExact
  <2>1. QueueExact(Book, m, side)
    BY DEF OrdersInv, BooksAgree, BookExact
  <2>2. Book.orders = orders /\ Book.pending = pendingOrders
    BY DEF Book
  <2>3. ActiveOn(m, side) = ActiveIn(Book, m, side)
    BY <2>2 DEF ActiveOn, ActiveIn
  <2> QED  BY <2>1, <2>2, <2>3 DEF QueueExact
<1> QED  BY <1>1, BooksStayOrdered, PTL

(* The map of places is right for every active order, and no clean-up, and  *)
(* no cancellation of an active order with more left than was filled, ever  *)
(* reverts on the queue.                                                    *)
THEOREM RemovalsFindTheirOrder == ~ReExpires /\ Spec => []BookConsistent
<1> SUFFICES ASSUME ~ReExpires PROVE Spec => []BookConsistent
  OBVIOUS
<1>1. OrdersInv => BookConsistent
  <2> SUFFICES ASSUME OrdersInv PROVE BookConsistent
    OBVIOUS
  <2>1. /\ Book \in Books /\ Book.ok /\ Book.orders = orders /\ Book.pending = pendingOrders
        /\ Book.index = orderIndexInPending
    BY BookTyped
  <2>2. TypeOK /\ BooksAgree /\ BookExact(Book)
    BY DEF OrdersInv, BooksAgree
  <2>3. IndexExact
    <3> SUFFICES ASSUME NEW m \in Markets, NEW side \in Sides, NEW id \in ActiveOn(m, side)
                 PROVE  /\ orderIndexInPending[id] < Len(pendingOrders[m][side])
                        /\ pendingOrders[m][side][orderIndexInPending[id] + 1] = id
      BY DEF IndexExact
    <3>1. id \in ActiveIn(Book, m, side)
      BY <2>1 DEF ActiveOn, ActiveIn
    <3>2. QueueExact(Book, m, side)
      BY <2>2 DEF BookExact
    <3> QED  BY <2>1, <3>1, <3>2 DEF QueueExact
  <2>4. \A m \in Markets : CleanedUp(m).ok
    <3>1. \A m \in Markets : marketOrders[m] \in Seq(OrderIds)
      BY <2>2 DEF TypeOK
    <3> QED  BY <2>1, <2>2, <3>1, CleanedUpKeeps DEF BooksAgree
  <2>5. \A id \in OrderIds :
           IsActive(orders[id]) /\ orders[id].size >= orders[id].filledSize => Cancelling(Book, id).ok
    BY <2>1, <2>2, CancellingFinds
  <2> QED  BY <2>2, <2>3, <2>4, <2>5 DEF BookConsistent, RemovalNeverBlocked
<1> QED  BY <1>1, BooksStayOrdered, PTL

(* No call loses or adds size: what was ordered is what was filled and what *)
(* is left.                                                                 *)
THEOREM OrderedIsFilledAndLeft == ~ReExpires /\ Spec => OrderedSizeKept
<1> SUFFICES ASSUME ~ReExpires PROVE Spec => OrderedSizeKept
  OBVIOUS
<1>1. OrdersInv /\ [Next]_orderVars
        => [\A id \in OrderIds : orders[id].placed => Ordered(orders'[id]) = Ordered(orders[id])]_orderVars
  BY OrdersInvNext DEF PlacedKept, Kept
<1> QED  BY <1>1, BooksStayOrdered, PTL DEF Spec, OrderedSizeKept

(* No call changes an order that was filled, cancelled or expired.          *)
THEOREM FinalOrdersStay == ~ReExpires /\ Spec => FinalStays
<1> SUFFICES ASSUME ~ReExpires PROVE Spec => FinalStays
  OBVIOUS
<1>1. OrdersInv /\ [Next]_orderVars
        => [\A id \in OrderIds : orders[id].placed /\ ~IsActive(orders[id])
                => orders'[id] = orders[id]]_orderVars
  BY OrdersInvNext DEF PlacedKept, Kept
<1> QED  BY <1>1, BooksStayOrdered, PTL DEF Spec, FinalStays

-----------------------------------------------------------------------------
(* EVERY CALL IS A STEP OF AN ORDER'S LIFE.                                 *)

(* The queues, as the abstract order book sees them, before a call and      *)
(* after it.                                                                *)
LEMMA QueuesAre ==
    ASSUME ~ReExpires
    PROVE  /\ OrdersInv => \A m \in Markets, side \in Sides :
                              Waiting[<<m, side>>] = ActiveOn(m, side)
           /\ OrdersInv' => \A m \in Markets, side \in Sides :
                              Waiting'[<<m, side>>] = ActiveOn(m, side)'
<1>1. ASSUME OrdersInv, NEW m \in Markets, NEW side \in Sides
      PROVE  Waiting[<<m, side>>] = ActiveOn(m, side)
  <2>1. QueueExact(Book, m, side) /\ Book.orders = orders /\ Book.pending = pendingOrders
    BY <1>1 DEF OrdersInv, BooksAgree, BookExact, Book
  <2> QED  BY <2>1 DEF Waiting, QueueExact, ActiveIn, ActiveOn
<1>2. ASSUME OrdersInv', NEW m \in Markets, NEW side \in Sides
      PROVE  Waiting'[<<m, side>>] = ActiveOn(m, side)'
  <2>1. QueueExact(Book, m, side)' /\ Book'.orders = orders' /\ Book'.pending = pendingOrders'
    BY <1>2 DEF OrdersInv, BooksAgree, BookExact, Book
  <2> QED  BY <2>1 DEF Waiting, QueueExact, ActiveIn, ActiveOn, IsActive, canCancelOrder
<1> QED  BY <1>1, <1>2

(* What lives and queues are is known id by id and queue by queue.          *)
LEMMA LifeTypes ==
    /\ \A id \in OrderIds : Lives[id] = LifeOf(orders[id]) /\ Lives'[id] = LifeOf(orders'[id])
    /\ DOMAIN Lives = OrderIds /\ DOMAIN Waiting = Markets \X Sides
BY DEF Lives, Waiting, LifeOf, Ordered

LEMMA ActiveWaits ==
    ASSUME ~ReExpires, OrdersInv, NEW id \in OrderIds, IsActive(orders[id])
    PROVE  id \in UNION { Waiting[queue] : queue \in Markets \X Sides }
<1>1. orders[id].marketId \in Markets /\ orders[id].side \in Sides
  BY DEF OrdersInv, TypeOK, OrderOK, IsActive, Order
<1>2. id \in Waiting[<<orders[id].marketId, orders[id].side>>]
  BY <1>1, QueuesAre DEF ActiveOn
<1> QED  BY <1>1, <1>2

LEMMA WithdrawalIsOneStep ==
    ASSUME ~ReExpires, OrdersInv, OrdersInv', NEW b \in Books, Commit(b),
           NEW stage \in {"CANCELLED", "EXPIRED"}, Withdraws(Book, b, stage)
    PROVE  LET ids == { id \in OrderIds : b.orders[id] # orders[id] }
           IN  IF stage = "CANCELLED" THEN Life!Cancel(ids) ELSE Life!Expire(ids)
<1> DEFINE ids == { id \in OrderIds : b.orders[id] # orders[id] }
<1>1. /\ orders' = b.orders /\ now' = now /\ b.ok /\ Book.orders = orders
      /\ \A id \in OrderIds : orders[id] \in Order
  BY DEF Commit, Book, OrdersInv, TypeOK
<1>2. ASSUME NEW id \in OrderIds
      PROVE  /\ id \in ids =>
                   /\ IsActive(orders[id]) /\ orders'[id] = [orders[id] EXCEPT !.status = stage]
                   /\ stage = "CANCELLED" => orders[id].size >= orders[id].filledSize
                   /\ stage = "EXPIRED" => isOrderExpired(orders[id])
             /\ id \notin ids => orders'[id] = orders[id]
  BY <1>1 DEF Withdraws, Withdrawn
<1> HIDE DEF ids
<1>3. ids \subseteq OrderIds
  BY DEF ids
<1>4. ASSUME NEW id \in ids
      PROVE  /\ orders[id].placed /\ orders'[id].placed = orders[id].placed /\ orders[id].status \in {"PENDING", "PARTIALLY_FILLED"}
             /\ orders'[id].status = stage /\ orders'[id].size = orders[id].size
             /\ orders'[id].filledSize = orders[id].filledSize /\ orders'[id].expiry = orders[id].expiry
             /\ orders'[id].marketId = orders[id].marketId /\ orders'[id].side = orders[id].side
             /\ orders[id].size \in Nat /\ orders[id].filledSize \in Nat
  <2>1. PICK o, p : o = orders[id] /\ p = orders'[id]
    OBVIOUS
  <2>2. o \in Order /\ o.placed /\ o.status \in {"PENDING", "PARTIALLY_FILLED"}
        /\ p = [o EXCEPT !.status = stage]
    BY <1>1, <1>2, <1>3, <2>1 DEF IsActive, canCancelOrder
  <2>3. /\ p.placed = o.placed /\ p.status = stage /\ p.size = o.size /\ p.filledSize = o.filledSize
        /\ p.expiry = o.expiry /\ p.marketId = o.marketId /\ p.side = o.side
        /\ o.size \in Nat /\ o.filledSize \in Nat
    BY <2>2 DEF Order
  <2> QED  BY <2>1, <2>2, <2>3
<1>5. Lives' = [id \in OrderIds |-> IF id \in ids THEN [Lives[id] EXCEPT !.stage = stage] ELSE Lives[id]]
  <2>1. ASSUME NEW id \in OrderIds
        PROVE  LifeOf(orders[id])' = IF id \in ids THEN [LifeOf(orders[id]) EXCEPT !.stage = stage]
                                     ELSE LifeOf(orders[id])
    <3>1. CASE id \in ids
      BY <1>4, <3>1 DEF LifeOf, Ordered
    <3>2. CASE id \notin ids
      BY <1>2, <3>2 DEF LifeOf, Ordered
    <3> QED  BY <3>1, <3>2
  <2> QED  BY <2>1, LifeTypes DEF Lives
<1>6. ids \subseteq UNION { Waiting[queue] : queue \in Markets \X Sides }
  BY <1>2, <1>3, ActiveWaits
<1>7. Waiting' = [queue \in Markets \X Sides |-> Waiting[queue] \ ids]
  <2>1. ASSUME NEW m \in Markets, NEW side \in Sides
        PROVE  ActiveOn(m, side)' = ActiveOn(m, side) \ ids
    BY <1>2, <1>4 DEF ActiveOn, IsActive, canCancelOrder
  <2>2. \A m \in Markets, side \in Sides : Waiting'[<<m, side>>] = Waiting[<<m, side>>] \ ids
    BY <2>1, QueuesAre
  <2>3. Waiting' = [queue \in Markets \X Sides |-> Waiting'[queue]]
    BY DEF Waiting
  <2>4. \A queue \in Markets \X Sides : Waiting'[queue] = Waiting[queue] \ ids
    BY <2>2
  <2> QED  BY <2>3, <2>4
<1>8. Due' = Due
  <2>1. \A id \in OrderIds : orders'[id].placed = orders[id].placed /\ orders'[id].expiry = orders[id].expiry
    <3> SUFFICES ASSUME NEW id \in OrderIds
                 PROVE  orders'[id].placed = orders[id].placed /\ orders'[id].expiry = orders[id].expiry
      OBVIOUS
    <3>1. CASE id \in ids
      BY <1>4, <3>1
    <3>2. CASE id \notin ids
      BY <1>2, <3>2
    <3> QED  BY <3>1, <3>2
  <2> QED  BY <1>1, <2>1 DEF Due, isOrderExpired
<1>9. Life!WithdrawAll(ids, stage)
  BY <1>5, <1>6, <1>7, <1>8 DEF Life!WithdrawAll
<1>10. CASE stage = "CANCELLED"
  <2>1. ASSUME NEW id \in ids PROVE Lives[id].filled <= Lives[id].ordered - Lives[id].filled
    <3>1. id \in OrderIds /\ orders[id].size >= orders[id].filledSize
      BY <1>2, <1>3, <1>10
    <3>2. Lives[id].ordered = orders[id].size + orders[id].filledSize /\ Lives[id].filled = orders[id].filledSize
      <4>1. Lives[id] = LifeOf(orders[id])
        BY <3>1, LifeTypes
      <4>2. orders[id].status # "FILLED"
        BY <1>4
      <4> QED  BY <1>4, <4>1, <4>2 DEF LifeOf, Ordered
    <3> QED  BY <1>4, <3>1, <3>2
  <2> QED  BY <1>9, <1>10, <2>1 DEF Life!Cancel, ids
<1>11. CASE stage = "EXPIRED"
  <2>1. ids \subseteq Due
    BY <1>2, <1>3, <1>4, <1>11 DEF Due
  <2> QED  BY <1>9, <1>11, <2>1 DEF Life!Expire, ids
<1> QED  BY <1>10, <1>11

(* A fill is that of an order nothing was filled of.                        *)
LEMMA FillingIsOneStep ==
    ASSUME ~ReExpires, OrdersInv, OrdersInv', NEW id \in OrderIds, NEW fillSize \in Nat,
           fillOrder(id, fillSize)
    PROVE  Life!FillPart(id, fillSize) \/ Life!FillWhole(id, fillSize)
<1>1. PICK o, p : o = orders[id] /\ p = orders'[id]
  OBVIOUS
<1>2. /\ o \in Order /\ o.placed /\ o.status = "PENDING" /\ 0 < fillSize /\ fillSize <= o.size
      /\ o.filledSize = 0 /\ o.marketId \in Markets /\ o.side \in Sides /\ IsActive(o) /\ o.size \in Nat
  BY <1>1 DEF OrdersInv, TypeOK, OrderOK, fillOrder, canFillOrder, IsActive, canCancelOrder, Order
<1>3. /\ orders' = Filling(id, fillSize).orders /\ now' = now /\ Filling(id, fillSize).ok
  BY DEF fillOrder, Commit
<1>4. p = FilledOrder(o, fillSize) /\ \A i \in OrderIds \ {id} : orders'[i] = orders[i]
  BY <1>1, <1>3, FillingKeeps DEF fillOrder
<1>5. /\ p.placed = o.placed /\ p.marketId = o.marketId /\ p.side = o.side /\ p.expiry = o.expiry
      /\ p.filledSize = fillSize
      /\ fillSize = o.size => p.size = o.size /\ p.status = "FILLED"
      /\ fillSize # o.size => p.size = o.size - fillSize /\ p.status = "PARTIALLY_FILLED"
  <2>1. PICK left, filled : left = o.size - fillSize /\ filled = o.filledSize + fillSize
    OBVIOUS
  <2>2. filled = fillSize
    BY <1>2, <2>1
  <2>3. p = IF fillSize = o.size THEN [o EXCEPT !.filledSize = filled, !.status = "FILLED"]
            ELSE [o EXCEPT !.filledSize = filled, !.status = "PARTIALLY_FILLED", !.size = left]
    BY <1>4, <2>1, Zenon DEF FilledOrder, PartlyFilled
  <2> QED  BY <1>2, <2>1, <2>2, <2>3 DEF Order
<1>6. Due' = Due
  <2>1. \A i \in OrderIds : orders'[i].placed = orders[i].placed /\ orders'[i].expiry = orders[i].expiry
    BY <1>1, <1>4, <1>5
  <2> QED  BY <1>3, <2>1 DEF Due, isOrderExpired
<1>7. LifeOf(o) = [stage |-> "PENDING", ordered |-> o.size, filled |-> 0]
  BY <1>2 DEF LifeOf, Ordered
<1>8. LifeOf(p) = [stage |-> p.status, ordered |-> o.size, filled |-> fillSize]
  BY <1>2, <1>5 DEF LifeOf, Ordered
<1>9. Lives[id] = LifeOf(o) /\ Lives' = [Lives EXCEPT ![id] = LifeOf(p)]
  <2>1. Lives = [i \in OrderIds |-> LifeOf(orders[i])] /\ Lives' = [i \in OrderIds |-> LifeOf(orders'[i])]
    BY DEF Lives, LifeOf, Ordered
  <2> QED  BY <1>1, <1>4, <2>1, Zenon
<1>10. CASE fillSize = o.size
  <2>1. Waiting' = [queue \in Markets \X Sides |-> Waiting[queue] \ {id}]
    <3>1. ~IsActive(p)
      BY <1>5, <1>10 DEF IsActive, canCancelOrder
    <3>2. ASSUME NEW m \in Markets, NEW side \in Sides PROVE ActiveOn(m, side)' = ActiveOn(m, side) \ {id}
      BY <1>1, <1>4, <3>1 DEF ActiveOn, IsActive, canCancelOrder
    <3>3. \A m \in Markets, side \in Sides : Waiting'[<<m, side>>] = Waiting[<<m, side>>] \ {id}
      BY <3>2, QueuesAre
    <3>4. Waiting' = [queue \in Markets \X Sides |-> Waiting'[queue]]
      BY DEF Waiting
    <3>5. \A queue \in Markets \X Sides : Waiting'[queue] = Waiting[queue] \ {id}
      BY <3>3
    <3> QED  BY <3>4, <3>5
  <2>2. Lives[id].ordered = o.size /\ p.status = "FILLED"
    BY <1>5, <1>7, <1>9, <1>10
  <2>3. Lives' = [Lives EXCEPT ![id] =
                     [stage |-> "FILLED", ordered |-> Lives[id].ordered, filled |-> fillSize]]
    BY <1>8, <1>9, <2>2, Zenon
  <2>4. 0 < fillSize /\ fillSize = Lives[id].ordered /\ Lives[id].stage = "PENDING"
    BY <1>2, <1>7, <1>9, <1>10
  <2> QED  BY <1>6, <2>1, <2>3, <2>4, Zenon DEF Life!FillWhole
<1>11. CASE fillSize # o.size
  <2>1. Waiting' = Waiting
    <3>1. IsActive(p)
      BY <1>2, <1>5, <1>11 DEF IsActive, canCancelOrder
    <3>2. ASSUME NEW m \in Markets, NEW side \in Sides PROVE ActiveOn(m, side)' = ActiveOn(m, side)
      BY <1>1, <1>2, <1>4, <1>5, <3>1 DEF ActiveOn, IsActive, canCancelOrder
    <3>3. \A m \in Markets, side \in Sides : Waiting'[<<m, side>>] = Waiting[<<m, side>>]
      BY <3>2, QueuesAre
    <3>4. /\ Waiting' = [queue \in Markets \X Sides |-> Waiting'[queue]]
          /\ Waiting = [queue \in Markets \X Sides |-> Waiting[queue]]
      BY DEF Waiting
    <3>5. \A queue \in Markets \X Sides : Waiting'[queue] = Waiting[queue]
      BY <3>3
    <3> QED  BY <3>4, <3>5
  <2>2. Lives[id].ordered = o.size /\ p.status = "PARTIALLY_FILLED"
    BY <1>5, <1>7, <1>9, <1>11
  <2>3. Lives' = [Lives EXCEPT ![id] =
                     [stage |-> "PARTIALLY_FILLED", ordered |-> Lives[id].ordered, filled |-> fillSize]]
    BY <1>8, <1>9, <2>2, Zenon
  <2>4. 0 < fillSize /\ fillSize < Lives[id].ordered /\ Lives[id].stage = "PENDING"
    BY <1>2, <1>7, <1>9, <1>11
  <2> QED  BY <1>6, <2>1, <2>3, <2>4, Zenon DEF Life!FillPart
<1> QED  BY <1>10, <1>11

(* Placing puts a new order into one queue.                                 *)
LEMMA PlacingIsOneStep ==
    ASSUME ~ReExpires, OrdersInv, OrdersInv', NEW t \in Traders, NEW m \in Markets, NEW side \in Sides,
           NEW args, NEW size \in Nat, NEW expiry \in Nat,
           placeOrder(t, m, side, args, size, expiry)
    PROVE  \E id \in OrderIds : Life!Place(id, <<m, side>>, size)
<1> DEFINE id == orderIdCounter + 1
<1>1. PICK o : o = [placed |-> TRUE, trader |-> t, marketId |-> m, side |-> side, size |-> size,
                    filledSize |-> 0, expiry |-> expiry, status |-> "PENDING"]
  OBVIOUS
<1>2. /\ id \in OrderIds /\ now' = now /\ size > 0 /\ orders' = [orders EXCEPT ![id] = o]
  BY <1>1 DEF placeOrder
<1>3. ~orders[id].placed
  <2>1. id > orderIdCounter
    BY DEF OrdersInv, TypeOK
  <2> QED  BY <1>2, <2>1 DEF OrdersInv, BooksAgree
<1> HIDE DEF id
<1>4. \A i \in OrderIds : orders'[i] = IF i = id THEN o ELSE orders[i]
  BY <1>2 DEF OrdersInv, TypeOK
<1>5. o.placed /\ o.status = "PENDING" /\ o.size = size /\ o.filledSize = 0 /\ o.marketId = m /\ o.side = side
  BY <1>1
<1>6. Lives[id] = LifeOf(orders[id]) /\ Lives' = [Lives EXCEPT ![id] = LifeOf(o)]
  <2>1. Lives = [i \in OrderIds |-> LifeOf(orders[i])] /\ Lives' = [i \in OrderIds |-> LifeOf(orders'[i])]
    BY DEF Lives, LifeOf, Ordered
  <2> QED  BY <1>2, <1>4, <2>1
<1>7. LifeOf(o) = [stage |-> "PENDING", ordered |-> size, filled |-> 0]
  BY <1>5 DEF LifeOf, Ordered
<1>8. LifeOf(orders[id]) = Life!NoLife
  BY <1>3 DEF LifeOf, Life!NoLife
<1>9. Waiting' = [Waiting EXCEPT ![<<m, side>>] = @ \cup {id}]
  <2>1. IsActive(o) /\ ~IsActive(orders[id])
    BY <1>3, <1>5 DEF IsActive, canCancelOrder
  <2>2. ASSUME NEW n \in Markets, NEW s \in Sides
        PROVE  ActiveOn(n, s)' = IF n = m /\ s = side THEN ActiveOn(n, s) \cup {id} ELSE ActiveOn(n, s)
    BY <1>2, <1>4, <1>5, <2>1 DEF ActiveOn, IsActive, canCancelOrder
  <2>3. \A n \in Markets, s \in Sides :
           Waiting'[<<n, s>>] = IF n = m /\ s = side THEN Waiting[<<n, s>>] \cup {id} ELSE Waiting[<<n, s>>]
    BY <2>2, QueuesAre
  <2>4. \A queue \in Markets \X Sides :
           Waiting'[queue] = IF queue = <<m, side>> THEN Waiting[queue] \cup {id} ELSE Waiting[queue]
    BY <2>3
  <2>5. /\ Waiting' = [queue \in Markets \X Sides |-> Waiting'[queue]]
        /\ Waiting = [queue \in Markets \X Sides |-> Waiting[queue]]
    BY DEF Waiting
  <2> QED  BY <2>4, <2>5
<1>10. Due' \in {Due, Due \cup {id}}
  BY <1>2, <1>3, <1>4 DEF Due, isOrderExpired
<1> QED  BY <1>2, <1>6, <1>7, <1>8, <1>9, <1>10, Zenon DEF Life!Place

(* Time makes orders due and does nothing else.                             *)
LEMMA TimeIsOneStep ==
    ASSUME OrdersInv, Tick
    PROVE  Life!TimePasses
<1>1. now' = now + 1 /\ orders' = orders /\ pendingOrders' = pendingOrders /\ now \in Nat
      /\ \A id \in OrderIds : orders[id].expiry \in Nat
  BY DEF Tick, bookVars, listVars, OrdersInv, TypeOK, Order
<1>2. Lives' = Lives /\ Waiting' = Waiting
  BY <1>1 DEF Lives, LifeOf, Ordered, Waiting
<1>3. Due \subseteq Due' /\ Due' \subseteq OrderIds
  BY <1>1 DEF Due, isOrderExpired
<1> QED  BY <1>2, <1>3 DEF Life!TimePasses

LEMMA LifeInit == Init => Life!Init
<1> SUFFICES ASSUME Init PROVE Life!Init
  OBVIOUS
<1>1. orders = [id \in OrderIds |-> NoOrder] /\ ~NoOrder.placed
      /\ pendingOrders = [m \in Markets |-> [s \in Sides |-> << >>]]
  BY DEF Init, NoOrder
<1>2. Lives = [id \in OrderIds |-> Life!NoLife]
  BY <1>1 DEF Lives, LifeOf, Life!NoLife
<1>3. Waiting = [queue \in Markets \X Sides |-> {}]
  BY <1>1 DEF Waiting, ToSet
<1>4. Due = {}
  BY <1>1 DEF Due
<1> QED  BY <1>2, <1>3, <1>4 DEF Life!Init

LEMMA LifeNext ==
    ~ReExpires /\ OrdersInv /\ OrdersInv' /\ [Next]_orderVars => [Life!Next]_Life!lifeVars
<1> SUFFICES ASSUME ~ReExpires, OrdersInv, OrdersInv', [Next]_orderVars
             PROVE  [Life!Next]_Life!lifeVars
  OBVIOUS
<1>0. Book \in Books
  BY BookTyped
<1>w. ASSUME NEW b \in Books, Commit(b), NEW stage \in {"CANCELLED", "EXPIRED"}, Withdraws(Book, b, stage)
      PROVE  Life!Next
  <2> DEFINE ids == { id \in OrderIds : b.orders[id] # orders[id] }
  <2>1. Life!Cancel(ids) \/ Life!Expire(ids)
    BY <1>w, WithdrawalIsOneStep
  <2>2. ids \in SUBSET OrderIds
    OBVIOUS
  <2> HIDE DEF ids
  <2> QED  BY <2>1, <2>2 DEF Life!Next
<1>1. ASSUME NEW t \in Traders, NEW m \in Markets, NEW side \in Sides, NEW args \in OrderArgs,
             NEW size \in Sizes, NEW expiry \in Expiries, placeOrder(t, m, side, args, size, expiry)
      PROVE  Life!Next
  <2>1. size \in Nat /\ expiry \in Nat /\ <<m, side>> \in Markets \X Sides
    BY SizesAssumption
  <2>2. \E id \in OrderIds : Life!Place(id, <<m, side>>, size)
    BY <1>1, <2>1, PlacingIsOneStep
  <2> QED  BY <2>1, <2>2, Zenon DEF Life!Next
<1>2. ASSUME NEW id \in OrderIds, NEW fillSize \in FillSizes, fillOrder(id, fillSize)
      PROVE  Life!Next
  <2>1. fillSize \in Nat
    BY SizesAssumption
  <2>2. Life!FillPart(id, fillSize) \/ Life!FillWhole(id, fillSize)
    BY <1>2, <2>1, FillingIsOneStep
  <2> QED  BY <2>2, Zenon DEF Life!Next
<1>3. ASSUME NEW id \in OrderIds, cancelOrder(id)
      PROVE  Life!Next
  <2>1. Cancelling(Book, id) \in Books /\ Withdraws(Book, Cancelling(Book, id), "CANCELLED")
    BY <1>0, CancellingKeeps
  <2> QED  BY <1>3, <1>w, <2>1 DEF cancelOrder
<1>4. ASSUME NEW ids \in Batches, cancelOrderBatch(ids)
      PROVE  Life!Next
  <2>1. ids \in Seq(OrderIds)
    BY DEF Batches
  <2>2. InTurn(Cancelling, ids) \in Books /\ Withdraws(Book, InTurn(Cancelling, ids), "CANCELLED")
    BY <1>0, <2>1, CancelBatchKeeps
  <2> QED  BY <1>4, <1>w, <2>2 DEF cancelOrderBatch
<1>5. ASSUME NEW t \in Traders, NEW markets, Commit(CancelListed(userOrders[t], markets))
      PROVE  Life!Next
  <2>1. userOrders[t] \in Seq(OrderIds)
    BY DEF OrdersInv, TypeOK
  <2>2. /\ CancelListed(userOrders[t], markets) \in Books
        /\ Withdraws(Book, CancelListed(userOrders[t], markets), "CANCELLED")
    BY <1>0, <2>1, CancelListedKeeps
  <2> QED  BY <1>5, <1>w, <2>2
<1>6. ASSUME NEW id \in OrderIds, expireOrder(id)
      PROVE  Life!Next
  <2>1. IsActive(orders[id]) /\ Book.orders = orders
    BY <1>6 DEF expireOrder, CallerExpires, Book
  <2>2. Expiring(Book, id) \in Books /\ Withdraws(Book, Expiring(Book, id), "EXPIRED")
    BY <1>0, <2>1, ExpiringKeeps DEF IsActive
  <2> QED  BY <1>6, <1>w, <2>2 DEF expireOrder
<1>7. ASSUME NEW ids \in Batches, expireOrderBatch(ids)
      PROVE  Life!Next
  <2>1. ids \in Seq(OrderIds)
    BY DEF Batches
  <2>2. InTurn(Expiring, ids) \in Books /\ Withdraws(Book, InTurn(Expiring, ids), "EXPIRED")
    BY <1>0, <1>7, <2>1, ExpireBatchKeeps DEF expireOrderBatch, CallerExpires
  <2> QED  BY <1>7, <1>w, <2>2 DEF expireOrderBatch
<1>8. ASSUME NEW m \in Markets, cleanupExpiredOrders(m)
      PROVE  Life!Next
  <2>1. marketOrders[m] \in Seq(OrderIds)
    BY DEF OrdersInv, TypeOK
  <2>2. CleanedUp(m) \in Books /\ Withdraws(Book, CleanedUp(m), "EXPIRED")
    BY <1>0, <2>1, CleanedUpKeeps
  <2> QED  BY <1>8, <1>w, <2>2 DEF cleanupExpiredOrders
<1>9. CASE Tick
  BY <1>9, TimeIsOneStep DEF Life!Next
<1>10. CASE UNCHANGED orderVars
  <2>1. orders' = orders /\ pendingOrders' = pendingOrders /\ now' = now
    BY <1>10 DEF orderVars, bookVars
  <2>2. Lives' = Lives /\ Waiting' = Waiting /\ Due' = Due
    BY <2>1 DEF Lives, LifeOf, Ordered, Waiting, Due, isOrderExpired
  <2> QED  BY <2>2 DEF Life!lifeVars
<1> QED
  BY <1>1, <1>2, <1>3, <1>4, <1>5, <1>6, <1>7, <1>8, <1>9, <1>10
  DEF Next, cancelAllUserOrdersInMarket, cancelAllUserOrders

(* OrderStorage is an order book: every call, however many orders it goes   *)
(* through, is one step of an order's life or one withdrawal of a set of    *)
(* waiting orders, provided the caller expires active orders only.          *)
THEOREM RefinesOrderLife == ~ReExpires /\ Spec => ImplementsOrderLife
<1> SUFFICES ASSUME ~ReExpires PROVE Spec => ImplementsOrderLife
  OBVIOUS
<1>1. Init => Life!Init
  BY LifeInit
<1>2. OrdersInv /\ OrdersInv' /\ [Next]_orderVars => [Life!Next]_Life!lifeVars
  BY LifeNext
<1> QED  BY <1>1, <1>2, BooksStayOrdered, PTL DEF Spec, ImplementsOrderLife, Life!Spec

-----------------------------------------------------------------------------
(* A CALL OVER A WHOLE LIST ends the orders it is for and no others.  Of    *)
(* those, so far the ones seen have ended; a turn that goes through ends    *)
(* the order it looks at if the call is for it, and otherwise does nothing. *)
TurnEnds(b, c, id, which, stage) ==
    c.ok => /\ b.ok
            /\ \/ Ends(b, c, id, stage) /\ (b.orders[id] = orders[id] => id \in which)
               \/ c.orders = b.orders /\ (b.orders[id] = orders[id] => id \notin which)

Seen(list, k) == { list[j] : j \in 1..k }

LEMMA EndedOn ==
    ASSUME NEW stage \in {"CANCELLED", "EXPIRED"}, NEW b, NEW c, NEW id \in OrderIds, NEW which, NEW seen,
           \A i \in OrderIds : orders[i] \in Order, \A i \in which : IsActive(orders[i]),
           EndsOnly(b, which \cap seen, stage), TurnEnds(b, c, id, which, stage)
    PROVE  EndsOnly(c, which \cap (seen \cup {id}), stage)
<1> SUFFICES ASSUME c.ok, NEW i \in OrderIds
             PROVE  c.orders[i] = IF i \in which \cap (seen \cup {id}) THEN [orders[i] EXCEPT !.status = stage]
                                  ELSE orders[i]
  BY DEF EndsOnly
<1>1. /\ b.ok
      /\ \A j \in OrderIds :
            b.orders[j] = IF j \in which \cap seen THEN [orders[j] EXCEPT !.status = stage] ELSE orders[j]
  BY DEF EndsOnly, TurnEnds
<1>2. \A j \in OrderIds : [orders[j] EXCEPT !.status = stage].status = stage
  BY DEF Order
<1>3. id \in which \cap seen => ~IsActive(b.orders[id]) /\ b.orders[id] # orders[id]
  <2>1. ASSUME id \in which \cap seen PROVE ~IsActive(b.orders[id])
    <3>1. b.orders[id].status = stage
      BY <1>1, <1>2, <2>1
    <3> QED  BY <3>1 DEF IsActive, canCancelOrder
  <2> QED  BY <2>1
<1>4. CASE Ends(b, c, id, stage) /\ (b.orders[id] = orders[id] => id \in which)
  <2>1. id \notin which \cap seen /\ b.orders[id] = orders[id] /\ id \in which
    BY <1>1, <1>3, <1>4 DEF Ends
  <2>2. CASE i = id
    BY <1>4, <2>1, <2>2 DEF Ends
  <2>3. CASE i # id
    BY <1>1, <1>4, <2>3 DEF Ends
  <2> QED  BY <2>2, <2>3
<1>5. CASE c.orders = b.orders /\ (b.orders[id] = orders[id] => id \notin which)
  <2>1. id \in which => id \in seen
    BY <1>1, <1>5
  <2> QED  BY <1>1, <1>5, <2>1
<1> QED  BY <1>4, <1>5 DEF TurnEnds

LEMMA SeenOn ==
    ASSUME NEW list, NEW k \in Nat \ {0}
    PROVE  Seen(list, k) = Seen(list, k - 1) \cup {list[k]} /\ Seen(list, 0) = {}
<1>1. \A j \in 1..k : j = k \/ j \in 1..(k - 1)
  OBVIOUS
<1>2. k \in 1..k /\ \A j \in 1..(k - 1) : j \in 1..k
  OBVIOUS
<1> QED  BY <1>1, <1>2 DEF Seen

ActiveAt(markets) == { id \in OrderIds : IsActive(orders[id]) /\ orders[id].marketId \in markets }

DueNow == { id \in OrderIds : IsActive(orders[id]) /\ isOrderExpired(orders[id]) }

LEMMA ListedTurnEnds ==
    ASSUME NEW b \in Books, NEW id \in OrderIds, NEW markets
    PROVE  TurnEnds(b, ListedTurn(b, id, markets), id, ActiveAt(markets), "CANCELLED")
<1>1. CASE b.orders[id].marketId \in markets /\ canCancelOrder(b.orders[id])
  BY <1>1, CancellingKeeps DEF ListedTurn, TurnEnds, Ends, ActiveAt
<1>2. CASE ~(b.orders[id].marketId \in markets /\ canCancelOrder(b.orders[id]))
  BY <1>2 DEF ListedTurn, TurnEnds, ActiveAt, IsActive
<1> QED  BY <1>1, <1>2

LEMMA CleanUpTurnEnds ==
    ASSUME NEW b \in Books, NEW id \in OrderIds
    PROVE  TurnEnds(b, CleanUpTurn(b, id), id, DueNow, "EXPIRED")
<1>1. CASE isOrderExpired(b.orders[id]) /\ canCancelOrder(b.orders[id])
  BY <1>1, ExpiringKeeps DEF CleanUpTurn, TurnEnds, Ends, DueNow
<1>2. CASE ~(isOrderExpired(b.orders[id]) /\ canCancelOrder(b.orders[id]))
  BY <1>2 DEF CleanUpTurn, TurnEnds, DueNow, IsActive
<1> QED  BY <1>1, <1>2

LEMMA CancelListedEnds ==
    ASSUME OrdersInv, NEW list \in Seq(OrderIds), NEW markets
    PROVE  EndsOnly(CancelListed(list, markets), ActiveAt(markets) \cap ToSet(list), "CANCELLED")
<1> DEFINE which == ActiveAt(markets)
           Sofar(b, k) == EndsOnly(b, which \cap Seen(list, k), "CANCELLED")
           S == { p \in Nat \X Books : Sofar(p[2], p[1]) }
           n == Len(list)
<1>1. n \in Nat /\ ToSet(list) = Seen(list, n) /\ \A k \in 1..n : list[k] \in OrderIds
  BY DEF ToSet, Seen
<1>2. Book \in Books /\ Book.orders = orders /\ \A i \in OrderIds : orders[i] \in Order
  BY BookTyped DEF OrdersInv, TypeOK
<1>3. PICK f : /\ f[0] = Book /\ f[n] = CancelListed(list, markets)
               /\ \A k \in 1..n : f[k] = ListedTurn(f[k - 1], list[k], markets)
  BY <1>2, CancelListedUnfolds
<1>4. \A i \in which : IsActive(orders[i])
  BY DEF ActiveAt
<1> HIDE DEF n, which
<1> DEFINE h == [k \in 0..n |-> <<k, f[k]>>]
<1>5. h[0] \in S
  <2>1. h[0] = <<0, Book>>
    BY <1>1, <1>3
  <2>2. Sofar(Book, 0)
    BY <1>2 DEF EndsOnly, Seen
  <2> HIDE DEF h, Sofar
  <2> QED  BY <1>2, <2>1, <2>2
<1>6. ASSUME NEW k \in 1..n, h[k - 1] \in S PROVE h[k] \in S
  <2>1. PICK b, c : b = f[k - 1] /\ c = ListedTurn(b, list[k], markets)
    OBVIOUS
  <2>2. /\ k \in Nat \ {0} /\ k - 1 \in Nat /\ list[k] \in OrderIds
        /\ h[k - 1] = <<k - 1, b>> /\ h[k] = <<k, c>>
    BY <1>1, <1>3, <2>1
  <2> HIDE DEF h
  <2>3. b \in Books /\ Sofar(b, k - 1)
    <3> HIDE DEF Sofar
    <3> QED  BY <1>6, <2>2
  <2>4. c \in Books /\ TurnEnds(b, c, list[k], which, "CANCELLED")
    BY <2>1, <2>2, <2>3, ListedTurnKeeps, ListedTurnEnds DEF which
  <2>5. EndsOnly(c, which \cap (Seen(list, k - 1) \cup {list[k]}), "CANCELLED")
    BY <1>2, <1>4, <2>2, <2>3, <2>4, EndedOn
  <2>6. Sofar(c, k)
    BY <2>2, <2>5, SeenOn
  <2> HIDE DEF Sofar
  <2> QED  BY <2>2, <2>4, <2>6
<1>7. h[n] \in S
  <2> HIDE DEF S, h
  <2> QED  BY <1>1, <1>5, <1>6, LoopStays
<1>8. h[n] = <<n, CancelListed(list, markets)>>
  BY <1>1, <1>3
<1> HIDE DEF h
<1>9. Sofar(CancelListed(list, markets), n)
  <2> HIDE DEF Sofar
  <2> QED  BY <1>7, <1>8
<1> QED  BY <1>1, <1>9 DEF which

LEMMA CleanedUpEnds ==
    ASSUME OrdersInv, NEW m \in Markets
    PROVE  EndsOnly(CleanedUp(m), DueNow \cap ToSet(marketOrders[m]), "EXPIRED")
<1>0. PICK list : list = marketOrders[m]
  OBVIOUS
<1> DEFINE Sofar(b, k) == EndsOnly(b, DueNow \cap Seen(list, k), "EXPIRED")
           S == { p \in Nat \X Books : Sofar(p[2], p[1]) }
           n == Len(list)
<1>a. list \in Seq(OrderIds)
  BY <1>0 DEF OrdersInv, TypeOK
<1>1. n \in Nat /\ ToSet(list) = Seen(list, n) /\ \A k \in 1..n : list[k] \in OrderIds
  BY <1>a DEF ToSet, Seen
<1>2. Book \in Books /\ Book.orders = orders /\ \A i \in OrderIds : orders[i] \in Order
  BY BookTyped DEF OrdersInv, TypeOK
<1>3. PICK f : /\ f[0] = Book /\ f[n] = CleanedUp(m)
               /\ \A k \in 1..n : f[k] = CleanUpTurn(f[k - 1], list[k])
  BY <1>0, <1>2, <1>a, CleanedUpUnfolds
<1>4. \A i \in DueNow : IsActive(orders[i])
  BY DEF DueNow
<1> HIDE DEF n
<1> DEFINE h == [k \in 0..n |-> <<k, f[k]>>]
<1>5. h[0] \in S
  <2>1. h[0] = <<0, Book>>
    BY <1>1, <1>3
  <2>2. Sofar(Book, 0)
    BY <1>2 DEF EndsOnly, Seen
  <2> HIDE DEF h, Sofar
  <2> QED  BY <1>2, <2>1, <2>2
<1>6. ASSUME NEW k \in 1..n, h[k - 1] \in S PROVE h[k] \in S
  <2>1. PICK b, c : b = f[k - 1] /\ c = CleanUpTurn(b, list[k])
    OBVIOUS
  <2>2. /\ k \in Nat \ {0} /\ k - 1 \in Nat /\ list[k] \in OrderIds
        /\ h[k - 1] = <<k - 1, b>> /\ h[k] = <<k, c>>
    BY <1>1, <1>3, <2>1
  <2> HIDE DEF h
  <2>3. b \in Books /\ Sofar(b, k - 1)
    <3> HIDE DEF Sofar
    <3> QED  BY <1>6, <2>2
  <2>4. c \in Books /\ TurnEnds(b, c, list[k], DueNow, "EXPIRED")
    BY <2>1, <2>2, <2>3, CleanUpTurnKeeps, CleanUpTurnEnds
  <2>5. EndsOnly(c, DueNow \cap (Seen(list, k - 1) \cup {list[k]}), "EXPIRED")
    BY <1>2, <1>4, <2>2, <2>3, <2>4, EndedOn
  <2>6. Sofar(c, k)
    BY <2>2, <2>5, SeenOn
  <2> HIDE DEF Sofar
  <2> QED  BY <2>2, <2>4, <2>6
<1>7. h[n] \in S
  <2> HIDE DEF S, h
  <2> QED  BY <1>1, <1>5, <1>6, LoopStays
<1>8. h[n] = <<n, CleanedUp(m)>>
  BY <1>1, <1>3
<1> HIDE DEF h
<1>9. Sofar(CleanedUp(m), n)
  <2> HIDE DEF Sofar
  <2> QED  BY <1>7, <1>8
<1> QED  BY <1>0, <1>1, <1>9

(* The lists the calls go over name exactly the trader's, or the market's,  *)
(* orders, so what is ended is what was to end.                             *)
LEMMA MassCallsNow ==
    ASSUME ~ReExpires, OrdersInv
    PROVE  MassCallsExact
<1>1. ListsExact /\ (\A t \in Traders : userOrders[t] \in Seq(OrderIds))
  BY DEF OrdersInv, TypeOK, BooksAgree
<1>2. ASSUME NEW t \in Traders, NEW markets
      PROVE  EndsOnly(CancelListed(userOrders[t], markets), ActiveOf(t, markets), "CANCELLED")
  <2>1. ActiveAt(markets) \cap ToSet(userOrders[t]) = ActiveOf(t, markets)
    BY <1>1 DEF ListsExact, ActiveAt, ActiveOf, IsActive
  <2>2. EndsOnly(CancelListed(userOrders[t], markets), ActiveAt(markets) \cap ToSet(userOrders[t]), "CANCELLED")
    BY <1>1, CancelListedEnds
  <2> QED  BY <2>1, <2>2
<1>3. ASSUME NEW m \in Markets
      PROVE  EndsOnly(CleanedUp(m), DueIn(m), "EXPIRED")
  <2>1. DueNow \cap ToSet(marketOrders[m]) = DueIn(m)
    BY <1>1 DEF ListsExact, DueNow, DueIn, IsActive
  <2>2. EndsOnly(CleanedUp(m), DueNow \cap ToSet(marketOrders[m]), "EXPIRED")
    BY CleanedUpEnds
  <2> QED  BY <2>1, <2>2
<1> QED  BY <1>2, <1>3, Zenon DEF MassCallsExact

(* A clean-up and a trader's cancellations end every order they are for and *)
(* no other, however the lists grew and whatever each order went through,   *)
(* provided the caller expires active orders only.                          *)
THEOREM MassCallsAreExact == ~ReExpires /\ Spec => []MassCallsExact
<1> SUFFICES ASSUME ~ReExpires PROVE Spec => []MassCallsExact
  OBVIOUS
<1>1. OrdersInv => MassCallsExact
  BY MassCallsNow
<1> QED  BY <1>1, BooksStayOrdered, PTL

=============================================================================
