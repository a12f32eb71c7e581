-------------------------------- MODULE OrderLife --------------------------------
(***************************************************************************)
(* What order storage promises, without its lists, its map of places or its *)
(* loops.  An order waits in one queue from its placement until it is       *)
(* filled whole or withdrawn; it is filled at most once.  A call withdraws  *)
(* any number of waiting orders at once, all of them for the same reason:   *)
(* by a cancellation, if no more of them was filled than is left, or        *)
(* because their time is up.                                                *)
(***************************************************************************)
EXTENDS Integers

CONSTANTS
    Ids, Queues,
    Sizes, FillSizes    \* what can be ordered and filled at once

VARIABLES
    lives,              \* [Ids -> a stage, what was ordered, what was filled]
    waiting,            \* [Queues -> the ids waiting there]
    due                 \* the orders whose time is up

lifeVars == <<lives, waiting, due>>

NoLife == [stage |-> "NONE", ordered |-> 0, filled |-> 0]

Init ==
    /\ lives = [id \in Ids |-> NoLife]
    /\ waiting = [queue \in Queues |-> {}]
    /\ due = {}

(* An order may be placed with its time already up.                         *)
Place(id, queue, size) ==
    /\ lives[id] = NoLife
    /\ size > 0
    /\ lives' = [lives EXCEPT ![id] = [stage |-> "PENDING", ordered |-> size, filled |-> 0]]
    /\ waiting' = [waiting EXCEPT ![queue] = @ \cup {id}]
    /\ due' \in {due, due \cup {id}}

FillPart(id, amount) ==
    /\ lives[id].stage = "PENDING"
    /\ 0 < amount /\ amount < lives[id].ordered
    /\ lives' = [lives EXCEPT ![id] =
          [stage |-> "PARTIALLY_FILLED", ordered |-> lives[id].ordered, filled |-> amount]]
    /\ UNCHANGED <<waiting, due>>

FillWhole(id, amount) ==
    /\ lives[id].stage = "PENDING"
    /\ 0 < amount /\ amount = lives[id].ordered
    /\ lives' = [lives EXCEPT ![id] =
          [stage |-> "FILLED", ordered |-> lives[id].ordered, filled |-> amount]]
    /\ waiting' = [queue \in Queues |-> waiting[queue] \ {id}]
    /\ UNCHANGED due

WithdrawAll(ids, stage) ==
    /\ ids \subseteq UNION { waiting[queue] : queue \in Queues }
    /\ lives' = [id \in Ids |-> IF id \in ids THEN [lives[id] EXCEPT !.stage = stage]
                                ELSE lives[id]]
    /\ waiting' = [queue \in Queues |-> waiting[queue] \ ids]
    /\ UNCHANGED due

Cancel(ids) ==
    /\ \A id \in ids : lives[id].filled <= lives[id].ordered - lives[id].filled
    /\ WithdrawAll(ids, "CANCELLED")

Expire(ids) == ids \subseteq due /\ WithdrawAll(ids, "EXPIRED")

TimePasses ==
    /\ due \subseteq due' /\ due' \subseteq Ids
    /\ UNCHANGED <<lives, waiting>>

Next ==
    \/ TimePasses
    \/ \E id \in Ids, queue \in Queues, size \in Sizes : Place(id, queue, size)
    \/ \E id \in Ids, amount \in FillSizes : FillPart(id, amount) \/ FillWhole(id, amount)
    \/ \E ids \in SUBSET Ids : Cancel(ids) \/ Expire(ids)

Spec == Init /\ [][Next]_lifeVars

=============================================================================
