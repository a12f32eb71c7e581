------------------------------- MODULE AdlQueue -------------------------------
(***************************************************************************)
(* The candidate queues of AutoDeleverageEngine: for each market and side   *)
(* an array of profitable positions in descending order of score, and       *)
(* queueIndices, the map meant to locate a position's entry.  The map is    *)
(* written when an entry is pushed and when one is removed; sorting and     *)
(* shifting the array leave it alone, and a push records one more than the  *)
(* new length.  Both facts are kept exactly: nearly everything that is hard *)
(* about this engine follows from them.                                     *)
(***************************************************************************)
EXTENDS ProtocolGates, AdlOrder

CONSTANTS
    PositionIds,        \* identifiers the position counter can hand out
    MaxQueue            \* bound: candidates one queue can hold

VARIABLES
    adlQueues,          \* [market -> [side -> sequence of candidates]]
    queueIndices        \* [position -> 1-based index, 0 when absent]

adlVars == <<adlQueues, queueIndices>>

Sides == {"LONG", "SHORT"}

(* An ADLCandidate, without the fields no decision reads.                   *)
Candidates == [positionId : PositionIds, adlScore : Nat]

QueueTypeOK ==
    /\ adlQueues \in [Markets -> [Sides -> Seq(Candidates)]]
    /\ queueIndices \in [PositionIds -> Nat]

QueueInit ==
    /\ adlQueues = [m \in Markets |-> [s \in Sides |-> << >>]]
    /\ queueIndices = [id \in PositionIds |-> 0]

-----------------------------------------------------------------------------
(* adlScore = (unrealizedPnL * leverage) / 100.                             *)
AdlScore(pnl, leverage) == (pnl * leverage) \div 100

(* Writing a candidate: over the entry the index points at if it points     *)
(* into the array, at the end of the array otherwise.                       *)
HasSlot(idx, q) == 0 < idx /\ idx <= Len(q)
Placed(q, idx, c) == IF HasSlot(idx, q) THEN [q EXCEPT ![idx] = c] ELSE Append(q, c)

(* queueIndices[id] = queue.length + 1, read after the push.                *)
IndexAfterPlacing(q, idx) == IF HasSlot(idx, q) THEN idx ELSE Len(q) + 2

(* The shift starts at index - 1 and the last entry is popped: an index at  *)
(* or past the end costs the last entry.                                    *)
RemovedSlot(q, idx) == IF idx < Len(q) THEN idx ELSE Len(q)
WithoutSlot(q, k) == [i \in 1..(Len(q) - 1) |-> IF i < k THEN q[i] ELSE q[i + 1]]

(* Slip: the array is cut at the removed entry instead of shifted over it.  *)
MutTruncated(q, idx) == SubSeq(q, 1, RemovedSlot(q, idx) - 1)

WithoutEntry(q, idx) == WithoutSlot(q, RemovedSlot(q, idx))

-----------------------------------------------------------------------------
(* Both entry points of the queue stand behind the engine's own gates.      *)
AdlGatesOpen(m) == whenNotEmergencyPaused("ADL_ENGINE") /\ whenCircuitActivated(m)

(* Slip: the index of the removed position is not deleted.                  *)
MutKeepsIndex(m, id, side) ==
    \/ queueIndices[id] = 0 /\ UNCHANGED adlVars
    \/ /\ queueIndices[id] > 0
       /\ adlQueues[m][side] # << >>
       /\ adlQueues' = [adlQueues EXCEPT ![m][side] = WithoutEntry(@, queueIndices[id])]
       /\ UNCHANGED queueIndices

(* _removePositionFromQueue: nothing for an index of 0; the underflow of    *)
(* queue.length - 1 reverts the call when the array is empty.               *)
RemovePositionFromQueue(m, id, side) ==
    \/ /\ queueIndices[id] = 0
       /\ UNCHANGED adlVars
    \/ /\ queueIndices[id] > 0
       /\ adlQueues[m][side] # << >>
       /\ adlQueues' = [adlQueues EXCEPT ![m][side] = WithoutEntry(@, queueIndices[id])]
       /\ queueIndices' = [queueIndices EXCEPT ![id] = 0]

RemoveFromADLQueue(m, id, side) == AdlGatesOpen(m) /\ RemovePositionFromQueue(m, id, side)

EnqueueCandidate(m, id, side, pnl, leverage) ==
    LET q      == adlQueues[m][side]
        placed == Placed(q, queueIndices[id],
                         [positionId |-> id, adlScore |-> AdlScore(pnl, leverage)])
    IN  /\ Len(placed) <= MaxQueue
        /\ \E s \in SortedArrangements(placed) :
              adlQueues' = [adlQueues EXCEPT ![m][side] = s]
        /\ queueIndices' = [queueIndices EXCEPT ![id] = IndexAfterPlacing(q, @)]

(* Slip: the candidate is queued on the side it is to be closed against.    *)
MutQueuesOnOtherSide(m, id, side, pnl, leverage) ==
    /\ AdlGatesOpen(m)
    /\ \/ pnl = 0 /\ RemovePositionFromQueue(m, id, side)
       \/ pnl > 0 /\ \E other \in Sides \ {side} : EnqueueCandidate(m, id, other, pnl, leverage)

UpdateADLQueue(m, id, side, pnl, leverage) ==
    /\ AdlGatesOpen(m)
    /\ \/ pnl = 0 /\ RemovePositionFromQueue(m, id, side)
       \/ pnl > 0 /\ EnqueueCandidate(m, id, side, pnl, leverage)

=============================================================================
