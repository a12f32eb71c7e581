-------------------------------- MODULE SortQueue --------------------------------
(***************************************************************************)
(* AutoDeleverageEngine._sortQueue: the exchange sort that every write to a *)
(* candidate queue ends with, one comparison a step.  It runs inside one    *)
(* transaction, so nothing interleaves with it; what is at stake is that    *)
(* the loop bounds leave the whole array in order and lose no entry.        *)
(***************************************************************************)
EXTENDS AdlOrder

CONSTANTS
    Entries,            \* candidates: records with an adlScore
    MaxLen              \* bound: length of the array

ASSUME EntriesAssumption == \A e \in Entries : e.adlScore \in Nat
ASSUME LengthAssumption == MaxLen \in Nat

VARIABLES
    input,              \* the array the call found
    queue, i, j         \* the array and the two loop counters, from 1

sortVars == <<input, queue, i, j>>

Inputs == UNION { [1..n -> Entries] : n \in 0..MaxLen }

TypeOK ==
    /\ input \in Seq(Entries) /\ queue \in Seq(Entries)
    /\ Len(queue) = Len(input)
    /\ i \in 1..(Len(queue) + 1)
    /\ j \in (i + 1)..(Len(queue) + 2)

Init ==
    /\ input \in Inputs
    /\ queue = input
    /\ i = 1
    /\ j = 2

Swapped(q, a, b) == [q EXCEPT ![a] = q[b], ![b] = q[a]]

(* Slip: entries are exchanged when they are already in order.              *)
MutAscending(q, a, b) ==
    IF q[b].adlScore < q[a].adlScore THEN Swapped(q, a, b) ELSE q

Exchanged(q, a, b) ==
    IF q[b].adlScore > q[a].adlScore THEN Swapped(q, a, b) ELSE q

(* One turn of the inner loop.                                              *)
Compare ==
    /\ i <= Len(queue) /\ j <= Len(queue)
    /\ queue' = Exchanged(queue, i, j)
    /\ j' = j + 1
    /\ UNCHANGED <<input, i>>

(* Slip: the inner counter restarts, the outer one does not advance.        *)
MutStaysOnRow ==
    /\ i <= Len(queue) /\ j > Len(queue)
    /\ i' = i
    /\ j' = i + 1
    /\ UNCHANGED <<input, queue>>

(* The inner loop ends; the outer one goes on.                              *)
NextRow ==
    /\ i <= Len(queue) /\ j > Len(queue)
    /\ i' = i + 1
    /\ j' = i + 2
    /\ UNCHANGED <<input, queue>>

Next == Compare \/ NextRow

Spec == Init /\ [][Next]_sortVars /\ WF_sortVars(Next)

-----------------------------------------------------------------------------
Done == i > Len(queue)

(* When the loops end the array is one of the arrangements the queues'      *)
(* model lets a write leave: every entry of the input, best score first.    *)
LeavesSortedArrangement == Done => queue \in SortedArrangements(input)

(* The loops end.  A transaction runs until it returns, so a step that can  *)
(* be taken is taken.                                                       *)
SortEnds == <>Done

=============================================================================
