-------------------------------- MODULE AdlOrder --------------------------------
(***************************************************************************)
(* The order of AutoDeleverageEngine's candidate queues.  What _sortQueue   *)
(* may leave is stated here once; the queues use it in one step (AdlQueue), *)
(* and the loop that produces it has its own module (SortQueue).            *)
(***************************************************************************)
EXTENDS Integers, Sequences, Functions

DescendingByScore(q) ==
    \A i, j \in DOMAIN q : i < j => q[i].adlScore >= q[j].adlScore

(* Slip: the push is not followed by the sort.                              *)
MutUnsorted(q) == {q}

(* What _sortQueue can leave: the same entries, best score first.  Its      *)
(* exchange sort fixes the order of equal scores by their old places; that  *)
(* order is left open here.                                                 *)
SortedArrangements(q) ==
    { s \in { [i \in DOMAIN q |-> q[p[i]]] : p \in Bijection(DOMAIN q, DOMAIN q) } :
        DescendingByScore(s) }

=============================================================================
