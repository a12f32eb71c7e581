------------------------------- MODULE MCLibraries -------------------------------
(* The array functions against what they are to return, on arrays of up to *)
(* five entries, four different ones, two of which share the lowest score,  *)
(* so that ties and repeats occur.                                          *)
EXTENDS Libraries

SU == INSTANCE SortUtils
AU == INSTANCE ArrayUtils

MCEntries ==
    { [positionId |-> 0, adlScore |-> 0], [positionId |-> 1, adlScore |-> 0],
      [positionId |-> 2, adlScore |-> 1], [positionId |-> 3, adlScore |-> 2] }

Stamps == [n \in DOMAIN input |-> input[n].positionId]

Ordered(arr, Leq(_, _)) == \A n \in 1..(Len(arr) - 1) : Leq(arr[n], arr[n + 1])

Rearranged(arr, other) ==
    /\ Len(arr) = Len(other)
    /\ \A x \in Range(arr) \cup Range(other) :
          Cardinality({ n \in DOMAIN arr : arr[n] = x })
          = Cardinality({ n \in DOMAIN other : other[n] = x })

Up(arr) == CHOOSE s \in { [n \in DOMAIN arr |-> arr[p[n]]] : p \in Permutations(DOMAIN arr) } :
               Ordered(s, LAMBDA x, y : x <= y)

-----------------------------------------------------------------------------
(* PROPERTIES                                                               *)

(* The four sorts of SortUtils agree with each other and with the only      *)
(* array that holds the same values in order, upwards and downwards; all    *)
(* refuse an empty array.                                                   *)
SortsAgree ==
    Untouched =>
        \A ascending \in BOOLEAN :
            LET right == IF Scores = << >> THEN Revert
                         ELSE IF ascending THEN Up(Scores) ELSE Reverse(Up(Scores))
            IN  /\ SU!quickSort(Scores, ascending) = right
                /\ SU!insertionSort(Scores, ascending) = right
                /\ SU!mergeSort(Scores, ascending) = right
                /\ SU!heapSort(Scores, ascending) = right

(* The order book's sort keeps price-time priority and loses no order: the  *)
(* best price first, at one price the earliest first.  Quicksort exchanges  *)
(* equal entries, so only a comparison that decides every tie can say this. *)
PriceTimePriority ==
    Untouched =>
        \A isBid \in BOOLEAN :
            LET orderIds == [n \in DOMAIN input |-> n]
                sorted == SU!sortByPriceTimePriority(orderIds, Scores, Stamps, isBid)
            IN  /\ Rearranged(sorted, orderIds)
                /\ Ordered(sorted, LAMBDA x, y :
                      \/ IF isBid THEN Scores[x] > Scores[y] ELSE Scores[x] < Scores[y]
                      \/ Scores[x] = Scores[y] /\ Stamps[x] <= Stamps[y])

(* Selection without sorting finds what sorting would: quickSelect the k-th *)
(* value, the two median functions (one selects, the other sorts) the same  *)
(* middle, topKs every one of the k extreme values, and beyond k nothing    *)
(* but ties with the last of them.                                          *)
SelectionExact ==
    Untouched /\ input # << >> =>
        LET up == Up(Scores)
        IN  /\ \A k \in 0..(Len(up) - 1) : SU!quickSelect(Scores, k) = up[k + 1]
            /\ SU!median(Scores) = ST!median(Scores)
            /\ \A k \in 1..Len(up), descending \in BOOLEAN :
                  LET best == IF descending THEN Reverse(up) ELSE up
                      top == SU!topKs(Scores, k, descending)
                      ties == SelectSeq(SubSeq(best, k + 1, Len(best)), LAMBDA x : x = best[k])
                  IN  Rearranged(top, SubSeq(best, 1, k) \o ties)

(* However an array is cut in two, the parts' union, intersection and       *)
(* difference hold the elements the sets of that name do, each once where   *)
(* the function says so; the room reserved for an intersection suffices.    *)
SetOperationsExact ==
    Untouched =>
        \A cut \in 0..Len(Stamps) :
            LET a == SubSeq(Stamps, 1, cut)
                b == SubSeq(Stamps, cut + 1, Len(Stamps))
            IN  /\ AU!intersections(a, b) # Revert
                /\ Range(AU!intersections(a, b)) = Range(a) \cap Range(b)
                /\ Range(AU!union(a, b)) = Range(Stamps)
                /\ Range(AU!differences(a, b)) = Range(a) \ Range(b)
                /\ IsInjective(AU!intersections(a, b)) /\ IsInjective(AU!union(a, b))

(* What is cut apart can be put together again: the chunks are the array,   *)
(* and so are its first n and its other elements, and an array an element   *)
(* is inserted into and removed from.                                       *)
PiecesRejoin ==
    Untouched =>
        /\ \A size \in 1..(MaxLen + 1) : FlattenSeq(AU!chunk(Stamps, size)) = Stamps
        /\ \A n \in 0..(MaxLen + 1) :
              AU!take(Stamps, n)
              \o AU!takeLast(Stamps, IF n > Len(Stamps) THEN 0 ELSE Len(Stamps) - n) = Stamps
        /\ \A n \in 0..Len(Stamps) : AU!removeAt(AU!insert(Stamps, n, MaxLen), n) = Stamps
        /\ \A n \in 0..Len(Stamps) : AU!removeElement(AU!insert(Stamps, n, MaxLen), MaxLen) = Stamps

(* What the array libraries return, for every array of the run.             *)
ArraysExact ==
    SortsAgree /\ PriceTimePriority /\ SelectionExact /\ SetOperationsExact /\ PiecesRejoin

=============================================================================
