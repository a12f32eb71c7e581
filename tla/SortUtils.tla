------------------------------- MODULE SortUtils -------------------------------
(***************************************************************************)
(* libraries/arrays/SortUtils.sol, pure functions on arrays of numbers.     *)
(* Arrays are sequences, so positions count from 1 where the code's count   *)
(* from 0; arguments keep the code's meaning.  Revert is what a call that   *)
(* reverts returns.                                                         *)
(***************************************************************************)
EXTENDS Integers, Sequences, SequencesExt

CONSTANT Revert

Exchange(arr, a, b) == [arr EXCEPT ![a] = arr[b], ![b] = arr[a]]

Positions(first, last) == [n \in 1..(last - first + 1) |-> first + n - 1]

(* The values a sort moves before another, or leaves beside it.             *)
InOrder(arr, ascending) ==
    { p \in Range(arr) \X Range(arr) : IF ascending THEN p[1] <= p[2] ELSE p[1] >= p[2] }

-----------------------------------------------------------------------------
(* Quicksort.  The four copies of it in the code differ in the comparison   *)
(* only: goes holds the pairs <<x, pivot>> that send x to the left part.    *)

Partition(arr, left, right, goes) ==
    LET Turn(part, place) ==
            IF <<part.arr[place], arr[right]>> \in goes
            THEN [arr |-> Exchange(part.arr, part.last + 1, place), last |-> part.last + 1]
            ELSE part
        end == FoldLeft(Turn, [arr |-> arr, last |-> left - 1], Positions(left, right - 1))
    IN  [arr |-> Exchange(end.arr, end.last + 1, right), pivot |-> end.last + 1]

RECURSIVE QuickSorted(_, _, _, _)
QuickSorted(arr, left, right, goes) ==
    IF left >= right THEN arr
    ELSE LET part == Partition(arr, left, right, goes)
             leftDone == QuickSorted(part.arr, left, part.pivot - 1, goes)
         IN  QuickSorted(leftDone, part.pivot + 1, right, goes)

quickSort(arr, ascending) ==
    IF arr = << >> THEN Revert
    ELSE QuickSorted(arr, 1, Len(arr), InOrder(arr, ascending))

(* An array of values ordered by a relation on its places.                  *)
SortedByIndex(arr, goes) ==
    LET indices == QuickSorted(Positions(1, Len(arr)), 1, Len(arr), goes)
    IN  [n \in DOMAIN arr |-> arr[indices[n]]]

(* _comparePriceTime                                                        *)
HasPriority(a, b, prices, timestamps, isBid) ==
    IF prices[a] # prices[b]
    THEN IF isBid THEN prices[a] > prices[b] ELSE prices[a] < prices[b]
    ELSE timestamps[a] < timestamps[b]

sortByPriceTimePriority(orderIds, prices, timestamps, isBid) ==
    IF Len(orderIds) # Len(prices) \/ Len(orderIds) # Len(timestamps) THEN Revert
    ELSE SortedByIndex(orderIds, { p \in (DOMAIN prices) \X (DOMAIN prices) :
                                     HasPriority(p[1], p[2], prices, timestamps, isBid) })

-----------------------------------------------------------------------------
(* The other sorts.                                                         *)

(* A key goes behind the last value it may follow.                          *)
Inserted(sorted, key, ascending) ==
    LET stop == Max({0} \cup { place \in DOMAIN sorted :
                        IF ascending THEN sorted[place] <= key ELSE sorted[place] >= key })
    IN  SubSeq(sorted, 1, stop) \o <<key>> \o SubSeq(sorted, stop + 1, Len(sorted))

insertionSort(arr, ascending) ==
    IF arr = << >> THEN Revert
    ELSE FoldLeft(LAMBDA sorted, key : Inserted(sorted, key, ascending), << >>, arr)

RECURSIVE Merged(_, _, _)
Merged(left, right, ascending) ==
    IF left = << >> THEN right
    ELSE IF right = << >> THEN left
    ELSE IF (IF ascending THEN left[1] <= right[1] ELSE left[1] >= right[1])
         THEN <<left[1]>> \o Merged(Tail(left), right, ascending)
         ELSE <<right[1]>> \o Merged(left, Tail(right), ascending)

RECURSIVE MergeSorted(_, _)
MergeSorted(arr, ascending) ==
    IF Len(arr) <= 1 THEN arr
    ELSE LET mid == (Len(arr) + 1) \div 2
         IN  Merged(MergeSorted(SubSeq(arr, 1, mid), ascending),
                    MergeSorted(SubSeq(arr, mid + 1, Len(arr)), ascending), ascending)

mergeSort(arr, ascending) == IF arr = << >> THEN Revert ELSE MergeSorted(arr, ascending)

(* _heapify: root sinks below its more extreme child; n is the heap's size. *)
RECURSIVE Heapified(_, _, _, _)
Heapified(arr, n, root, ascending) ==
    LET Extremer(a, b) ==
            IF a <= n /\ (IF ascending THEN arr[a] > arr[b] ELSE arr[a] < arr[b]) THEN a ELSE b
        extreme == Extremer(2 * root + 1, Extremer(2 * root, root))
    IN  IF extreme = root THEN arr
        ELSE Heapified(Exchange(arr, root, extreme), n, extreme, ascending)

(* Slip: the heap keeps the element that was just moved to its end.         *)
MutKeepsExtracted(arr, ascending) ==
    LET heap == FoldLeft(LAMBDA a, root : Heapified(a, Len(arr), root, ascending),
                         arr, Reverse(Positions(1, Len(arr) \div 2)))
    IN  FoldLeft(LAMBDA a, last : Heapified(Exchange(a, 1, last), last, 1, ascending),
                 heap, Reverse(Positions(2, Len(arr))))

HeapSorted(arr, ascending) ==
    LET heap == FoldLeft(LAMBDA a, root : Heapified(a, Len(arr), root, ascending),
                         arr, Reverse(Positions(1, Len(arr) \div 2)))
    IN  FoldLeft(LAMBDA a, last : Heapified(Exchange(a, 1, last), last - 1, 1, ascending),
                 heap, Reverse(Positions(2, Len(arr))))

heapSort(arr, ascending) == IF arr = << >> THEN Revert ELSE HeapSorted(arr, ascending)

-----------------------------------------------------------------------------
(* Selection.                                                               *)

RECURSIVE Selected(_, _, _, _)
Selected(arr, left, right, place) ==
    IF left = right THEN arr[left]
    ELSE LET part == Partition(arr, left, right, InOrder(arr, TRUE))
         IN  IF place = part.pivot THEN part.arr[place]
             ELSE IF place < part.pivot THEN Selected(part.arr, left, part.pivot - 1, place)
             ELSE Selected(part.arr, part.pivot + 1, right, place)

(* k counts from 0.                                                         *)
quickSelect(arr, k) ==
    IF k >= Len(arr) THEN Revert ELSE Selected(arr, 1, Len(arr), k + 1)

(* Everything at least (at most) as large as the k-th: with ties, more than *)
(* k elements.                                                              *)
TopOf(arr, k, descending) ==
    LET size == IF k > Len(arr) THEN Len(arr) ELSE k
        threshold == quickSelect(arr, IF descending THEN Len(arr) - size ELSE size - 1)
    IN  SelectSeq(arr, LAMBDA x : IF descending THEN x >= threshold ELSE x <= threshold)

topKs(arr, k, descending) ==
    IF arr = << >> THEN Revert ELSE IF k = 0 THEN << >> ELSE TopOf(arr, k, descending)

median(arr) ==
    IF arr = << >> THEN Revert
    ELSE IF Len(arr) % 2 = 1 THEN quickSelect(arr, Len(arr) \div 2)
    ELSE (quickSelect(arr, Len(arr) \div 2 - 1) + quickSelect(arr, Len(arr) \div 2)) \div 2

=============================================================================
