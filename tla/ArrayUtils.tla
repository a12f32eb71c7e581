------------------------------- MODULE ArrayUtils -------------------------------
(***************************************************************************)
(* libraries/arrays/ArrayUtils.sol: arrays cut, joined and treated as sets. *)
(* Index arguments count from 0 as the code's do; Revert is what a call     *)
(* that reverts returns.                                                    *)
(***************************************************************************)
EXTENDS Integers, Sequences, SequencesExt

CONSTANT Revert

slice(array, start, end) ==
    IF start > end \/ end > Len(array) THEN Revert ELSE SubSeq(array, start + 1, end)

take(array, n) == slice(array, 0, IF n > Len(array) THEN Len(array) ELSE n)

takeLast(array, n) ==
    slice(array, Len(array) - (IF n > Len(array) THEN Len(array) ELSE n), Len(array))

(* The last chunk holds what is left.                                       *)
chunk(array, chunkSize) ==
    IF chunkSize = 0 THEN Revert
    ELSE [ n \in 1..((Len(array) + chunkSize - 1) \div chunkSize) |->
             LET start == (n - 1) * chunkSize
             IN  slice(array, start, IF start + chunkSize > Len(array) THEN Len(array)
                                     ELSE start + chunkSize) ]

insert(array, index, element) ==
    IF index > Len(array) THEN Revert ELSE InsertAt(array, index + 1, element)

removeAt(array, index) ==
    IF index >= Len(array) THEN Revert ELSE RemoveAt(array, index + 1)

(* -1 when the element does not occur                                       *)
indexOf(array, element) ==
    LET found == { n \in DOMAIN array : array[n] = element }
    IN  IF found = {} THEN -1 ELSE Min(found) - 1

contains(array, element) == indexOf(array, element) # -1

removeElement(array, element) ==
    IF contains(array, element) THEN removeAt(array, indexOf(array, element)) ELSE Revert

-----------------------------------------------------------------------------
(* Elements in the order in which they first occur.                         *)
unique(array) ==
    FoldLeft(LAMBDA found, x : IF x \in Range(found) THEN found ELSE Append(found, x),
             << >>, array)

(* temp is as long as the shorter array, and one element more reverts.      *)
intersections(a, b) ==
    LET common == unique(SelectSeq(a, LAMBDA x : contains(b, x)))
    IN  IF Len(common) > Min({Len(a), Len(b)}) THEN Revert ELSE common

union(a, b) == unique(a \o b)

(* Unlike the others, this one keeps repeats.                               *)
differences(a, b) == SelectSeq(a, LAMBDA x : ~contains(b, x))

=============================================================================
