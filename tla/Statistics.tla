------------------------------- MODULE Statistics -------------------------------
(***************************************************************************)
(* libraries/math/Statistics.sol: measures of a series of numbers.  Revert  *)
(* is what a call that reverts returns.                                     *)
(***************************************************************************)
EXTENDS Integers, Sequences, SequencesExt

CONSTANTS
    Q96,                \* scale of the averages' weights
    PERCENTAGE_FACTOR,  \* basis points in 100%
    Revert

Total(values) ==
    LET sum[k \in 0..Len(values)] == IF k = 0 THEN 0 ELSE sum[k - 1] + values[k]
    IN  sum[Len(values)]

mean(values) == IF values = << >> THEN Revert ELSE Total(values) \div Len(values)

(* _sort: every place is compared with all that come after it.              *)
SwappedIfAbove(arr, a, b) ==
    IF arr[a] > arr[b] THEN [arr EXCEPT ![a] = arr[b], ![b] = arr[a]] ELSE arr

Sorted(values) ==
    LET Row(arr, a) == FoldLeft(LAMBDA row, b : SwappedIfAbove(row, a, b),
                                arr, [n \in 1..(Len(arr) - a) |-> a + n])
    IN  FoldLeft(Row, values, [n \in 1..Len(values) |-> n])

median(values) ==
    IF values = << >> THEN Revert
    ELSE LET sorted == Sorted(values)
             half == Len(sorted) \div 2
         IN  IF Len(sorted) % 2 = 1 THEN sorted[half + 1]
             ELSE (sorted[half] + sorted[half + 1]) \div 2

-----------------------------------------------------------------------------
(* A new value is a new peak, or a drawdown from the last one.              *)
DrawdownStep(walk, value) ==
    IF value > walk.peak THEN [walk EXCEPT !.peak = value]
    ELSE [walk EXCEPT !.deepest =
             Max({@, ((walk.peak - value) * PERCENTAGE_FACTOR) \div walk.peak})]

(* Nothing drops from a peak of zero: the code divides by it and reverts.   *)
maxDrawdown(values) ==
    IF Len(values) < 2 \/ (values[1] = 0 /\ values[2] = 0) THEN Revert
    ELSE LET after[k \in 0..(Len(values) - 1)] ==
                 IF k = 0 THEN [peak |-> values[1], deepest |-> 0]
                 ELSE DrawdownStep(after[k - 1], values[k + 1])
         IN  after[Len(values) - 1].deepest

(* One average per window of period values.                                 *)
simpleMovingAverage(values, period) ==
    IF period = 0 \/ Len(values) < period THEN Revert
    ELSE [ n \in 1..(Len(values) - period + 1) |->
             Total(SubSeq(values, n, n + period - 1)) \div period ]

Multiplier(period) == (2 * Q96) \div (period + 1)

exponentialMovingAverage(values, period) ==
    IF period = 0 \/ Len(values) < period THEN Revert
    ELSE LET ema[k \in 0..(Len(values) - period)] ==
                 IF k = 0 THEN Total(SubSeq(values, 1, period)) \div period
                 ELSE (values[period + k] * Multiplier(period)
                       + ema[k - 1] * (Q96 - Multiplier(period))) \div Q96
         IN  [n \in 1..(Len(values) - period + 1) |-> ema[n - 1]]

=============================================================================
