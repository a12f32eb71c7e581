----------------------------- MODULE PercentageMath -----------------------------
(***************************************************************************)
(* libraries/math/PercentageMath.sol: fees, changes and compounding in      *)
(* basis points.  Revert is what a call that reverts returns; overflow of   *)
(* the word is left to FixedPointMath.                                      *)
(***************************************************************************)
EXTENDS Integers

CONSTANTS
    PERCENTAGE_FACTOR,  \* basis points in 100%
    Revert

MAX_PERCENTAGE == PERCENTAGE_FACTOR

percent(x, percentage) ==
    IF percentage > MAX_PERCENTAGE THEN Revert ELSE (x * percentage) \div PERCENTAGE_FACTOR

addPercent(x, percentage) ==
    IF percentage > MAX_PERCENTAGE THEN Revert ELSE x + percent(x, percentage)

subPercent(x, percentage) ==
    IF percentage > MAX_PERCENTAGE THEN Revert ELSE x - percent(x, percentage)

(* Signed, rounded towards zero.                                            *)
Change(from, to) ==
    IF to > from THEN ((to - from) * PERCENTAGE_FACTOR) \div from
    ELSE -(((from - to) * PERCENTAGE_FACTOR) \div from)

calculatePercentChange(oldValue, newValue) ==
    IF oldValue = 0 THEN Revert ELSE Change(oldValue, newValue)

(* A short position gains what a long one loses.                            *)
calculatePnlPercent(entryPrice, exitPrice, isLong) ==
    IF entryPrice = 0 THEN Revert
    ELSE IF isLong THEN Change(entryPrice, exitPrice) ELSE -Change(entryPrice, exitPrice)

(* Interest is added, and cut to a whole number, at the end of each period. *)
compound(principal, ratePerPeriod, periods) ==
    LET after[k \in 0..periods] ==
            IF k = 0 THEN principal
            ELSE (after[k - 1] * (PERCENTAGE_FACTOR + ratePerPeriod)) \div PERCENTAGE_FACTOR
    IN  after[periods]

-----------------------------------------------------------------------------
(* Fees.                                                                    *)

calculateFee(amount, feeBps) == percent(amount, feeBps)

amountAfterFee(amount, feeBps) == subPercent(amount, feeBps)

amountBeforeFee(netAmount, feeBps) ==
    IF feeBps >= MAX_PERCENTAGE THEN Revert
    ELSE (netAmount * PERCENTAGE_FACTOR) \div (PERCENTAGE_FACTOR - feeBps)

=============================================================================
