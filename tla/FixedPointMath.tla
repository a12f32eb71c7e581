----------------------------- MODULE FixedPointMath -----------------------------
(***************************************************************************)
(* libraries/math/FixedPointMath.sol: products, quotients and square roots  *)
(* of words.  The word's largest value and the scale are constants here, so *)
(* that the places where a word overflows are within reach.  Revert is what *)
(* a call that reverts returns.                                             *)
(***************************************************************************)
EXTENDS Integers

CONSTANTS
    MaxUint,            \* type(uint256).max
    MaxHalf,            \* type(uint128).max
    Q96,                \* the scale: 1.0
    Revert

Checked(x) == IF x > MaxUint THEN Revert ELSE x

(* mulmod by the largest word tells whether the product fits in a word.     *)
mul(x, y) ==
    IF x = 0 \/ y = 0 THEN 0
    ELSE LET mm == (x * y) % MaxUint
         IN  IF mm \div x # y THEN Revert ELSE mm \div Q96

(* Rounds up, except to the first unit: a product below one stays 0.        *)
mulUp(x, y) ==
    LET down == mul(x, y)
    IN  IF down \notin {0, Revert} /\ (x * y) % Q96 # 0 THEN down + 1 ELSE down

div(x, y) ==
    IF y = 0 THEN Revert
    ELSE IF x = 0 THEN 0
    ELSE IF x * Q96 > MaxUint THEN Revert ELSE (x * Q96) \div y

divUp(x, y) ==
    IF y = 0 THEN Revert
    ELSE IF x = 0 THEN 0
    ELSE IF x * Q96 + y > MaxUint THEN Revert ELSE (x * Q96 + y - 1) \div y

fromUint(x) == Checked(x * Q96)

-----------------------------------------------------------------------------
BabylonianStep(x, r) == (r + x \div r) \div 2

(* Steps down from the word itself, until one lowers r by no more than 1.   *)
Converged(x) ==
    LET from[r \in 1..x] ==
            LET next == BabylonianStep(x, r)
            IN  IF next < r /\ r - next > 1 THEN from[next] ELSE next
    IN  from[x]

(* Slip: the last step's result is taken as it is.                          *)
MutNoFinalStep(x) ==
    IF x = 0 THEN 0 ELSE IF x = MaxUint THEN fromUint(MaxHalf) ELSE Converged(x)

(* The root of the word, not of the fraction it stands for; the largest     *)
(* word is given the root of its own.                                       *)
sqrt(x) ==
    IF x = 0 THEN 0
    ELSE IF x = MaxUint THEN fromUint(MaxHalf)
    ELSE LET r == Converged(x)
         IN  IF r < x \div r THEN r ELSE x \div r

=============================================================================
