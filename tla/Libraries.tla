-------------------------------- MODULE Libraries --------------------------------
(***************************************************************************)
(* What the pure numeric functions, the calendar and the role rule are to   *)
(* return.  Arrays are the ones the candidate queue's sort is given: each   *)
(* statement is about the states in which the sort has not begun, one for   *)
(* each array; what is about numbers alone is about the empty array.        *)
(***************************************************************************)
EXTENDS SortQueue, RoleRegistry, SequencesExt

CONSTANTS
    Revert,             \* what a call that reverts returns
    MaxUint, MaxHalf,   \* the largest word and the largest half word
    Q96, PERCENTAGE_FACTOR, SECONDS_PER_HOUR,
    LargestAmount       \* bound of the amounts fees are taken from

ASSUME RevertAssumption == Revert \notin Int
ASSUME WordAssumption == MaxUint \in Nat \ {0} /\ MaxHalf \in Nat
ASSUME ScaleAssumption ==
    /\ Q96 \in Nat \ {0} /\ PERCENTAGE_FACTOR \in Nat \ {0}
    /\ SECONDS_PER_HOUR \in Nat \ {0}
ASSUME AmountAssumption == LargestAmount \in Nat

FP == INSTANCE FixedPointMath
PC == INSTANCE PercentageMath
ST == INSTANCE Statistics
TU == INSTANCE TimeUtils

Untouched == i = 1 /\ j = 2
Once == Untouched /\ input = << >>

Scores == [n \in DOMAIN input |-> input[n].adlScore]

-----------------------------------------------------------------------------
(* PROPERTIES                                                               *)

(* A product is the exact one, rounded down, or the call reverts because it *)
(* does not fit in a word (the largest word itself counts as not fitting);  *)
(* rounding up never falls below the exact value of a product or a quotient *)
(* that is not zero; the root's square is the last that does not exceed the *)
(* word.                                                                    *)
FixedPointExact ==
    Once =>
        /\ \A x, y \in 0..MaxUint :
              FP!mul(x, y) = IF x * y < MaxUint THEN (x * y) \div Q96 ELSE Revert
        /\ \A x, y \in 1..MaxUint :
              /\ FP!mulUp(x, y) \notin {0, Revert} =>
                    /\ FP!mulUp(x, y) * Q96 >= x * y
                    /\ (FP!mulUp(x, y) - 1) * Q96 < x * y
              /\ FP!divUp(x, y) # Revert =>
                    /\ FP!divUp(x, y) * y >= x * Q96
                    /\ FP!div(x, y) * y <= x * Q96
                    /\ FP!divUp(x, y) - FP!div(x, y) \in {0, 1}
        /\ \A x \in 0..(MaxUint - 1) :
              FP!sqrt(x) * FP!sqrt(x) <= x /\ (FP!sqrt(x) + 1) * (FP!sqrt(x) + 1) > x

(* The amount before a fee, with the fee taken off, is the net amount again *)
(* to the unit, though both are rounded down; and no smaller one is.        *)
FeesRoundTrip ==
    Once =>
        \A net \in 0..LargestAmount, feeBps \in 0..(PERCENTAGE_FACTOR - 1) :
            LET gross == PC!amountBeforeFee(net, feeBps)
            IN  /\ PC!amountAfterFee(gross, feeBps) = net
                /\ PC!calculateFee(gross, feeBps) + net = gross

(* Compounding may stop and go on: the interest of all periods is the one   *)
(* of the first periods and then of the rest; and a gain of one side is the *)
(* same loss of the other.                                                  *)
InterestAndPnlConsistent ==
    Once =>
        /\ \A amount \in 0..LargestAmount, rate \in 0..PERCENTAGE_FACTOR, n, m \in 0..3 :
              PC!compound(amount, rate, n + m) = PC!compound(PC!compound(amount, rate, n), rate, m)
        /\ \A entry \in 1..LargestAmount, exit \in 0..LargestAmount :
              /\ PC!calculatePnlPercent(entry, exit, TRUE)
                 = -PC!calculatePnlPercent(entry, exit, FALSE)
              /\ PC!calculatePnlPercent(entry, exit, TRUE) >= -PERCENTAGE_FACTOR

(* The drawdown that one pass over the values finds is the deepest fall     *)
(* from any value to any later one.                                         *)
DrawdownExact ==
    Untouched /\ ST!maxDrawdown(Scores) # Revert =>
        ST!maxDrawdown(Scores)
        = Max({0} \cup { ((Scores[p[1]] - Scores[p[2]]) * PERCENTAGE_FACTOR) \div Scores[p[1]] :
                  p \in { p \in (DOMAIN Scores) \X (DOMAIN Scores) :
                             p[1] < p[2] /\ Scores[p[1]] > Scores[p[2]] } })

(* Every average, the weighted ones included, lies between the least and    *)
(* the largest of the values.                                               *)
AveragesWithinRange ==
    Untouched /\ input # << >> =>
        LET Within(x) == x >= Min(Range(Scores)) /\ x <= Max(Range(Scores))
        IN  /\ Within(ST!mean(Scores))
            /\ \A period \in 1..Len(Scores) :
                  \A x \in Range(ST!simpleMovingAverage(Scores, period))
                           \cup Range(ST!exponentialMovingAverage(Scores, period)) : Within(x)

(* The next funding is the first time after now at which funding is due, at *)
(* most an interval away; a week starts on the last Monday and is the same  *)
(* for all its times.                                                       *)
SchedulesExact ==
    Once =>
        \A time \in 0..(21 * TU!SECONDS_PER_DAY) :
            LET next == TU!baobabNextFundingTimestamp(time)
                monday == TU!baobabStartOfWeek(time)
            IN  /\ next > time /\ TU!baobabShouldApplyFunding(next)
                /\ \A between \in (time + 1)..(next - 1) : ~TU!baobabShouldApplyFunding(between)
                /\ TU!baobabTimeUntilNextFunding(time) \in 1..TU!FUNDING_INTERVAL
                /\ monday # Revert =>
                      /\ monday <= time /\ time - monday < 7 * TU!SECONDS_PER_DAY
                      /\ TU!baobabStartOfWeek(monday) = monday
                /\ monday = Revert <=> time < 4 * TU!SECONDS_PER_DAY
                /\ TU!baobabIsAnyAfricanMarketOpen(time)
                   <=> time % TU!SECONDS_PER_DAY \in
                          (6 * SECONDS_PER_HOUR)..(15 * SECONDS_PER_HOUR - 1)

(* The registry's rule and the access manager's hierarchy agree: whoever    *)
(* administers a role at the start may grant it by the rule, and the rule   *)
(* lets nobody grant in a circle, the owner's own role apart.               *)
RegistryOrdersRoles ==
    Once =>
        /\ \A role \in AllRoles : canGrantRole(InitialRoleAdmin(role), role)
        /\ \A r1, r2 \in AllRoles : canGrantRole(r1, r2) /\ canGrantRole(r2, r1) => r1 = r2
        /\ \A r1, r2, r3 \in AllRoles :
              canGrantRole(r1, r2) /\ canGrantRole(r2, r3) => canGrantRole(r1, r3)

(* What the numeric libraries, the calendar and the role rule return, for   *)
(* every number of the run.                                                 *)
FormulasExact ==
    /\ FixedPointExact /\ FeesRoundTrip /\ InterestAndPnlConsistent
    /\ DrawdownExact /\ AveragesWithinRange
    /\ SchedulesExact /\ RegistryOrdersRoles

=============================================================================
