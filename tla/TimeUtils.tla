-------------------------------- MODULE TimeUtils --------------------------------
(***************************************************************************)
(* libraries/utils/TimeUtils.sol: the calendar the schedules are read from. *)
(* An hour has SECONDS_PER_HOUR ticks; Revert is what a call that reverts   *)
(* returns.                                                                 *)
(***************************************************************************)
EXTENDS Integers

CONSTANTS SECONDS_PER_HOUR, Revert

SECONDS_PER_DAY == 24 * SECONDS_PER_HOUR

FUNDING_INTERVAL == 8 * SECONDS_PER_HOUR

(* Opening and closing hours, UTC.                                          *)
MarketHours == [NIGERIA |-> <<8, 15>>, SOUTH_AFRICA |-> <<7, 15>>, KENYA |-> <<6, 13>>]

MarketOpen(region, timestamp) ==
    LET timeOfDay == timestamp % SECONDS_PER_DAY
    IN  /\ timeOfDay >= MarketHours[region][1] * SECONDS_PER_HOUR
        /\ timeOfDay < MarketHours[region][2] * SECONDS_PER_HOUR

baobabIsAnyAfricanMarketOpen(timestamp) ==
    \E region \in DOMAIN MarketHours : MarketOpen(region, timestamp)

baobabNextFundingTimestamp(timestamp) ==
    (timestamp \div FUNDING_INTERVAL) * FUNDING_INTERVAL + FUNDING_INTERVAL

baobabTimeUntilNextFunding(timestamp) == baobabNextFundingTimestamp(timestamp) - timestamp

baobabShouldApplyFunding(timestamp) == timestamp % FUNDING_INTERVAL = 0

(* Today's, also when it has passed.                                        *)
baobabNextSettlementTimestamp(timestamp) ==
    (timestamp \div SECONDS_PER_DAY) * SECONDS_PER_DAY + 16 * SECONDS_PER_HOUR

baobabStartOfDay(timestamp) == (timestamp \div SECONDS_PER_DAY) * SECONDS_PER_DAY

(* Day 0 was a Thursday, the fourth day of a week; its Monday is before the *)
(* first time there is.                                                     *)
baobabStartOfWeek(timestamp) ==
    LET dayOfWeek == (timestamp \div SECONDS_PER_DAY + 3) % 7
        start == baobabStartOfDay(timestamp)
    IN  IF dayOfWeek * SECONDS_PER_DAY > start THEN Revert ELSE start - dayOfWeek * SECONDS_PER_DAY

=============================================================================
