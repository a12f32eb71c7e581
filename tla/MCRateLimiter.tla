----------------------------- MODULE MCRateLimiter -----------------------------
(* One user and one operation, limits of 0, 1 and 2, windows of two ticks,  *)
(* of three, and one so long that its end overflows.                        *)
EXTENDS RateLimiter

MCLimitTables ==
    { [tier \in Tiers |-> 0],
      [tier \in Tiers |-> IF tier = "Basic" THEN 1 ELSE 2] }

(* No guard and no property reads the rest.                                 *)
WithoutUnread ==
    <<now, globalEnabled, configs, tieredLimits, keeperLimits, userTier, whitelist, isKeeper,
      userStates, passes>>

=============================================================================
