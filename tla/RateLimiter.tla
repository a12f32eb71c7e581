------------------------------ MODULE RateLimiter ------------------------------
(***************************************************************************)
(* security/RateLimiter.sol: a limit on the calls of a user to an operation *)
(* per window of time.  A window starts with the first call after the last  *)
(* one ended; limits depend on the user's tier and on being a keeper, and   *)
(* the admin may change any of it, the length of the window included, in    *)
(* the middle of one.                                                       *)
(*                                                                         *)
(* The gas budget of _checkGasLimit is left out: it is skipped while        *)
(* userGasStates[..].maxGasPerWindow is 0, and no function assigns it.      *)
(***************************************************************************)
EXTENDS Integers, Sequences

CONSTANTS
    Users, Ops, Admins,
    LimitTables,        \* limits per tier: of the constructor, setTieredLimit, setKeeperLimits
    Windows,            \* values of timeWindow
    LargestLimit,       \* no limit is larger; at least 1
    ShortestWindow,     \* no window is shorter
    GasLimits,          \* arguments of setGasLimit
    MaxUint,            \* type(uint256).max
    StartTime, MaxTime  \* bounds of the clock

Tiers == {"Basic", "Premium", "VIP", "MarketMaker"}

ASSUME LimitsAssumption ==
    /\ LargestLimit \in Nat \ {0}
    /\ LimitTables \subseteq [Tiers -> 0..LargestLimit]
ASSUME WindowsAssumption ==
    /\ MaxUint \in Nat
    /\ ShortestWindow \in Nat \ {0}
    /\ Windows \subseteq Nat /\ \A window \in Windows \ {0} : window >= ShortestWindow
    /\ GasLimits \subseteq Nat
ASSUME ClockAssumption == StartTime \in Nat /\ MaxTime \in Nat

VARIABLES
    now,                \* block.timestamp
    admin, globalEnabled,
    configs,            \* [op -> timeWindow and enabled]
    tieredLimits, keeperLimits,     \* [op -> [tier -> limit]]
    userTier,           \* [user -> tier]
    whitelist, emergencyBypass, isKeeper,
    userStates,         \* [user -> [op -> requestCount and windowStart]]
    lastRequestTime,    \* [user -> [op -> time]], read by nobody
    gasLimits,          \* [op -> maxGasPerWindow], read by nobody
    passes              \* history: times of counted calls since the last reset

settingVars == <<admin, globalEnabled, configs, tieredLimits, keeperLimits, userTier,
                 whitelist, emergencyBypass, isKeeper, gasLimits>>
countVars == <<userStates, lastRequestTime, passes>>
vars == <<now, settingVars, countVars>>

NoState == [requestCount |-> 0, windowStart |-> 0]
NoConfig == [timeWindow |-> 0, enabled |-> FALSE]
NoLimits == [tier \in Tiers |-> 0]

-----------------------------------------------------------------------------
(* _getLimitForUser; a keeper's limits are 0 until somebody sets them.      *)
LimitForUser(u, op) ==
    IF u \in isKeeper THEN keeperLimits[op][userTier[u]] ELSE tieredLimits[op][userTier[u]]

Limited(u) == globalEnabled /\ u \notin whitelist

WindowEnd(u, op) == userStates[u][op].windowStart + configs[op].timeWindow

(* The end of the window is computed with a check for overflow.             *)
WindowFits(u, op) == WindowEnd(u, op) <= MaxUint

WindowOver(u, op, time) == time >= WindowEnd(u, op)

Counting(u, op, count, start) ==
    /\ userStates' = [userStates EXCEPT ![u][op] = [requestCount |-> count, windowStart |-> start]]
    /\ lastRequestTime' = [lastRequestTime EXCEPT ![u][op] = now]
    /\ passes' = [passes EXCEPT ![u][op] = Append(@, now)]

(* The first call after a window: nothing is compared with the limit.       *)
FirstOfWindow(u, op) ==
    /\ configs[op].enabled /\ WindowFits(u, op) /\ WindowOver(u, op, now)
    /\ Counting(u, op, 1, now)

(* Slip: the count is compared before this call is added.                   *)
MutComparesBefore(u, op) == userStates[u][op].requestCount <= LimitForUser(u, op)

WithinLimit(u, op) == userStates[u][op].requestCount + 1 <= LimitForUser(u, op)

NextOfWindow(u, op) ==
    /\ configs[op].enabled /\ WindowFits(u, op) /\ ~WindowOver(u, op, now)
    /\ WithinLimit(u, op)
    /\ Counting(u, op, userStates[u][op].requestCount + 1, userStates[u][op].windowStart)

Unconfigured(u, op) ==
    /\ ~configs[op].enabled
    /\ lastRequestTime' = [lastRequestTime EXCEPT ![u][op] = now]
    /\ UNCHANGED <<userStates, passes>>

(* checkRateLimit on behalf of anyone who is limited; a refused call        *)
(* reverts and counts nothing.                                              *)
checkRateLimit(u, op) ==
    /\ Limited(u)
    /\ Unconfigured(u, op) \/ FirstOfWindow(u, op) \/ NextOfWindow(u, op)
    /\ UNCHANGED <<now, settingVars>>

-----------------------------------------------------------------------------
(* What the views say.                                                      *)

(* Slip: an ended window is counted as if it went on.                       *)
MutForgetsTheEnd(u, op) ==
    \/ ~globalEnabled \/ u \in whitelist \/ ~configs[op].enabled
    \/ userStates[u][op].requestCount < LimitForUser(u, op)

(* checkRateLimitView                                                       *)
ViewAllows(u, op) ==
    \/ ~globalEnabled \/ u \in whitelist \/ ~configs[op].enabled
    \/ WindowOver(u, op, now)
    \/ userStates[u][op].requestCount < LimitForUser(u, op)

RetryAfter(u, op) == WindowEnd(u, op) - now

(* Slip: what an ended window used up is still subtracted.                  *)
MutCountsOldWindow(u, op) ==
    IF userStates[u][op].requestCount >= LimitForUser(u, op) THEN 0
    ELSE LimitForUser(u, op) - userStates[u][op].requestCount

(* remainingRequests, of a user and an operation that are limited           *)
Remaining(u, op) ==
    IF WindowOver(u, op, now) THEN LimitForUser(u, op)
    ELSE IF userStates[u][op].requestCount >= LimitForUser(u, op) THEN 0
    ELSE LimitForUser(u, op) - userStates[u][op].requestCount

-----------------------------------------------------------------------------
(* The admin's operations.                                                  *)

setTieredLimit(op, limits, window) ==
    /\ window # 0
    /\ tieredLimits' = [tieredLimits EXCEPT ![op] = limits]
    /\ configs' = [configs EXCEPT ![op] = [timeWindow |-> window, enabled |-> TRUE]]
    /\ UNCHANGED <<now, admin, globalEnabled, keeperLimits, userTier, whitelist, emergencyBypass,
                   isKeeper, gasLimits, countVars>>

setKeeperLimits(op, limits) ==
    /\ keeperLimits' = [keeperLimits EXCEPT ![op] = limits]
    /\ UNCHANGED <<now, admin, globalEnabled, configs, tieredLimits, userTier, whitelist,
                   emergencyBypass, isKeeper, gasLimits, countVars>>

setGasLimit(op, limit) ==
    /\ gasLimits' = [gasLimits EXCEPT ![op] = limit]
    /\ UNCHANGED <<now, admin, globalEnabled, configs, tieredLimits, keeperLimits, userTier,
                   whitelist, emergencyBypass, isKeeper, countVars>>

upgradeUserTier(u, tier) ==
    /\ userTier' = [userTier EXCEPT ![u] = tier]
    /\ UNCHANGED <<now, admin, globalEnabled, configs, tieredLimits, keeperLimits, whitelist,
                   emergencyBypass, isKeeper, gasLimits, countVars>>

With(S, u, status) == IF status THEN S \cup {u} ELSE S \ {u}

setWhitelist(u, status) ==
    /\ whitelist' = With(whitelist, u, status)
    /\ UNCHANGED <<now, admin, globalEnabled, configs, tieredLimits, keeperLimits, userTier,
                   emergencyBypass, isKeeper, gasLimits, countVars>>

setEmergencyBypass(u, status) ==
    /\ emergencyBypass' = With(emergencyBypass, u, status)
    /\ UNCHANGED <<now, admin, globalEnabled, configs, tieredLimits, keeperLimits, userTier,
                   whitelist, isKeeper, gasLimits, countVars>>

setKeeperStatus(u, status) ==
    /\ isKeeper' = With(isKeeper, u, status)
    /\ UNCHANGED <<now, admin, globalEnabled, configs, tieredLimits, keeperLimits, userTier,
                   whitelist, emergencyBypass, gasLimits, countVars>>

toggleGlobal ==
    /\ globalEnabled' = ~globalEnabled
    /\ UNCHANGED <<now, admin, configs, tieredLimits, keeperLimits, userTier, whitelist,
                   emergencyBypass, isKeeper, gasLimits, countVars>>

transferAdmin(newAdmin) ==
    /\ admin' = newAdmin
    /\ UNCHANGED <<now, globalEnabled, configs, tieredLimits, keeperLimits, userTier, whitelist,
                   emergencyBypass, isKeeper, gasLimits, countVars>>

resetRateLimitState(u, op) ==
    /\ userStates' = [userStates EXCEPT ![u][op] = NoState]
    /\ lastRequestTime' = [lastRequestTime EXCEPT ![u][op] = 0]
    /\ passes' = [passes EXCEPT ![u][op] = << >>]
    /\ UNCHANGED <<now, settingVars>>

Tick ==
    /\ now < MaxTime
    /\ now' = now + 1
    /\ UNCHANGED <<settingVars, countVars>>

-----------------------------------------------------------------------------
(* The constructor configures the operations it knows; the others have no   *)
(* limits until setTieredLimit.                                             *)
Init ==
    /\ now = StartTime
    /\ admin \in Admins
    /\ globalEnabled = TRUE
    /\ \E known \in SUBSET Ops, limits \in [Ops -> LimitTables], window \in [Ops -> Windows \ {0}] :
          /\ configs = [op \in Ops |-> IF op \in known
                            THEN [timeWindow |-> window[op], enabled |-> TRUE] ELSE NoConfig]
          /\ tieredLimits = [op \in Ops |-> IF op \in known THEN limits[op] ELSE NoLimits]
    /\ keeperLimits = [op \in Ops |-> NoLimits]
    /\ userTier = [u \in Users |-> "Basic"]
    /\ whitelist = {} /\ emergencyBypass = {} /\ isKeeper = {}
    /\ userStates = [u \in Users |-> [op \in Ops |-> NoState]]
    /\ lastRequestTime = [u \in Users |-> [op \in Ops |-> 0]]
    /\ gasLimits = [op \in Ops |-> 0]
    /\ passes = [u \in Users |-> [op \in Ops |-> << >>]]

CallStep == \E u \in Users, op \in Ops : checkRateLimit(u, op)

LimitStep ==
    \/ \E op \in Ops, limits \in LimitTables, window \in Windows : setTieredLimit(op, limits, window)
    \/ \E op \in Ops, limits \in LimitTables : setKeeperLimits(op, limits)
    \/ \E op \in Ops, limit \in GasLimits : setGasLimit(op, limit)

UserStep ==
    \/ \E u \in Users, tier \in Tiers : upgradeUserTier(u, tier)
    \/ \E u \in Users, status \in BOOLEAN : setWhitelist(u, status)
    \/ \E u \in Users, status \in BOOLEAN : setEmergencyBypass(u, status)
    \/ \E u \in Users, status \in BOOLEAN : setKeeperStatus(u, status)
    \/ \E u \in Users, op \in Ops : resetRateLimitState(u, op)

Next ==
    \/ CallStep
    \/ LimitStep
    \/ UserStep
    \/ toggleGlobal
    \/ \E newAdmin \in Admins : transferAdmin(newAdmin)
    \/ Tick

Spec == Init /\ [][Next]_vars

-----------------------------------------------------------------------------
(* PROPERTIES                                                               *)

(* Types; windows have a length, and none starts in the future.             *)
TypeOK ==
    /\ now \in Nat
    /\ admin \in Admins
    /\ globalEnabled \in BOOLEAN
    /\ configs \in [Ops -> [timeWindow : Nat, enabled : BOOLEAN]]
    /\ \A op \in Ops : configs[op].enabled => configs[op].timeWindow # 0
    /\ tieredLimits \in [Ops -> [Tiers -> Nat]]
    /\ keeperLimits \in [Ops -> [Tiers -> Nat]]
    /\ userTier \in [Users -> Tiers]
    /\ whitelist \subseteq Users /\ emergencyBypass \subseteq Users /\ isKeeper \subseteq Users
    /\ userStates \in [Users -> [Ops -> [requestCount : Nat, windowStart : Nat]]]
    /\ \A u \in Users, op \in Ops : userStates[u][op].windowStart <= now
    /\ lastRequestTime \in [Users -> [Ops -> Nat]]
    /\ gasLimits \in [Ops -> Nat]
    /\ passes \in [Users -> [Ops -> Seq(Nat)]]

(* What a fixed window promises of bursts: of more than twice the largest   *)
(* limit of successive calls, the first and the last are a window apart,    *)
(* however tiers, limits, keepers, exemptions and windows change between    *)
(* them.  (Twice, because one window's last calls and the next one's first  *)
(* may be neighbours; at least one call, because the first of a window is   *)
(* let through at a limit of 0; until the admin resets the user's state.)   *)
BurstBounded ==
    \A u \in Users, op \in Ops :
        \A i \in 1..(Len(passes[u][op]) - 2 * LargestLimit) :
            passes[u][op][i + 2 * LargestLimit] - passes[u][op][i] >= ShortestWindow

(* checkRateLimitView allows exactly the calls checkRateLimit lets pass.    *)
(* The two are written apart, one before the call is counted and one after. *)
Passes(u, op) ==
    Limited(u) /\ configs[op].enabled => WindowOver(u, op, now) \/ WithinLimit(u, op)

ViewsAgree ==
    \A u \in Users, op \in Ops : WindowFits(u, op) => (ViewAllows(u, op) <=> Passes(u, op))

(* remainingRequests counts down by one with every call that is counted,    *)
(* across the end of a window as well, and stays at 0 when a call passes    *)
(* that it did not promise (the first of a window, at a limit of 0).        *)
RemainingCountsDown ==
    [][ \A u \in Users, op \in Ops :
          Len(passes'[u][op]) > Len(passes[u][op]) =>
            Remaining(u, op)' = (IF Remaining(u, op) = 0 THEN 0 ELSE Remaining(u, op) - 1) ]_vars

(* The retry time is right: a refused call passes after exactly that time,  *)
(* if nothing else happens, and at no moment before.                        *)
RetryAfterExact ==
    \A u \in Users, op \in Ops :
        ~ViewAllows(u, op) =>
          /\ RetryAfter(u, op) > 0
          /\ WindowOver(u, op, now + RetryAfter(u, op))
          /\ \A wait \in 0..(RetryAfter(u, op) - 1) : ~WindowOver(u, op, now + wait)

(* What a client is told before it calls is what the call then does: the    *)
(* answer of the view, and of a refusal the time to wait.                   *)
ViewsExact == ViewsAgree /\ RetryAfterExact

=============================================================================
