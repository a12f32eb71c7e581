------------------------------ MODULE GuardProofs ------------------------------
(***************************************************************************)
(* Who may call, and how often: proofs about AccessManager and ProtocolOwner *)
(* for any accounts, roles and batches, and about RateLimiter for any users, *)
(* operations, limits and windows.                                          *)
(***************************************************************************)
EXTENDS RateLimiter, ProtocolOwner, FoldLemmas, FiniteSetTheorems, SequenceTheorems, TLAPS

-----------------------------------------------------------------------------
(* RATE LIMITER                                                             *)

M == LargestLimit
W == ShortestWindow

(* How the calls p counted so far lie around the current window, which      *)
(* started at s and holds the last c of them, at time t.  What came more    *)
(* than one full window before is at least a window's length older than s.  *)
Shape(p, c, s, t) ==
    /\ c <= Len(p) /\ c <= M
    /\ \A i \in 1..Len(p) : p[i] <= t
    /\ \A i \in 1..(Len(p) - c) : p[i] <= s
    /\ \A i \in 1..(Len(p) - c - M) : p[i] + W <= s
    /\ \A i \in 1..(Len(p) - 2 * M) : p[i + 2 * M] - p[i] >= W

LEMMA Bounds == M \in Nat /\ M >= 1 /\ W \in Nat /\ W >= 1
  BY LimitsAssumption, WindowsAssumption DEF M, W

LEMMA ShapeStart == ASSUME NEW t \in Nat PROVE Shape(<< >>, 0, 0, t)
  BY Bounds DEF Shape

LEMMA ShapeTick ==
    ASSUME NEW p \in Seq(Nat), NEW c \in Nat, NEW s \in Nat, NEW t \in Nat, Shape(p, c, s, t)
    PROVE  Shape(p, c, s, t + 1)
<1>1. \A i \in 1..Len(p) : p[i] \in Nat
  OBVIOUS
<1> QED  BY <1>1 DEF Shape

(* One more call in the window: it is not the one too many.                 *)
LEMMA ShapeNext ==
    ASSUME NEW p \in Seq(Nat), NEW c \in Nat, NEW s \in Nat, NEW t \in Nat,
           Shape(p, c, s, t), s <= t, c + 1 <= M
    PROVE  Shape(Append(p, t), c + 1, s, t)
<1> DEFINE q == Append(p, t)
<1>1. /\ Len(q) = Len(p) + 1 /\ q[Len(p) + 1] = t
      /\ \A i \in 1..Len(p) : q[i] = p[i] /\ p[i] \in Nat
  OBVIOUS
<1>2. Len(p) \in Nat
  OBVIOUS
<1> HIDE DEF q
<1>3. c + 1 <= Len(q) /\ \A i \in 1..Len(q) : q[i] <= t
  BY <1>1, <1>2 DEF Shape
<1>4. ASSUME NEW i \in 1..(Len(q) - (c + 1))
      PROVE  q[i] <= s
  <2>1. i \in 1..(Len(p) - c) /\ i \in 1..Len(p)
    BY <1>1, <1>2
  <2> QED  BY <1>1, <2>1 DEF Shape
<1>5. ASSUME NEW i \in 1..(Len(q) - (c + 1) - M)
      PROVE  q[i] + W <= s
  <2>1. i \in 1..(Len(p) - c - M) /\ i \in 1..Len(p)
    BY <1>1, <1>2, Bounds
  <2> QED  BY <1>1, <2>1 DEF Shape
<1>6. ASSUME NEW i \in 1..(Len(q) - 2 * M)
      PROVE  q[i + 2 * M] - q[i] >= W
  <2>1. CASE i + 2 * M = Len(q)
    <3>1. i \in 1..(Len(p) - c - M) /\ i \in 1..Len(p)
      BY <1>1, <1>2, <2>1, Bounds
    <3>2. q[i] + W <= s
      BY <1>1, <3>1 DEF Shape
    <3>3. q[i + 2 * M] = t /\ q[i] \in Nat
      BY <1>1, <2>1, <3>1
    <3> QED  BY <3>2, <3>3, Bounds
  <2>2. CASE i + 2 * M # Len(q)
    <3>1. i \in 1..(Len(p) - 2 * M) /\ i \in 1..Len(p) /\ i + 2 * M \in 1..Len(p)
      BY <1>1, <1>2, <2>2, Bounds
    <3> QED  BY <1>1, <3>1 DEF Shape
  <2> QED  BY <2>1, <2>2
<1> QED  BY <1>3, <1>4, <1>5, <1>6 DEF Shape, q

(* The first call of the next window: the last one's calls came before now, *)
(* and what was before them is a window away.                               *)
LEMMA ShapeFirst ==
    ASSUME NEW p \in Seq(Nat), NEW c \in Nat, NEW s \in Nat, NEW t \in Nat, NEW w \in Nat,
           Shape(p, c, s, t), s + w <= t, w >= W
    PROVE  Shape(Append(p, t), 1, t, t)
<1> DEFINE q == Append(p, t)
<1>1. /\ Len(q) = Len(p) + 1 /\ q[Len(p) + 1] = t
      /\ \A i \in 1..Len(p) : q[i] = p[i] /\ p[i] \in Nat
  OBVIOUS
<1>2. Len(p) \in Nat
  OBVIOUS
<1> HIDE DEF q
<1>3. 1 <= Len(q) /\ 1 <= M /\ \A i \in 1..Len(q) : q[i] <= t
  <2>1. ASSUME NEW i \in 1..Len(q)
        PROVE  q[i] <= t
    <3>1. CASE i \in 1..Len(p)
      BY <1>1, <3>1 DEF Shape
    <3>2. CASE i = Len(p) + 1
      BY <1>1, <3>2
    <3> QED  BY <1>1, <1>2, <3>1, <3>2
  <2> QED  BY <1>1, <1>2, <2>1, Bounds
<1>4. \A i \in 1..(Len(q) - 1) : q[i] <= t
  BY <1>1, <1>2, <1>3
<1>5. ASSUME NEW i \in 1..(Len(p) - M)
      PROVE  q[i] + W <= t
  <2>1. i \in 1..Len(p)
    BY <1>2, Bounds
  <2>2. CASE i \in 1..(Len(p) - c - M)
    <3>1. p[i] + W <= s
      BY <2>2 DEF Shape
    <3> QED  BY <1>1, <2>1, <3>1, Bounds
  <2>3. CASE i \notin 1..(Len(p) - c - M)
    <3>1. i \in 1..(Len(p) - c)
      BY <1>2, <2>1, Bounds DEF Shape
    <3>2. p[i] <= s
      BY <3>1 DEF Shape
    <3> QED  BY <1>1, <2>1, <3>2, Bounds
  <2> QED  BY <2>2, <2>3
<1>6. ASSUME NEW i \in 1..(Len(q) - 1 - M)
      PROVE  q[i] + W <= t
  <2>1. i \in 1..(Len(p) - M)
    BY <1>1, <1>2, Bounds
  <2> QED  BY <1>5, <2>1
<1>7. ASSUME NEW i \in 1..(Len(q) - 2 * M)
      PROVE  q[i + 2 * M] - q[i] >= W
  <2>1. CASE i + 2 * M = Len(q)
    <3>1. i \in 1..(Len(p) - M) /\ i \in 1..Len(p)
      BY <1>1, <1>2, <2>1, Bounds
    <3>2. q[i + 2 * M] = t /\ q[i] \in Nat
      BY <1>1, <2>1, <3>1
    <3> QED  BY <1>5, <3>1, <3>2, Bounds
  <2>2. CASE i + 2 * M # Len(q)
    <3>1. i \in 1..(Len(p) - 2 * M) /\ i \in 1..Len(p) /\ i + 2 * M \in 1..Len(p)
      BY <1>1, <1>2, <2>2, Bounds
    <3> QED  BY <1>1, <3>1 DEF Shape
  <2> QED  BY <2>1, <2>2
<1> QED  BY <1>3, <1>4, <1>6, <1>7 DEF Shape, q

-----------------------------------------------------------------------------
(* The inductive invariant: types, limits and windows within their bounds,  *)
(* and the shape of every user's calls.                                     *)
LimitsBounded ==
    /\ \A op \in Ops, tier \in Tiers :
          tieredLimits[op][tier] <= M /\ keeperLimits[op][tier] <= M
    /\ \A op \in Ops : configs[op].enabled => configs[op].timeWindow >= W

CallsShaped ==
    \A u \in Users, op \in Ops :
        Shape(passes[u][op], userStates[u][op].requestCount, userStates[u][op].windowStart, now)

RateInv == TypeOK /\ LimitsBounded /\ CallsShaped

LEMMA TableTypes ==
    ASSUME NEW limits \in LimitTables
    PROVE  limits \in [Tiers -> Nat] /\ \A tier \in Tiers : limits[tier] <= M
<1>1. limits \in [Tiers -> 0..LargestLimit] /\ LargestLimit \in Nat
  BY LimitsAssumption
<1> QED  BY <1>1 DEF M

LEMMA RateInvInit == Init => RateInv
<1> SUFFICES ASSUME Init PROVE RateInv
  OBVIOUS
<1>1. PICK known \in SUBSET Ops, limits \in [Ops -> LimitTables], window \in [Ops -> Windows \ {0}] :
        /\ configs = [op \in Ops |-> IF op \in known
                          THEN [timeWindow |-> window[op], enabled |-> TRUE] ELSE NoConfig]
        /\ tieredLimits = [op \in Ops |-> IF op \in known THEN limits[op] ELSE NoLimits]
  BY DEF Init
<1>2. \A op \in Ops : window[op] \in Nat /\ window[op] # 0 /\ window[op] >= W
  BY WindowsAssumption DEF W
<1>3. NoLimits \in [Tiers -> Nat] /\ \A tier \in Tiers : NoLimits[tier] <= M
  BY Bounds DEF NoLimits
<1>4. \A op \in Ops : limits[op] \in [Tiers -> Nat] /\ \A tier \in Tiers : limits[op][tier] <= M
  BY TableTypes
<1>5. configs \in [Ops -> [timeWindow : Nat, enabled : BOOLEAN]]
  BY <1>1, <1>2 DEF NoConfig
<1>6. \A op \in Ops : configs[op].enabled => configs[op].timeWindow # 0 /\ configs[op].timeWindow >= W
  BY <1>1, <1>2 DEF NoConfig
<1>7. tieredLimits \in [Ops -> [Tiers -> Nat]] /\ \A op \in Ops, tier \in Tiers : tieredLimits[op][tier] <= M
  BY <1>1, <1>3, <1>4
<1>8. keeperLimits \in [Ops -> [Tiers -> Nat]] /\ \A op \in Ops, tier \in Tiers : keeperLimits[op][tier] <= M
  BY <1>3 DEF Init
<1>9. userStates \in [Users -> [Ops -> [requestCount : Nat, windowStart : Nat]]]
      /\ \A u \in Users, op \in Ops : userStates[u][op] = NoState /\ passes[u][op] = << >>
  BY DEF Init, NoState
<1>10. passes \in [Users -> [Ops -> Seq(Nat)]] /\ userTier \in [Users -> Tiers]
       /\ gasLimits \in [Ops -> Nat] /\ lastRequestTime \in [Users -> [Ops -> Nat]]
  BY DEF Init, Tiers
<1>11. now \in Nat /\ admin \in Admins /\ globalEnabled \in BOOLEAN
       /\ whitelist \subseteq Users /\ emergencyBypass \subseteq Users /\ isKeeper \subseteq Users
  BY ClockAssumption DEF Init
<1>12. \A u \in Users, op \in Ops : userStates[u][op].windowStart <= now
  BY <1>9, <1>11 DEF NoState
<1>13. CallsShaped
  BY <1>9, <1>11, ShapeStart DEF CallsShaped, NoState
<1> QED  BY <1>5, <1>6, <1>7, <1>8, <1>9, <1>10, <1>11, <1>12, <1>13
         DEF RateInv, TypeOK, LimitsBounded

-----------------------------------------------------------------------------
(* The inductive step, an operation at a time.                              *)

LEMMA WindowFacts ==
    ASSUME RateInv, NEW u \in Users, NEW op \in Ops
    PROVE  /\ passes[u][op] \in Seq(Nat)
           /\ userStates[u][op].requestCount \in Nat
           /\ userStates[u][op].windowStart \in Nat
           /\ userStates[u][op].windowStart <= now
           /\ configs[op].timeWindow \in Nat
           /\ configs[op].enabled => configs[op].timeWindow >= W
           /\ LimitForUser(u, op) \in Nat /\ LimitForUser(u, op) <= M
           /\ now \in Nat
           /\ Shape(passes[u][op], userStates[u][op].requestCount,
                    userStates[u][op].windowStart, now)
<1>1. configs[op] \in [timeWindow : Nat, enabled : BOOLEAN]
      /\ userStates[u][op] \in [requestCount : Nat, windowStart : Nat]
  BY DEF RateInv, TypeOK
<1>2. userTier[u] \in Tiers
  BY DEF RateInv, TypeOK
<1>3. LimitForUser(u, op) \in Nat /\ LimitForUser(u, op) <= M
  BY <1>2 DEF RateInv, TypeOK, LimitsBounded, LimitForUser
<1> QED  BY <1>1, <1>3 DEF RateInv, TypeOK, LimitsBounded, CallsShaped

(* A step that leaves the settings alone and gives one user's count of one  *)
(* operation new values keeps the invariant if they have the shape.         *)
LEMMA RecountKeeps ==
    ASSUME RateInv, NEW u \in Users, NEW op \in Ops,
           NEW p \in Seq(Nat), NEW c \in Nat, NEW s \in Nat, NEW time \in Nat,
           s <= now, Shape(p, c, s, now),
           userStates' = [userStates EXCEPT ![u][op] = [requestCount |-> c, windowStart |-> s]],
           lastRequestTime' = [lastRequestTime EXCEPT ![u][op] = time],
           passes' = [passes EXCEPT ![u][op] = p],
           UNCHANGED <<now, settingVars>>
    PROVE  RateInv'
<1> DEFINE State == [requestCount : Nat, windowStart : Nat]
<1>1. /\ userStates \in [Users -> [Ops -> State]]
      /\ passes \in [Users -> [Ops -> Seq(Nat)]]
      /\ lastRequestTime \in [Users -> [Ops -> Nat]]
  BY DEF RateInv, TypeOK
<1>2. /\ userStates' \in [Users -> [Ops -> State]]
      /\ passes' \in [Users -> [Ops -> Seq(Nat)]]
      /\ lastRequestTime' \in [Users -> [Ops -> Nat]]
  BY <1>1
<1>3. ASSUME NEW v \in Users, NEW other \in Ops
      PROVE  /\ userStates'[v][other].windowStart <= now
             /\ Shape(passes'[v][other], userStates'[v][other].requestCount,
                      userStates'[v][other].windowStart, now)
  <2>1. CASE v = u /\ other = op
    <3>1. userStates'[v][other] = [requestCount |-> c, windowStart |-> s] /\ passes'[v][other] = p
      BY <1>1, <2>1
    <3> QED  BY <3>1
  <2>2. CASE ~(v = u /\ other = op)
    <3>1. userStates'[v][other] = userStates[v][other] /\ passes'[v][other] = passes[v][other]
      BY <1>1, <2>2
    <3> QED  BY <3>1, WindowFacts
  <2> QED  BY <2>1, <2>2
<1>4. TypeOK'
  BY <1>2, <1>3 DEF RateInv, TypeOK, settingVars
<1>5. LimitsBounded' /\ CallsShaped'
  BY <1>3 DEF RateInv, LimitsBounded, CallsShaped, settingVars
<1> QED  BY <1>4, <1>5 DEF RateInv

LEMMA CallKeeps ==
    ASSUME RateInv, NEW u \in Users, NEW op \in Ops, checkRateLimit(u, op)
    PROVE  RateInv'
<1> DEFINE p == passes[u][op]
           c == userStates[u][op].requestCount
           s == userStates[u][op].windowStart
<1>1. now \in Nat /\ p \in Seq(Nat) /\ c \in Nat /\ s \in Nat /\ s <= now /\ Shape(p, c, s, now)
  BY WindowFacts
<1>2. UNCHANGED <<now, settingVars>>
  BY DEF checkRateLimit
<1>3. CASE Unconfigured(u, op)
  <2>1. lastRequestTime' \in [Users -> [Ops -> Nat]]
    BY <1>1, <1>3 DEF Unconfigured, RateInv, TypeOK
  <2> QED  BY <1>2, <1>3, <2>1
           DEF Unconfigured, RateInv, TypeOK, LimitsBounded, CallsShaped, settingVars
<1>4. CASE FirstOfWindow(u, op)
  <2>1. s + configs[op].timeWindow <= now /\ configs[op].timeWindow >= W
        /\ configs[op].timeWindow \in Nat
    BY <1>4, <1>1, WindowFacts DEF FirstOfWindow, WindowOver, WindowEnd
  <2>2. Shape(Append(p, now), 1, now, now)
    BY <1>1, <2>1, ShapeFirst
  <2>3. passes' = [passes EXCEPT ![u][op] = Append(p, now)]
        /\ userStates' = [userStates EXCEPT ![u][op] = [requestCount |-> 1, windowStart |-> now]]
        /\ lastRequestTime' = [lastRequestTime EXCEPT ![u][op] = now]
    BY <1>4 DEF FirstOfWindow, Counting
  <2>4. Append(p, now) \in Seq(Nat) /\ 1 \in Nat /\ now <= now
    BY <1>1
  <2> QED  BY <1>1, <1>2, <2>2, <2>3, <2>4, RecountKeeps
<1>5. CASE NextOfWindow(u, op)
  <2>1. c + 1 <= M
    BY <1>1, <1>5, WindowFacts, Bounds DEF NextOfWindow, WithinLimit
  <2>2. Shape(Append(p, now), c + 1, s, now)
    BY <1>1, <2>1, ShapeNext
  <2>3. passes' = [passes EXCEPT ![u][op] = Append(p, now)]
        /\ userStates' = [userStates EXCEPT ![u][op] = [requestCount |-> c + 1, windowStart |-> s]]
        /\ lastRequestTime' = [lastRequestTime EXCEPT ![u][op] = now]
    BY <1>5 DEF NextOfWindow, Counting
  <2>4. Append(p, now) \in Seq(Nat) /\ c + 1 \in Nat
    BY <1>1
  <2> QED  BY <1>1, <1>2, <2>2, <2>3, <2>4, RecountKeeps
<1> QED  BY <1>3, <1>4, <1>5 DEF checkRateLimit

LEMMA LimitStepKeeps == RateInv /\ LimitStep => RateInv'
<1> SUFFICES ASSUME RateInv, LimitStep PROVE RateInv'
  OBVIOUS
<1> USE DEF countVars
<1>1. ASSUME NEW op \in Ops, NEW limits \in LimitTables, NEW window \in Windows,
             setTieredLimit(op, limits, window)
      PROVE  RateInv'
  <2>1. window \in Nat /\ window # 0 /\ window >= W
    BY <1>1, WindowsAssumption DEF setTieredLimit, W
  <2>2. configs' \in [Ops -> [timeWindow : Nat, enabled : BOOLEAN]]
        /\ \A other \in Ops : configs'[other].enabled =>
              configs'[other].timeWindow # 0 /\ configs'[other].timeWindow >= W
    BY <1>1, <2>1 DEF setTieredLimit, RateInv, TypeOK, LimitsBounded
  <2>3. tieredLimits' \in [Ops -> [Tiers -> Nat]]
        /\ \A other \in Ops, tier \in Tiers : tieredLimits'[other][tier] <= M
    BY <1>1, TableTypes DEF setTieredLimit, RateInv, TypeOK, LimitsBounded
  <2> QED  BY <1>1, <2>2, <2>3
           DEF setTieredLimit, RateInv, TypeOK, LimitsBounded, CallsShaped
<1>2. ASSUME NEW op \in Ops, NEW limits \in LimitTables, setKeeperLimits(op, limits)
      PROVE  RateInv'
  <2>1. keeperLimits' \in [Ops -> [Tiers -> Nat]]
        /\ \A other \in Ops, tier \in Tiers : keeperLimits'[other][tier] <= M
    BY <1>2, TableTypes DEF setKeeperLimits, RateInv, TypeOK, LimitsBounded
  <2> QED  BY <1>2, <2>1 DEF setKeeperLimits, RateInv, TypeOK, LimitsBounded, CallsShaped
<1>3. ASSUME NEW op \in Ops, NEW limit \in GasLimits, setGasLimit(op, limit)
      PROVE  RateInv'
  <2>1. gasLimits' \in [Ops -> Nat]
    BY <1>3, WindowsAssumption DEF setGasLimit, RateInv, TypeOK
  <2> QED  BY <1>3, <2>1 DEF setGasLimit, RateInv, TypeOK, LimitsBounded, CallsShaped
<1> QED  BY <1>1, <1>2, <1>3 DEF LimitStep

LEMMA UserStepKeeps == RateInv /\ UserStep => RateInv'
<1> SUFFICES ASSUME RateInv, UserStep PROVE RateInv'
  OBVIOUS
<1> USE DEF countVars
<1>1. ASSUME NEW u \in Users, NEW tier \in Tiers, upgradeUserTier(u, tier)
      PROVE  RateInv'
  BY <1>1 DEF upgradeUserTier, RateInv, TypeOK, LimitsBounded, CallsShaped
<1>2. ASSUME NEW u \in Users, NEW status \in BOOLEAN, setWhitelist(u, status)
      PROVE  RateInv'
  BY <1>2 DEF setWhitelist, With, RateInv, TypeOK, LimitsBounded, CallsShaped
<1>3. ASSUME NEW u \in Users, NEW status \in BOOLEAN, setEmergencyBypass(u, status)
      PROVE  RateInv'
  BY <1>3 DEF setEmergencyBypass, With, RateInv, TypeOK, LimitsBounded, CallsShaped
<1>4. ASSUME NEW u \in Users, NEW status \in BOOLEAN, setKeeperStatus(u, status)
      PROVE  RateInv'
  BY <1>4 DEF setKeeperStatus, With, RateInv, TypeOK, LimitsBounded, CallsShaped
<1>5. ASSUME NEW u \in Users, NEW op \in Ops, resetRateLimitState(u, op)
      PROVE  RateInv'
  <2>1. now \in Nat /\ 0 <= now
    BY DEF RateInv, TypeOK
  <2>2. Shape(<< >>, 0, 0, now) /\ << >> \in Seq(Nat)
    BY <2>1, ShapeStart
  <2> QED  BY <1>5, <2>1, <2>2, RecountKeeps DEF resetRateLimitState, NoState
<1> QED  BY <1>1, <1>2, <1>3, <1>4, <1>5 DEF UserStep

LEMMA RateInvNext == RateInv /\ [Next]_vars => RateInv'
<1> SUFFICES ASSUME RateInv, [Next]_vars PROVE RateInv'
  OBVIOUS
<1>1. CASE CallStep
  BY <1>1, CallKeeps DEF CallStep
<1>2. CASE toggleGlobal
  BY <1>2 DEF toggleGlobal, countVars, RateInv, TypeOK, LimitsBounded, CallsShaped
<1>3. ASSUME NEW newAdmin \in Admins, transferAdmin(newAdmin)
      PROVE  RateInv'
  BY <1>3 DEF transferAdmin, countVars, RateInv, TypeOK, LimitsBounded, CallsShaped
<1>4. CASE Tick
  <2>1. now' = now + 1 /\ now \in Nat /\ UNCHANGED <<settingVars, countVars>>
    BY <1>4 DEF Tick, RateInv, TypeOK
  <2>2. ASSUME NEW u \in Users, NEW op \in Ops
        PROVE  /\ userStates[u][op].windowStart <= now + 1
               /\ Shape(passes[u][op], userStates[u][op].requestCount,
                        userStates[u][op].windowStart, now + 1)
    BY WindowFacts, ShapeTick
  <2> QED  BY <2>1, <2>2 DEF settingVars, countVars, RateInv, TypeOK, LimitsBounded, CallsShaped
<1>5. CASE UNCHANGED vars
  BY <1>5 DEF vars, settingVars, countVars, RateInv, TypeOK, LimitsBounded, CallsShaped
<1> QED  BY <1>1, <1>2, <1>3, <1>4, <1>5, LimitStepKeeps, UserStepKeeps DEF Next

-----------------------------------------------------------------------------
(* Every reachable state has the types the contract declares, no enabled    *)
(* operation has a window of no length and none starts in the future.       *)
THEOREM TypeCorrect == Spec => []TypeOK
<1>1. RateInv => TypeOK
  BY DEF RateInv
<1> QED  BY <1>1, RateInvInit, RateInvNext, PTL DEF Spec

(* However the admin changes tiers, limits, keepers and windows, bursts     *)
(* stay bounded: twice the largest limit of calls take a whole window.      *)
THEOREM BurstsStayBounded == Spec => []BurstBounded
<1>1. RateInv => BurstBounded
  BY DEF RateInv, CallsShaped, Shape, BurstBounded, M, W
<1> QED  BY <1>1, RateInvInit, RateInvNext, PTL DEF Spec

(* The view a client asks first answers as the check itself will.           *)
THEOREM ViewsNeverLie == Spec => []ViewsAgree
<1>1. ASSUME RateInv, NEW u \in Users, NEW op \in Ops
      PROVE  ViewAllows(u, op) <=> Passes(u, op)
  <2>1. userStates[u][op].requestCount < LimitForUser(u, op) <=> WithinLimit(u, op)
    BY <1>1, WindowFacts DEF WithinLimit
  <2> QED  BY <2>1 DEF ViewAllows, Passes, Limited
<1>2. RateInv => ViewsAgree
  BY <1>1 DEF ViewsAgree
<1> QED  BY <1>2, RateInvInit, RateInvNext, PTL DEF Spec

(* A refused caller is told the first moment at which the call passes.      *)
THEOREM RetryIsExact == Spec => []RetryAfterExact
<1>1. ASSUME RateInv, NEW u \in Users, NEW op \in Ops, ~ViewAllows(u, op)
      PROVE  /\ RetryAfter(u, op) > 0
             /\ WindowOver(u, op, now + RetryAfter(u, op))
             /\ \A wait \in 0..(RetryAfter(u, op) - 1) : ~WindowOver(u, op, now + wait)
  <2>1. now \in Nat /\ WindowEnd(u, op) \in Nat
    BY <1>1, WindowFacts DEF WindowEnd
  <2> QED  BY <1>1, <2>1 DEF ViewAllows, WindowOver, RetryAfter
<1>2. RateInv => RetryAfterExact
  BY <1>1 DEF RetryAfterExact
<1> QED  BY <1>2, RateInvInit, RateInvNext, PTL DEF Spec

(* What the two views tell a client is right in every reachable state.      *)
THEOREM ViewsAreExact == Spec => []ViewsExact
  BY ViewsNeverLie, RetryIsExact, PTL DEF ViewsExact

-----------------------------------------------------------------------------
(* Only a counted call adds to a user's calls.                              *)
LEMMA GrowsByCounting ==
    ASSUME RateInv, [Next]_vars, NEW u \in Users, NEW op \in Ops,
           Len(passes'[u][op]) > Len(passes[u][op])
    PROVE  /\ FirstOfWindow(u, op) \/ NextOfWindow(u, op)
           /\ UNCHANGED <<now, settingVars>>
<1>1. ASSUME NEW v \in Users, NEW other \in Ops, checkRateLimit(v, other)
      PROVE  FirstOfWindow(u, op) \/ NextOfWindow(u, op)
  <2>1. passes \in [Users -> [Ops -> Seq(Nat)]]
    BY DEF RateInv, TypeOK
  <2>2. ~Unconfigured(v, other)
    BY DEF Unconfigured
  <2>3. passes' = [passes EXCEPT ![v][other] = Append(@, now)]
    BY <1>1, <2>2 DEF checkRateLimit, FirstOfWindow, NextOfWindow, Counting
  <2>4. v = u /\ other = op
    <3>1. CASE ~(v = u /\ other = op)
      <4>1. passes'[u][op] = passes[u][op]
        BY <2>1, <2>3, <3>1
      <4> QED  BY <2>1, <4>1
    <3> QED  BY <3>1
  <2> QED  BY <1>1, <2>2, <2>4 DEF checkRateLimit
<1>2. CASE CallStep
  BY <1>1, <1>2 DEF CallStep, checkRateLimit
<1>3. ASSUME NEW v \in Users, NEW other \in Ops, resetRateLimitState(v, other) PROVE FALSE
  <2>1. passes' = [passes EXCEPT ![v][other] = << >>] /\ passes \in [Users -> [Ops -> Seq(Nat)]]
    BY <1>3 DEF resetRateLimitState, RateInv, TypeOK
  <2>2. passes'[u][op] = passes[u][op] \/ passes'[u][op] = << >>
    BY <2>1
  <2>3. passes[u][op] \in Seq(Nat)
    BY <2>1
  <2> QED  BY <2>2, <2>3
<1>4. CASE UNCHANGED passes
  BY <1>4, WindowFacts
<1>5. LimitStep => UNCHANGED passes
  BY DEF LimitStep, setTieredLimit, setKeeperLimits, setGasLimit, countVars
<1>6. UserStep => UNCHANGED passes
  BY <1>3 DEF UserStep, upgradeUserTier, setWhitelist, setEmergencyBypass, setKeeperStatus, countVars
<1>7. toggleGlobal \/ Tick \/ UNCHANGED vars => UNCHANGED passes
  BY DEF toggleGlobal, Tick, countVars, vars
<1>8. \A newAdmin \in Admins : transferAdmin(newAdmin) => UNCHANGED passes
  BY DEF transferAdmin, countVars
<1> QED  BY <1>2, <1>4, <1>5, <1>6, <1>7, <1>8 DEF Next

(* What the contract tells a user is left goes down by exactly one with     *)
(* every call it counts, into the next window as well.                      *)
THEOREM RemainingIsSpent == Spec => RemainingCountsDown
<1>1. ASSUME RateInv, [Next]_vars, NEW u \in Users, NEW op \in Ops,
             Len(passes'[u][op]) > Len(passes[u][op])
      PROVE  Remaining(u, op)' = (IF Remaining(u, op) = 0 THEN 0 ELSE Remaining(u, op) - 1)
  <2>1. FirstOfWindow(u, op) \/ NextOfWindow(u, op)
    BY <1>1, GrowsByCounting
  <2>2. UNCHANGED <<now, settingVars>>
    BY <1>1, GrowsByCounting
  <2>3. LimitForUser(u, op)' = LimitForUser(u, op)
    BY <2>2 DEF settingVars, LimitForUser
  <2>4. /\ userStates \in [Users -> [Ops -> [requestCount : Nat, windowStart : Nat]]]
        /\ userStates[u][op].requestCount \in Nat /\ userStates[u][op].windowStart \in Nat
        /\ configs[op].timeWindow \in Nat
        /\ configs[op].enabled => configs[op].timeWindow >= W
        /\ LimitForUser(u, op) \in Nat /\ now \in Nat
    BY <1>1, WindowFacts DEF RateInv, TypeOK
  <2>5. CASE FirstOfWindow(u, op)
    <3>1. userStates'[u][op] = [requestCount |-> 1, windowStart |-> now]
      BY <2>4, <2>5 DEF FirstOfWindow, Counting
    <3>2. WindowEnd(u, op)' = now + configs[op].timeWindow /\ now' = now
      BY <2>2, <3>1 DEF WindowEnd, settingVars
    <3>3. ~WindowOver(u, op, now)'
      <4>1. ~(now >= now + configs[op].timeWindow)
        <5>1. configs[op].timeWindow >= 1
          BY <2>4, <2>5, Bounds DEF FirstOfWindow
        <5> QED  BY <2>4, <5>1
      <4> QED  BY <3>2, <4>1 DEF WindowOver
    <3>4. Remaining(u, op) = LimitForUser(u, op)
      BY <2>5 DEF FirstOfWindow, Remaining
    <3>5. Remaining(u, op)' = IF 1 >= LimitForUser(u, op) THEN 0 ELSE LimitForUser(u, op) - 1
      BY <2>3, <3>1, <3>3 DEF Remaining
    <3>6. \A n \in Nat : (IF 1 >= n THEN 0 ELSE n - 1) = (IF n = 0 THEN 0 ELSE n - 1)
      OBVIOUS
    <3> QED  BY <2>4, <3>4, <3>5, <3>6
  <2>6. CASE NextOfWindow(u, op)
    <3> DEFINE c == userStates[u][op].requestCount
    <3>1. userStates'[u][op] = [requestCount |-> c + 1, windowStart |-> userStates[u][op].windowStart]
      BY <2>4, <2>6 DEF NextOfWindow, Counting
    <3>2. WindowEnd(u, op)' = WindowEnd(u, op) /\ now' = now
      BY <2>2, <3>1 DEF WindowEnd, settingVars
    <3>3. ~WindowOver(u, op, now)' /\ ~WindowOver(u, op, now)
      BY <2>6, <3>2 DEF WindowOver, NextOfWindow
    <3>4. Remaining(u, op) = IF c >= LimitForUser(u, op) THEN 0 ELSE LimitForUser(u, op) - c
      BY <3>3 DEF Remaining
    <3>5. Remaining(u, op)' = IF c + 1 >= LimitForUser(u, op) THEN 0 ELSE LimitForUser(u, op) - (c + 1)
      BY <2>3, <3>1, <3>3 DEF Remaining
    <3>6. c \in Nat
      BY <2>4
    <3> HIDE DEF c
    <3> QED  BY <2>4, <3>4, <3>5, <3>6
  <2> QED  BY <2>1, <2>5, <2>6
<1>2. RateInv /\ [Next]_vars =>
        [ \A u \in Users, op \in Ops :
            Len(passes'[u][op]) > Len(passes[u][op]) =>
              Remaining(u, op)' = (IF Remaining(u, op) = 0 THEN 0 ELSE Remaining(u, op) - 1) ]_vars
  BY <1>1
<1> QED  BY <1>2, RateInvInit, RateInvNext, PTL DEF Spec, RemainingCountsDown

-----------------------------------------------------------------------------
(* ROLES                                                                    *)

(* Every role of the registry, in a list.                                   *)
RoleList == <<"OWNER", "ADMIN", "GUARDIAN", "PAUSER", "UPGRADER", "KEEPER", "LIQUIDATOR",
     "ORACLE_UPDATER", "MARKET_MAKER", "FEE_MANAGER", "BASKET_MANAGER", "EVENT_SETTLER",
     "TRADING_OPERATOR", "VAULT_OPERATOR", "RISK_MANAGER">>

LEMMA RolesFinite == IsFiniteSet(Roles) /\ IsFiniteSet(Accounts)
<1>1. IsFiniteSet(1..15)
  <2>1. 1 \in Int /\ 15 \in Int
    OBVIOUS
  <2> QED  BY <2>1, FS_Interval, Zenon
<1>2. RoleList \in Surjection(1..15, AllRoles)
  BY DEF RoleList, Surjection, AllRoles, AdministeredRoles
<1>3. IsFiniteSet(AllRoles)
  BY <1>1, <1>2, FS_Surjection
<1> QED  BY <1>3, FS_Subset, RolesAssumption, OwnerAssumption

(* A list without repetition is no longer than the set it is made of.       *)
LEMMA ShortLists ==
    ASSUME NEW T, IsFiniteSet(T), NEW q \in Seq(T), IsInjective(q)
    PROVE  q \in BoundedSeq(T, Cardinality(T))
<1>1. Len(q) \in Nat /\ q \in [1..Len(q) -> T] /\ DOMAIN q = 1..Len(q)
  OBVIOUS
<1>2. q \in Injection(1..Len(q), T)
  BY <1>1 DEF Injection, IsInjective
<1>3. Cardinality(1..Len(q)) = Len(q)
  BY <1>1, FS_Interval
<1>4. Len(q) <= Cardinality(T) /\ Cardinality(T) \in Nat
  BY <1>2, <1>3, FS_Injection, FS_CardinalityType
<1>5. Len(q) \in 0..Cardinality(T)
  BY <1>1, <1>4
<1> QED  BY <1>1, <1>5 DEF BoundedSeq, SeqOf

(* What a call works on, in types.                                          *)
Ledgers == [roles : [Roles -> SUBSET Accounts], accountRoles : [Accounts -> Seq(Roles)],
            roleMembers : [Roles -> Seq(Accounts)], ok : BOOLEAN]

(* The two lists of b name the pairs of its map, each once.                 *)
SameStory(b) ==
    /\ \A a \in Accounts :
          /\ IsInjective(b.accountRoles[a])
          /\ ToSet(b.accountRoles[a]) = { role \in Roles : a \in b.roles[role] }
    /\ \A role \in Roles :
          /\ IsInjective(b.roleMembers[role])
          /\ ToSet(b.roleMembers[role]) = b.roles[role]

(* d is b with the one pair (role, account) set to held.                    *)
OnePair(b, d, role, account, held) ==
    \A q \in Roles, a \in Accounts :
        a \in d.roles[q] <=> IF q = role /\ a = account THEN held ELSE a \in b.roles[q]

(* The lists of d against those of b: one account's and one role's changed. *)
LEMMA OnePairTold ==
    ASSUME NEW b \in Ledgers, NEW d \in Ledgers, SameStory(b),
           NEW role \in Roles, NEW account \in Accounts, NEW held \in BOOLEAN,
           OnePair(b, d, role, account, held),
           \A a \in Accounts : a # account => d.accountRoles[a] = b.accountRoles[a],
           \A q \in Roles : q # role => d.roleMembers[q] = b.roleMembers[q],
           IsInjective(d.accountRoles[account]), IsInjective(d.roleMembers[role]),
           ToSet(d.accountRoles[account]) = 
               IF held THEN ToSet(b.accountRoles[account]) \cup {role}
               ELSE ToSet(b.accountRoles[account]) \ {role},
           ToSet(d.roleMembers[role]) = 
               IF held THEN ToSet(b.roleMembers[role]) \cup {account}
               ELSE ToSet(b.roleMembers[role]) \ {account}
    PROVE  SameStory(d)
<1>1. ASSUME NEW a \in Accounts
      PROVE  /\ IsInjective(d.accountRoles[a])
             /\ ToSet(d.accountRoles[a]) = { q \in Roles : a \in d.roles[q] }
  <2>1. CASE a = account
    <3>1. ToSet(b.accountRoles[a]) = { q \in Roles : a \in b.roles[q] }
      BY DEF SameStory
    <3>2. \A q \in Roles : a \in d.roles[q] <=> IF q = role THEN held ELSE a \in b.roles[q]
      BY <2>1 DEF OnePair
    <3> QED  BY <2>1, <3>1, <3>2
  <2>2. CASE a # account
    <3>1. ToSet(b.accountRoles[a]) = { q \in Roles : a \in b.roles[q] } /\ IsInjective(b.accountRoles[a])
      BY DEF SameStory
    <3>2. \A q \in Roles : a \in d.roles[q] <=> a \in b.roles[q]
      BY <2>2 DEF OnePair
    <3>3. d.accountRoles[a] = b.accountRoles[a]
      BY <2>2
    <3> QED  BY <3>1, <3>2, <3>3
  <2> QED  BY <2>1, <2>2
<1>2. ASSUME NEW q \in Roles
      PROVE  IsInjective(d.roleMembers[q]) /\ ToSet(d.roleMembers[q]) = d.roles[q]
  <2>0. b.roles[q] \subseteq Accounts /\ d.roles[q] \subseteq Accounts
    BY DEF Ledgers
  <2>1. ToSet(b.roleMembers[q]) = b.roles[q] /\ IsInjective(b.roleMembers[q])
    BY DEF SameStory
  <2>2. CASE q = role
    <3>1. \A a \in Accounts : a \in d.roles[q] <=> IF a = account THEN held ELSE a \in b.roles[q]
      BY <2>2 DEF OnePair
    <3> QED  BY <2>0, <2>1, <2>2, <3>1
  <2>3. CASE q # role
    <3>1. \A a \in Accounts : a \in d.roles[q] <=> a \in b.roles[q]
      BY <2>3 DEF OnePair
    <3>2. d.roles[q] = b.roles[q]
      BY <2>0, <3>1
    <3>3. d.roleMembers[q] = b.roleMembers[q]
      BY <2>3
    <3> QED  BY <2>1, <3>2, <3>3
  <2> QED  BY <2>2, <2>3
<1> QED  BY <1>1, <1>2 DEF SameStory

LEMMA GrantingFields ==
    ASSUME NEW b \in Ledgers, NEW role \in Roles, NEW account \in Accounts,
           account \notin b.roles[role]
    PROVE  LET d == Granting(b, role, account)
           IN  /\ d.roles = [b.roles EXCEPT ![role] = b.roles[role] \cup {account}]
               /\ d.accountRoles = [b.accountRoles EXCEPT ![account] = Append(b.accountRoles[account], role)]
               /\ d.roleMembers = [b.roleMembers EXCEPT ![role] = Append(b.roleMembers[role], account)]
               /\ d.ok = b.ok
               /\ d = [roles |-> d.roles, accountRoles |-> d.accountRoles,
                       roleMembers |-> d.roleMembers, ok |-> d.ok]
  BY DEF Granting, Ledgers

LEMMA GrantingKeeps ==
    ASSUME NEW b \in Ledgers, SameStory(b), NEW role \in Roles, NEW account \in Accounts
    PROVE  LET d == Granting(b, role, account)
           IN  /\ d \in Ledgers /\ SameStory(d)
               /\ account \in b.roles[role] => d.roles = b.roles /\ ~d.ok
               /\ account \notin b.roles[role] => OnePair(b, d, role, account, TRUE) /\ d.ok = b.ok
<1> DEFINE d == Granting(b, role, account)
<1>0. /\ b.roles \in [Roles -> SUBSET Accounts] /\ b.accountRoles \in [Accounts -> Seq(Roles)]
      /\ b.roleMembers \in [Roles -> Seq(Accounts)] /\ b.ok \in BOOLEAN
  BY DEF Ledgers
<1>1. CASE account \in b.roles[role]
  <2>1. d = Reverted(b)
    BY <1>1 DEF Granting
  <2>2. /\ d.roles = b.roles /\ d.accountRoles = b.accountRoles /\ d.roleMembers = b.roleMembers
        /\ d.ok = FALSE /\ d \in Ledgers
    BY <2>1 DEF Reverted, Ledgers
  <2> HIDE DEF d
  <2>3. SameStory(d)
    BY <2>2 DEF SameStory
  <2> QED  BY <1>1, <2>2, <2>3 DEF d
<1>2. CASE account \notin b.roles[role]
  <2>1. /\ d.roles = [b.roles EXCEPT ![role] = b.roles[role] \cup {account}]
        /\ d.accountRoles = [b.accountRoles EXCEPT ![account] = Append(b.accountRoles[account], role)]
        /\ d.roleMembers = [b.roleMembers EXCEPT ![role] = Append(b.roleMembers[role], account)]
        /\ d.ok = b.ok
        /\ d = [roles |-> d.roles, accountRoles |-> d.accountRoles,
                roleMembers |-> d.roleMembers, ok |-> d.ok]
    BY <1>2, GrantingFields
  <2> HIDE DEF d
  <2>2. /\ b.accountRoles[account] \in Seq(Roles) /\ IsInjective(b.accountRoles[account])
        /\ role \notin ToSet(b.accountRoles[account])
    BY <1>0, <1>2 DEF SameStory
  <2>3. /\ b.roleMembers[role] \in Seq(Accounts) /\ IsInjective(b.roleMembers[role])
        /\ account \notin ToSet(b.roleMembers[role])
    BY <1>0, <1>2 DEF SameStory
  <2>4. /\ Append(b.accountRoles[account], role) \in Seq(Roles)
        /\ IsInjective(Append(b.accountRoles[account], role))
        /\ ToSet(Append(b.accountRoles[account], role)) = ToSet(b.accountRoles[account]) \cup {role}
    BY <2>2, AppendExact
  <2>5. /\ Append(b.roleMembers[role], account) \in Seq(Accounts)
        /\ IsInjective(Append(b.roleMembers[role], account))
        /\ ToSet(Append(b.roleMembers[role], account)) = ToSet(b.roleMembers[role]) \cup {account}
    BY <2>3, AppendExact
  <2>6. /\ d.roles \in [Roles -> SUBSET Accounts] /\ d.accountRoles \in [Accounts -> Seq(Roles)]
        /\ d.roleMembers \in [Roles -> Seq(Accounts)]
    BY <1>0, <2>1, <2>4, <2>5
  <2>7. d \in Ledgers
    BY <1>0, <2>1, <2>6 DEF Ledgers
  <2>8. OnePair(b, d, role, account, TRUE)
    BY <1>0, <2>1 DEF OnePair
  <2>9. /\ d.accountRoles[account] = Append(b.accountRoles[account], role)
        /\ d.roleMembers[role] = Append(b.roleMembers[role], account)
        /\ \A a \in Accounts : a # account => d.accountRoles[a] = b.accountRoles[a]
        /\ \A q \in Roles : q # role => d.roleMembers[q] = b.roleMembers[q]
    BY <1>0, <2>1
  <2>10. SameStory(d)
    BY <2>4, <2>5, <2>7, <2>8, <2>9, OnePairTold
  <2> QED  BY <1>2, <2>1, <2>7, <2>8, <2>10 DEF d
<1> QED  BY <1>1, <1>2

(* An entry that is in the list leaves it by swap and pop.                  *)
LEMMA SwappedOutExact ==
    ASSUME NEW T, NEW q \in Seq(T), IsInjective(q), NEW e \in ToSet(q)
    PROVE  /\ SwappedOut(q, e) \in Seq(T) /\ IsInjective(SwappedOut(q, e))
           /\ ToSet(SwappedOut(q, e)) = ToSet(q) \ {e}
<1> DEFINE matches == { i \in DOMAIN q : q[i] = e }
           first == CHOOSE i \in matches : \A j \in matches : i <= j
<1>1. DOMAIN q = 1..Len(q) /\ Len(q) \in Nat
  OBVIOUS
<1>2. PICK at \in 1..Len(q) : q[at] = e
  BY <1>1 DEF ToSet
<1>3. matches = {at}
  BY <1>1, <1>2 DEF IsInjective
<1> HIDE DEF matches
<1>4. first = at
  <2>1. at \in matches /\ \A j \in matches : at <= j
    BY <1>2, <1>3
  <2> QED  BY <1>3, <2>1
<1>5. SwappedOut(q, e) = SwapPop(q, first)
  BY <1>3 DEF SwappedOut, SwapPop, matches
<1> HIDE DEF first
<1>6. SwappedOut(q, e) = SwapPop(q, at)
  BY <1>4, <1>5
<1> QED  BY <1>2, <1>6, SwapAndPop

LEMMA RevokingFields ==
    ASSUME NEW b \in Ledgers, NEW role \in Roles, NEW account \in Accounts,
           account \in b.roles[role]
    PROVE  LET d == Revoking(b, role, account)
           IN  /\ d.roles = [b.roles EXCEPT ![role] = b.roles[role] \ {account}]
               /\ d.accountRoles = [b.accountRoles EXCEPT ![account] = SwappedOut(b.accountRoles[account], role)]
               /\ d.roleMembers = [b.roleMembers EXCEPT ![role] = SwappedOut(b.roleMembers[role], account)]
               /\ d.ok = b.ok
               /\ d = [roles |-> d.roles, accountRoles |-> d.accountRoles,
                       roleMembers |-> d.roleMembers, ok |-> d.ok]
  BY DEF Revoking, Ledgers

LEMMA RevokingKeeps ==
    ASSUME NEW b \in Ledgers, SameStory(b), NEW role \in Roles, NEW account \in Accounts
    PROVE  LET d == Revoking(b, role, account)
           IN  /\ d \in Ledgers /\ SameStory(d) /\ OnePair(b, d, role, account, FALSE)
               /\ d.ok = b.ok
<1> DEFINE d == Revoking(b, role, account)
<1>0. /\ b.roles \in [Roles -> SUBSET Accounts] /\ b.accountRoles \in [Accounts -> Seq(Roles)]
      /\ b.roleMembers \in [Roles -> Seq(Accounts)] /\ b.ok \in BOOLEAN
  BY DEF Ledgers
<1>1. CASE account \notin b.roles[role]
  <2>1. d = b
    BY <1>1 DEF Revoking
  <2>2. OnePair(b, b, role, account, FALSE)
    BY <1>1 DEF OnePair
  <2> QED  BY <2>1, <2>2
<1>2. CASE account \in b.roles[role]
  <2>1. /\ d.roles = [b.roles EXCEPT ![role] = b.roles[role] \ {account}]
        /\ d.accountRoles = [b.accountRoles EXCEPT ![account] = SwappedOut(b.accountRoles[account], role)]
        /\ d.roleMembers = [b.roleMembers EXCEPT ![role] = SwappedOut(b.roleMembers[role], account)]
        /\ d.ok = b.ok
        /\ d = [roles |-> d.roles, accountRoles |-> d.accountRoles,
                roleMembers |-> d.roleMembers, ok |-> d.ok]
    BY <1>2, RevokingFields
  <2> HIDE DEF d
  <2>2. /\ b.accountRoles[account] \in Seq(Roles) /\ IsInjective(b.accountRoles[account])
        /\ role \in ToSet(b.accountRoles[account])
    BY <1>0, <1>2 DEF SameStory
  <2>3. /\ b.roleMembers[role] \in Seq(Accounts) /\ IsInjective(b.roleMembers[role])
        /\ account \in ToSet(b.roleMembers[role])
    BY <1>0, <1>2 DEF SameStory
  <2>4. /\ SwappedOut(b.accountRoles[account], role) \in Seq(Roles)
        /\ IsInjective(SwappedOut(b.accountRoles[account], role))
        /\ ToSet(SwappedOut(b.accountRoles[account], role)) = ToSet(b.accountRoles[account]) \ {role}
    BY <2>2, SwappedOutExact
  <2>5. /\ SwappedOut(b.roleMembers[role], account) \in Seq(Accounts)
        /\ IsInjective(SwappedOut(b.roleMembers[role], account))
        /\ ToSet(SwappedOut(b.roleMembers[role], account)) = ToSet(b.roleMembers[role]) \ {account}
    BY <2>3, SwappedOutExact
  <2>6. /\ d.roles \in [Roles -> SUBSET Accounts] /\ d.accountRoles \in [Accounts -> Seq(Roles)]
        /\ d.roleMembers \in [Roles -> Seq(Accounts)]
    BY <1>0, <2>1, <2>4, <2>5
  <2>7. d \in Ledgers
    BY <1>0, <2>1, <2>6 DEF Ledgers
  <2>8. OnePair(b, d, role, account, FALSE)
    BY <1>0, <2>1 DEF OnePair
  <2>9. /\ d.accountRoles[account] = SwappedOut(b.accountRoles[account], role)
        /\ d.roleMembers[role] = SwappedOut(b.roleMembers[role], account)
        /\ \A a \in Accounts : a # account => d.accountRoles[a] = b.accountRoles[a]
        /\ \A q \in Roles : q # role => d.roleMembers[q] = b.roleMembers[q]
    BY <1>0, <2>1
  <2>10. SameStory(d)
    BY <2>4, <2>5, <2>7, <2>8, <2>9, OnePairTold
  <2> QED  BY <1>2, <2>1, <2>7, <2>8, <2>10 DEF d
<1> QED  BY <1>1, <1>2

RolesInv ==
    /\ Membership \in Ledgers /\ SameStory(Membership)
    /\ roleAdmins \in [Roles -> Roles]
    /\ owner \in Accounts /\ pendingOwner \in Accounts \cup {NoAddress}

ControlsTyped ==
    /\ addresses \in [Slots -> Addresses]
    /\ protocolPaused \in BOOLEAN /\ emergencyWithdrawalEnabled \in BOOLEAN
    /\ heldETH \in 0..MaxFunds /\ heldTokens \in 0..MaxFunds

LEMMA RolesInvShows == RolesInv /\ ControlsTyped => RolesConsistent
<1> SUFFICES ASSUME RolesInv, ControlsTyped PROVE RolesConsistent
  OBVIOUS
<1>1. /\ roles \in [Roles -> SUBSET Accounts] /\ accountRoles \in [Accounts -> Seq(Roles)]
      /\ roleMembers \in [Roles -> Seq(Accounts)]
  BY DEF RolesInv, Membership, Ledgers
<1>2. ListsMatchRoles
  BY <1>1 DEF RolesInv, SameStory, Membership, ListsMatchRoles, hasRole
<1>3. \A a \in Accounts : accountRoles[a] \in BoundedSeq(Roles, Cardinality(Roles))
  BY <1>1, <1>2, RolesFinite, ShortLists DEF ListsMatchRoles
<1>4. \A q \in Roles : roleMembers[q] \in BoundedSeq(Accounts, Cardinality(Accounts))
  BY <1>1, <1>2, RolesFinite, ShortLists DEF ListsMatchRoles
<1>5. AccessTypeOK
  BY <1>1, <1>3, <1>4 DEF AccessTypeOK, RolesInv
<1> QED  BY <1>2, <1>5 DEF RolesConsistent, OwnerTypeOK, ControlsTyped

LEMMA ChainUp ==
    ASSUME roleAdmins \in [Roles -> Roles], NEW role \in Roles
    PROVE  /\ roleAdmins[role] \in AdminChain(role)
           /\ AdminChain(roleAdmins[role]) \subseteq AdminChain(role)
<1>1. roleAdmins[role] \in AdminChain(role)
  BY DEF AdminChain
<1>2. ASSUME NEW r \in AdminChain(roleAdmins[role]) PROVE r \in AdminChain(role)
  <2>1. SUFFICES ASSUME NEW S \in SUBSET Roles, roleAdmins[role] \in S,
                        \A s \in S : roleAdmins[s] \in S
                 PROVE  r \in S
    BY <1>2 DEF AdminChain
  <2>2. roleAdmins[roleAdmins[role]] \in S
    BY <2>1
  <2> QED  BY <1>2, <2>1, <2>2 DEF AdminChain
<1> QED  BY <1>1, <1>2

(* Whoever holds a role in b and not in the current state has somebody up   *)
(* its chain who held a role before.                                        *)
FromTheChain(b) ==
    \A role \in Roles, a \in Accounts :
        a \in b.roles[role] /\ a \notin roles[role] => \E r \in AdminChain(role) : roles[r] # {}

(* What a call can make of the records, one grant or revocation at a time.  *)
Reachable == { b \in Ledgers : SameStory(b) /\ FromTheChain(b) }

LEMMA MembershipReachable == RolesInv => Membership \in Reachable
  BY DEF RolesInv, Reachable, FromTheChain, Membership

LEMMA GrantReaches ==
    ASSUME RolesInv, NEW b \in Reachable, NEW c \in Accounts, NEW role \in Roles,
           NEW account \in Accounts, Administers(b, c, role)
    PROVE  Granting(b, role, account) \in Reachable
<1> DEFINE d == Granting(b, role, account)
<1>0. b \in Ledgers /\ SameStory(b) /\ FromTheChain(b) /\ roleAdmins \in [Roles -> Roles]
  BY DEF Reachable, RolesInv
<1>1. /\ d \in Ledgers /\ SameStory(d)
      /\ account \in b.roles[role] => d.roles = b.roles
      /\ account \notin b.roles[role] => OnePair(b, d, role, account, TRUE)
  BY <1>0, GrantingKeeps
<1> HIDE DEF d
<1>2. \E r \in AdminChain(role) : roles[r] # {}
  <2>1. c \in b.roles[roleAdmins[role]] /\ roleAdmins[role] \in Roles
    BY <1>0 DEF Administers
  <2>2. CASE c \in roles[roleAdmins[role]]
    BY <1>0, <2>2, ChainUp
  <2>3. CASE c \notin roles[roleAdmins[role]]
    <3>1. \E r \in AdminChain(roleAdmins[role]) : roles[r] # {}
      BY <1>0, <2>1, <2>3 DEF FromTheChain
    <3> QED  BY <1>0, <3>1, ChainUp
  <2> QED  BY <2>2, <2>3
<1>3. FromTheChain(d)
  <2>1. SUFFICES ASSUME NEW q \in Roles, NEW a \in Accounts, a \in d.roles[q], a \notin roles[q]
                 PROVE  \E r \in AdminChain(q) : roles[r] # {}
    BY DEF FromTheChain
  <2>2. CASE a \in b.roles[q]
    BY <1>0, <2>1, <2>2 DEF FromTheChain
  <2>3. CASE a \notin b.roles[q]
    <3>1. q = role
      BY <1>1, <2>1, <2>3 DEF OnePair
    <3> QED  BY <1>2, <3>1
  <2> QED  BY <2>2, <2>3
<1> QED  BY <1>1, <1>3 DEF Reachable, d

LEMMA RevokeReaches ==
    ASSUME NEW b \in Reachable, NEW role \in Roles, NEW account \in Accounts
    PROVE  Revoking(b, role, account) \in Reachable
<1> DEFINE d == Revoking(b, role, account)
<1>0. b \in Ledgers /\ SameStory(b) /\ FromTheChain(b)
  BY DEF Reachable
<1>1. d \in Ledgers /\ SameStory(d) /\ OnePair(b, d, role, account, FALSE)
  BY <1>0, RevokingKeeps
<1> HIDE DEF d
<1>2. FromTheChain(d)
  <2>1. \A q \in Roles, a \in Accounts : a \in d.roles[q] => a \in b.roles[q]
    BY <1>1 DEF OnePair
  <2> QED  BY <1>0, <2>1 DEF FromTheChain
<1> QED  BY <1>1, <1>2 DEF Reachable, d

LEMMA RevertReaches == ASSUME NEW b \in Reachable PROVE Reverted(b) \in Reachable
<1>1. /\ Reverted(b) \in Ledgers /\ Reverted(b).roles = b.roles
      /\ Reverted(b).accountRoles = b.accountRoles /\ Reverted(b).roleMembers = b.roleMembers
  BY DEF Reachable, Ledgers, Reverted
<1>2. SameStory(b) /\ FromTheChain(b)
  BY DEF Reachable
<1> QED  BY <1>1, <1>2 DEF Reachable, SameStory, FromTheChain

-----------------------------------------------------------------------------
(* The two batch calls, turn by turn.                                       *)

GrantTurn(c, b, e) ==
    IF b.ok /\ Administers(b, c, e[1]) THEN Granting(b, e[1], e[2]) ELSE Reverted(b)

RevokeTurn(c, b, e) ==
    IF b.ok /\ Administers(b, c, e[1]) /\ c # e[2] THEN Revoking(b, e[1], e[2]) ELSE Reverted(b)

LEMMA GrantTurnReaches ==
    ASSUME RolesInv, NEW c \in Accounts, NEW b \in Reachable, NEW e \in Roles \X Accounts
    PROVE  GrantTurn(c, b, e) \in Reachable
  BY GrantReaches, RevertReaches DEF GrantTurn

LEMMA RevokeTurnReaches ==
    ASSUME NEW c \in Accounts, NEW b \in Reachable, NEW e \in Roles \X Accounts
    PROVE  RevokeTurn(c, b, e) \in Reachable
  BY RevokeReaches, RevertReaches DEF RevokeTurn

LEMMA BatchEntries ==
    ASSUME NEW entries \in Batches
    PROVE  Len(entries) \in Nat /\ \A k \in 1..Len(entries) : entries[k] \in Roles \X Accounts
  BY BatchAssumption DEF Batches

LEMMA GrantBatchReaches ==
    ASSUME RolesInv, NEW c \in Accounts, NEW entries \in Batches, batchGrantRoles(c, entries)
    PROVE  \E b \in Reachable : Commit(b)
<1> DEFINE n == Len(entries)
           turn == [p \in Reachable \X (1..n) |-> GrantTurn(c, p[1], entries[p[2]])]
           after == CHOOSE after : after = [k \in 0..n |->
                        IF k = 0 THEN Membership ELSE GrantTurn(c, after[k - 1], entries[k])]
<1>1. n \in Nat /\ \A k \in 1..n : entries[k] \in Roles \X Accounts
  BY BatchEntries
<1>2. Commit(after[n])
  BY DEF batchGrantRoles, InTurn, GrantTurn
<1> HIDE DEF n
<1>3. StepsIn(Reachable, n, turn)
  BY <1>1, GrantTurnReaches DEF StepsIn
<1>4. \A b \in Reachable, k \in 1..n : turn[<<b, k>>] = GrantTurn(c, b, entries[k])
  OBVIOUS
<1> HIDE DEF turn
<1>5. PICK g : RunsFrom(Membership, Reachable, n, turn, g)
  BY <1>3, LoopRuns, MembershipReachable
<1>6. g = [k \in 0..n |-> IF k = 0 THEN Membership ELSE GrantTurn(c, g[k - 1], entries[k])]
  <2>1. \A k \in 1..n : k - 1 \in 0..n
    BY <1>1
  <2>2. \A k \in 1..n : g[k] = GrantTurn(c, g[k - 1], entries[k])
    BY <1>4, <1>5, <2>1 DEF RunsFrom
  <2> QED  BY <1>1, <1>5, <2>2 DEF RunsFrom
<1>7. after = [k \in 0..n |-> IF k = 0 THEN Membership ELSE GrantTurn(c, after[k - 1], entries[k])]
  BY <1>6
<1> HIDE DEF after
<1>8. after[0] = Membership /\ \A k \in 1..n : after[k] = GrantTurn(c, after[k - 1], entries[k])
  <2>1. 0 \in 0..n /\ \A k \in 1..n : k \in 0..n /\ k # 0
    BY <1>1
  <2> QED  BY <1>7, <2>1
<1>9. after[n] \in Reachable
  <2>1. ASSUME NEW k \in 1..n, after[k - 1] \in Reachable PROVE after[k] \in Reachable
    BY <1>1, <1>8, <2>1, GrantTurnReaches
  <2> QED  BY <1>1, <1>8, <2>1, MembershipReachable, LoopStays
<1> QED  BY <1>2, <1>9

LEMMA RevokeBatchReaches ==
    ASSUME RolesInv, NEW c \in Accounts, NEW entries \in Batches, batchRevokeRoles(c, entries)
    PROVE  \E b \in Reachable : Commit(b)
<1> DEFINE n == Len(entries)
           turn == [p \in Reachable \X (1..n) |-> RevokeTurn(c, p[1], entries[p[2]])]
           after == CHOOSE after : after = [k \in 0..n |->
                        IF k = 0 THEN Membership ELSE RevokeTurn(c, after[k - 1], entries[k])]
<1>1. n \in Nat /\ \A k \in 1..n : entries[k] \in Roles \X Accounts
  BY BatchEntries
<1>2. Commit(after[n])
  BY DEF batchRevokeRoles, InTurn, RevokeTurn
<1> HIDE DEF n
<1>3. StepsIn(Reachable, n, turn)
  BY <1>1, RevokeTurnReaches DEF StepsIn
<1>4. \A b \in Reachable, k \in 1..n : turn[<<b, k>>] = RevokeTurn(c, b, entries[k])
  OBVIOUS
<1> HIDE DEF turn
<1>5. PICK g : RunsFrom(Membership, Reachable, n, turn, g)
  BY <1>3, LoopRuns, MembershipReachable
<1>6. g = [k \in 0..n |-> IF k = 0 THEN Membership ELSE RevokeTurn(c, g[k - 1], entries[k])]
  <2>1. \A k \in 1..n : k - 1 \in 0..n
    BY <1>1
  <2>2. \A k \in 1..n : g[k] = RevokeTurn(c, g[k - 1], entries[k])
    BY <1>4, <1>5, <2>1 DEF RunsFrom
  <2> QED  BY <1>1, <1>5, <2>2 DEF RunsFrom
<1>7. after = [k \in 0..n |-> IF k = 0 THEN Membership ELSE RevokeTurn(c, after[k - 1], entries[k])]
  BY <1>6
<1> HIDE DEF after
<1>8. after[0] = Membership /\ \A k \in 1..n : after[k] = RevokeTurn(c, after[k - 1], entries[k])
  <2>1. 0 \in 0..n /\ \A k \in 1..n : k \in 0..n /\ k # 0
    BY <1>1
  <2> QED  BY <1>7, <2>1
<1>9. after[n] \in Reachable
  <2>1. ASSUME NEW k \in 1..n, after[k - 1] \in Reachable PROVE after[k] \in Reachable
    BY <1>1, <1>8, <2>1, RevokeTurnReaches
  <2> QED  BY <1>1, <1>8, <2>1, MembershipReachable, LoopStays
<1> QED  BY <1>2, <1>9

-----------------------------------------------------------------------------
(* Every step of the access manager is one of three: the records commit to  *)
(* something reachable, ownership is handed over, or they stay as they are. *)

Committed(b) == Commit(b) /\ UNCHANGED <<roleAdmins, owner, pendingOwner>>

Settles ==
    /\ UNCHANGED membershipVars
    /\ \/ \E change \in AdminChanges :
              /\ roleAdmins' = [roleAdmins EXCEPT ![change[1]] = change[2]]
              /\ UNCHANGED <<owner, pendingOwner>>
       \/ pendingOwner' \in Accounts /\ UNCHANGED <<roleAdmins, owner>>

LEMMA AccessStepIs ==
    ASSUME RolesInv, AccessStep
    PROVE  \/ \E b \in Reachable : Committed(b)
           \/ \E c \in Accounts : acceptOwnership(c)
           \/ Settles
<1> DEFINE Goal == \/ \E b \in Reachable : Committed(b)
                   \/ \E c \in Accounts : acceptOwnership(c)
                   \/ Settles
<1>0. Membership \in Reachable
  BY MembershipReachable
<1>1. ASSUME NEW c \in Accounts, NEW a \in Accounts, NEW role \in Roles, grantRole(c, role, a)
      PROVE  Goal
  BY <1>0, <1>1, GrantReaches DEF grantRole, Committed
<1>2. ASSUME NEW c \in Accounts, NEW a \in Accounts, NEW role \in Roles, revokeRole(c, role, a)
      PROVE  Goal
  BY <1>0, <1>2, RevokeReaches DEF revokeRole, Committed
<1>3. ASSUME NEW c \in Accounts, NEW role \in Roles, renounceRole(c, role)
      PROVE  Goal
  BY <1>0, <1>3, RevokeReaches DEF renounceRole, Committed
<1>4. ASSUME NEW c \in Accounts, NEW entries \in Batches, batchGrantRoles(c, entries)
      PROVE  Goal
  <2>1. UNCHANGED <<roleAdmins, owner, pendingOwner>>
    BY <1>4, Zenon DEF batchGrantRoles
  <2> QED  BY <1>4, <2>1, GrantBatchReaches DEF Committed
<1>5. ASSUME NEW c \in Accounts, NEW entries \in Batches, batchRevokeRoles(c, entries)
      PROVE  Goal
  <2>1. UNCHANGED <<roleAdmins, owner, pendingOwner>>
    BY <1>5, Zenon DEF batchRevokeRoles
  <2> QED  BY <1>5, <2>1, RevokeBatchReaches DEF Committed
<1>6. ASSUME NEW c \in Accounts, NEW change \in AdminChanges, setRoleAdmin(c, change[1], change[2])
      PROVE  Goal
  BY <1>6 DEF setRoleAdmin, Settles, membershipVars
<1>7. ASSUME NEW c \in Accounts, NEW a \in Accounts \cup {NoAddress}, transferOwnership(c, a)
      PROVE  Goal
  BY <1>7 DEF transferOwnership, Settles, membershipVars
<1> QED  BY <1>1, <1>2, <1>3, <1>4, <1>5, <1>6, <1>7 DEF AccessStep

(* What committing b leaves in the variables.                               *)
LEMMA CommitLeaves ==
    ASSUME NEW b \in Ledgers, SameStory(b), Commit(b)
    PROVE  /\ Membership' \in Ledgers /\ SameStory(Membership')
           /\ roles' = b.roles /\ b.ok
<1>1. Membership' = [roles |-> b.roles, accountRoles |-> b.accountRoles,
                     roleMembers |-> b.roleMembers, ok |-> TRUE]
  BY DEF Commit, Membership
<1> QED  BY <1>1 DEF Commit, Ledgers, SameStory

LEMMA HandingOver ==
    ASSUME RolesInv, NEW c \in Accounts, acceptOwnership(c)
    PROVE  /\ Membership' \in Ledgers /\ SameStory(Membership')
           /\ pendingOwner \in Accounts /\ owner' = pendingOwner /\ pendingOwner' = NoAddress
           /\ roleAdmins' = roleAdmins
           /\ \A q \in Roles, a \in Accounts : a \in roles'[q] <=>
                  IF q = "OWNER" THEN a = pendingOwner \/ (a \in roles[q] /\ a # owner)
                  ELSE a \in roles[q]
<1> DEFINE b == Revoking(Membership, "OWNER", owner)
           d == Granting(b, "OWNER", pendingOwner)
<1>0. "OWNER" \in Roles /\ owner \in Accounts /\ Membership \in Ledgers /\ SameStory(Membership)
  BY RolesAssumption DEF RolesInv
<1>1. pendingOwner \in Accounts /\ owner' = pendingOwner /\ pendingOwner' = NoAddress
      /\ roleAdmins' = roleAdmins /\ Commit(d)
  BY DEF acceptOwnership, HandedOver
<1>2. b \in Ledgers /\ SameStory(b) /\ OnePair(Membership, b, "OWNER", owner, FALSE)
  BY <1>0, RevokingKeeps
<1> HIDE DEF b
<1>3. /\ d \in Ledgers /\ SameStory(d)
      /\ pendingOwner \in b.roles["OWNER"] => ~d.ok
      /\ pendingOwner \notin b.roles["OWNER"] => OnePair(b, d, "OWNER", pendingOwner, TRUE)
  BY <1>0, <1>1, <1>2, GrantingKeeps
<1> HIDE DEF d
<1>4. /\ Membership' \in Ledgers /\ SameStory(Membership') /\ roles' = d.roles /\ d.ok
  BY <1>1, <1>3, CommitLeaves
<1>5. Membership.roles = roles
  BY DEF Membership
<1>6. OnePair(b, d, "OWNER", pendingOwner, TRUE)
  BY <1>3, <1>4
<1>7. ASSUME NEW q \in Roles, NEW a \in Accounts
      PROVE  a \in d.roles[q] <=>
                  IF q = "OWNER" THEN a = pendingOwner \/ (a \in roles[q] /\ a # owner)
                  ELSE a \in roles[q]
  BY <1>2, <1>5, <1>6 DEF OnePair
<1> QED  BY <1>1, <1>4, <1>7

LEMMA RolesInvInit == OwnerInit => RolesInv /\ ControlsTyped
<1> SUFFICES ASSUME OwnerInit PROVE RolesInv /\ ControlsTyped
  OBVIOUS
<1>1. FirstOwner \in Accounts /\ "OWNER" \in Roles /\ \A role \in Roles : InitialRoleAdmin(role) \in Roles
  BY OwnerAssumption, RolesAssumption
<1>2. /\ roles \in [Roles -> SUBSET Accounts] /\ accountRoles \in [Accounts -> Seq(Roles)]
      /\ roleMembers \in [Roles -> Seq(Accounts)] /\ roleAdmins \in [Roles -> Roles]
      /\ owner \in Accounts /\ pendingOwner \in Accounts \cup {NoAddress}
  BY <1>1 DEF OwnerInit, AccessInit
<1>3. Membership \in Ledgers
  BY <1>2 DEF Membership, Ledgers
<1>4. ASSUME NEW T, NEW e \in T
      PROVE  /\ IsInjective(<<e>>) /\ ToSet(<<e>>) = {e}
             /\ IsInjective(<< >>) /\ ToSet(<< >>) = {}
  BY DEF IsInjective, ToSet
<1>5. ASSUME NEW a \in Accounts
      PROVE  IsInjective(accountRoles[a]) /\ ToSet(accountRoles[a]) = { role \in Roles : a \in roles[role] }
  <2>1. accountRoles[a] = IF a = FirstOwner THEN <<"OWNER">> ELSE << >>
    BY DEF OwnerInit, AccessInit
  <2>2. \A role \in Roles : a \in roles[role] <=> role = "OWNER" /\ a = FirstOwner
    BY DEF OwnerInit, AccessInit
  <2>3. CASE a = FirstOwner
    BY <1>1, <1>4, <2>1, <2>2, <2>3
  <2>4. CASE a # FirstOwner
    BY <1>1, <1>4, <2>1, <2>2, <2>4
  <2> QED  BY <2>3, <2>4
<1>6. ASSUME NEW role \in Roles
      PROVE  IsInjective(roleMembers[role]) /\ ToSet(roleMembers[role]) = roles[role]
  <2>1. /\ roleMembers[role] = IF role = "OWNER" THEN <<FirstOwner>> ELSE << >>
        /\ roles[role] = IF role = "OWNER" THEN {FirstOwner} ELSE {}
    BY DEF OwnerInit, AccessInit
  <2>2. CASE role = "OWNER"
    BY <1>1, <1>4, <2>1, <2>2
  <2>3. CASE role # "OWNER"
    BY <1>1, <1>4, <2>1, <2>3
  <2> QED  BY <2>2, <2>3
<1>7. SameStory(Membership)
  BY <1>5, <1>6 DEF SameStory, Membership
<1>8. ControlsTyped
  <2>1. addresses \in [Slots -> Addresses] /\ protocolPaused = FALSE /\ emergencyWithdrawalEnabled = FALSE
    BY AddressesAssumption DEF OwnerInit
  <2>2. heldETH = MaxFunds /\ heldTokens = MaxFunds
    BY DEF OwnerInit
  <2>3. MaxFunds \in 0..MaxFunds
    BY FundsAssumption
  <2> QED  BY <2>1, <2>2, <2>3 DEF ControlsTyped
<1> QED  BY <1>2, <1>3, <1>7, <1>8 DEF RolesInv

LEMMA AccessStepKeeps == RolesInv /\ AccessStep => RolesInv'
<1> SUFFICES ASSUME RolesInv, AccessStep PROVE RolesInv'
  OBVIOUS
<1>0. /\ roleAdmins \in [Roles -> Roles] /\ owner \in Accounts
      /\ pendingOwner \in Accounts \cup {NoAddress}
  BY DEF RolesInv
<1>1. ASSUME NEW b \in Reachable, Committed(b) PROVE RolesInv'
  <2>1. Membership' \in Ledgers /\ SameStory(Membership')
    BY <1>1, CommitLeaves DEF Committed, Reachable
  <2> QED  BY <1>0, <1>1, <2>1 DEF RolesInv, Committed
<1>2. ASSUME NEW c \in Accounts, acceptOwnership(c) PROVE RolesInv'
  BY <1>0, <1>2, HandingOver DEF RolesInv
<1>3. ASSUME Settles PROVE RolesInv'
  <2>1. Membership' = Membership
    BY <1>3 DEF Settles, Membership, membershipVars
  <2>2. /\ roleAdmins' \in [Roles -> Roles] /\ owner' \in Accounts
        /\ pendingOwner' \in Accounts \cup {NoAddress}
    BY <1>0, <1>3, RolesAssumption DEF Settles
  <2> QED  BY <2>1, <2>2 DEF RolesInv
<1> QED  BY <1>1, <1>2, <1>3, AccessStepIs

LEMMA OwnerStepFrame == OwnerStep => UNCHANGED accessVars /\ \E c \in Accounts : onlyOwner(c)
  BY DEF OwnerStep, setAddress, toggleProtocolPause, setEmergencyWithdrawal, recoverFunds, recoverETH

LEMMA OwnerStepKeeps == ControlsTyped /\ OwnerStep => ControlsTyped'
<1> SUFFICES ASSUME ControlsTyped, OwnerStep PROVE ControlsTyped'
  OBVIOUS
<1>1. ASSUME NEW c \in Accounts, NEW slot \in Slots, NEW a \in Addresses \cup {NoAddress},
             setAddress(c, slot, a)
      PROVE  ControlsTyped'
  BY <1>1 DEF setAddress, ControlsTyped
<1>2. ASSUME NEW c \in Accounts, toggleProtocolPause(c) PROVE ControlsTyped'
  BY <1>2 DEF toggleProtocolPause, ControlsTyped
<1>3. ASSUME NEW c \in Accounts, NEW enabled \in BOOLEAN, setEmergencyWithdrawal(c, enabled)
      PROVE  ControlsTyped'
  BY <1>3 DEF setEmergencyWithdrawal, ControlsTyped
<1>4. ASSUME NEW c \in Accounts, NEW to \in Addresses \cup {NoAddress}, NEW amount \in 1..MaxFunds,
             recoverFunds(c, to, amount)
      PROVE  ControlsTyped'
  BY <1>4, FundsAssumption DEF recoverFunds, ControlsTyped
<1>5. ASSUME NEW c \in Accounts, NEW to \in Addresses \cup {NoAddress}, NEW amount \in 1..MaxFunds,
             recoverETH(c, to, amount)
      PROVE  ControlsTyped'
  BY <1>5, FundsAssumption DEF recoverETH, ControlsTyped
<1> QED  BY <1>1, <1>2, <1>3, <1>4, <1>5 DEF OwnerStep

LEMMA RolesInvUnchanged == RolesInv /\ UNCHANGED accessVars => RolesInv'
<1> SUFFICES ASSUME RolesInv, UNCHANGED accessVars PROVE RolesInv'
  OBVIOUS
<1>1. Membership' = Membership /\ UNCHANGED <<roleAdmins, owner, pendingOwner>>
  BY DEF accessVars, membershipVars, Membership
<1> QED  BY <1>1 DEF RolesInv

LEMMA RolesInvNext == RolesInv /\ ControlsTyped /\ [OwnerNext]_ownerVars => (RolesInv /\ ControlsTyped)'
<1> SUFFICES ASSUME RolesInv, ControlsTyped, [OwnerNext]_ownerVars PROVE RolesInv' /\ ControlsTyped'
  OBVIOUS
<1>1. ASSUME UNCHANGED controlVars PROVE ControlsTyped'
  BY <1>1 DEF controlVars, ControlsTyped
<1>2. CASE AccessStep /\ UNCHANGED controlVars
  BY <1>1, <1>2, AccessStepKeeps
<1>3. CASE OwnerStep
  BY <1>3, OwnerStepKeeps, OwnerStepFrame, RolesInvUnchanged
<1>4. CASE UNCHANGED ownerVars
  BY <1>1, <1>4, RolesInvUnchanged DEF ownerVars
<1> QED  BY <1>2, <1>3, <1>4 DEF OwnerNext

LEMMA RolesInvHolds == OwnerSpec => [](RolesInv /\ ControlsTyped)
  BY RolesInvInit, RolesInvNext, PTL DEF OwnerSpec

(* The membership map and the two lists kept by swap-and-pop name the same  *)
(* pairs after any grants, removals, batches and hand-overs.                *)
THEOREM ListsFollowTheMap == OwnerSpec => []RolesConsistent
  BY RolesInvHolds, RolesInvShows, PTL

(* With OWNER_ROLE held by nobody a proposed owner can accept.              *)
THEOREM OwnershipComesBack == OwnerSpec => []OwnershipRecovers
<1>1. RolesInv => OwnershipRecovers
  BY RolesAssumption
     DEF RolesInv, OwnershipRecovers, HandedOver, Revoking, Granting, Membership
<1> QED  BY <1>1, RolesInvHolds, PTL

(* A hand-over moves OWNER_ROLE from the old owner to the new one.          *)
THEOREM RoleGoesWithTheOwner == OwnerSpec => HandoverMovesRole
<1> DEFINE Moved == pendingOwner # NoAddress /\ pendingOwner' = NoAddress =>
                        /\ owner' = pendingOwner
                        /\ owner' \in roles'["OWNER"]
                        /\ owner # owner' => owner \notin roles'["OWNER"]
<1>1. ASSUME RolesInv, [OwnerNext]_ownerVars PROVE [Moved]_accessVars
  <2> SUFFICES ASSUME pendingOwner # NoAddress, pendingOwner' = NoAddress
               PROVE  /\ owner' = pendingOwner
                      /\ owner' \in roles'["OWNER"]
                      /\ owner # owner' => owner \notin roles'["OWNER"]
    OBVIOUS
  <2>1. AccessStep
    BY <1>1, OwnerStepFrame DEF OwnerNext, ownerVars, accessVars
  <2>2. PICK c \in Accounts : acceptOwnership(c) 
    <3>1. ~UNCHANGED pendingOwner
      OBVIOUS
    <3>2. \A b : ~Committed(b)
      BY <3>1 DEF Committed
    <3>3. ~Settles
      BY <3>1, OwnerAssumption DEF Settles
    <3> QED  BY <1>1, <2>1, <3>2, <3>3, AccessStepIs
  <2> QED  BY <1>1, <2>2, HandingOver, RolesAssumption DEF RolesInv
<1>2. [](RolesInv /\ ControlsTyped) /\ [][OwnerNext]_ownerVars => [][Moved]_accessVars
  BY <1>1, PTL
<1> QED  BY <1>2, RolesInvHolds, PTL DEF OwnerSpec, HandoverMovesRole

(* A role is gained down its admin chain, or by accepting ownership.        *)
THEOREM AuthorityComesFromTheChain == OwnerSpec => GrantsFollowTheChain
<1> DEFINE Followed ==
             \A role \in Roles, a \in Accounts :
                a \in roles'[role] \ roles[role] =>
                  \/ role = "OWNER" /\ a = pendingOwner /\ owner' = a
                  \/ \E r \in AdminChain(role) : roles[r] # {}
<1>1. ASSUME RolesInv, [OwnerNext]_ownerVars PROVE [Followed]_accessVars
  <2>1. CASE UNCHANGED accessVars
    BY <2>1
  <2>2. CASE AccessStep
    <3>1. ASSUME NEW b \in Reachable, Committed(b) PROVE Followed
      <4>1. FromTheChain(b) /\ roles' = b.roles
        BY <3>1 DEF Reachable, Committed, Commit
      <4> QED  BY <4>1 DEF FromTheChain
    <3>2. ASSUME NEW c \in Accounts, acceptOwnership(c) PROVE Followed
      BY <1>1, <3>2, HandingOver
    <3>3. ASSUME Settles PROVE Followed
      BY <3>3 DEF Settles, membershipVars
    <3> QED  BY <1>1, <2>2, <3>1, <3>2, <3>3, AccessStepIs
  <2> QED  BY <1>1, <2>1, <2>2, OwnerStepFrame DEF OwnerNext, ownerVars
<1>2. [](RolesInv /\ ControlsTyped) /\ [][OwnerNext]_ownerVars => [][Followed]_accessVars
  BY <1>1, PTL
<1> QED  BY <1>2, RolesInvHolds, PTL DEF OwnerSpec, GrantsFollowTheChain

(* While OWNER_ROLE has no holder nothing of ProtocolOwner moves.           *)
THEOREM NobodyOwnsNothingMoves == OwnerSpec => OwnerlessIsFrozen
<1> DEFINE Frozen == roles["OWNER"] = {} => UNCHANGED controlVars
<1>1. ASSUME [OwnerNext]_ownerVars PROVE [Frozen]_ownerVars
  BY <1>1, OwnerStepFrame DEF OwnerNext, onlyOwner, hasRole
<1> QED  BY <1>1, PTL DEF OwnerSpec, OwnerlessIsFrozen

=============================================================================
