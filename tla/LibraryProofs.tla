------------------------------ MODULE LibraryProofs ------------------------------
(***************************************************************************)
(* _sortQueue sorts: for arrays of any length and any scores, what the two  *)
(* loops leave is an arrangement of the entries they found, best first.     *)
(* And the libraries' formulas return what they are to: for words, scales,  *)
(* amounts, times and series of any size.                                   *)
(***************************************************************************)
EXTENDS Libraries, FoldLemmas, TLAPS

(* Two arrays hold the same entries: one is the other read through a        *)
(* bijection of its places.                                                 *)
Rearranges(p) ==
    /\ p \in Bijection(DOMAIN input, DOMAIN input)
    /\ queue = [k \in DOMAIN input |-> input[p[k]]]

Permuted == \E p \in Bijection(DOMAIN input, DOMAIN input) : Rearranges(p)

(* Places before i are final; place i holds the best of those compared.     *)
Settled == \A a \in 1..(i - 1), b \in 1..Len(queue) : a < b => queue[a].adlScore >= queue[b].adlScore

BestSoFar ==
    \A b \in (i + 1)..(j - 1) :
        b <= Len(queue) => queue[i].adlScore >= queue[b].adlScore

SortInv == TypeOK /\ Permuted /\ Settled /\ BestSoFar

-----------------------------------------------------------------------------
LEMMA InputsAreSequences == Inputs \subseteq Seq(Entries)
<1> SUFFICES ASSUME NEW s \in Inputs PROVE s \in Seq(Entries)
  OBVIOUS
<1>1. PICK n \in 0..MaxLen : s \in [1..n -> Entries]
  BY DEF Inputs
<1>2. n \in Nat
  BY LengthAssumption
<1> QED  BY <1>1, <1>2

(* Exchanging two places of a rearrangement gives a rearrangement.          *)
LEMMA SwapPermutes ==
    ASSUME NEW D, NEW p \in Bijection(D, D), NEW a \in D, NEW b \in D
    PROVE  Swapped(p, a, b) \in Bijection(D, D)
<1> DEFINE r == Swapped(p, a, b)
<1>1. p \in [D -> D] /\ (\A x, y \in D : p[x] = p[y] => x = y) /\ \A t \in D : \E x \in D : p[x] = t
  BY DEF Bijection, Injection, Surjection, IsInjective
<1>2. r \in [D -> D]
  BY <1>1 DEF Swapped
<1>3. \A x \in D : r[x] = IF x = b THEN p[a] ELSE IF x = a THEN p[b] ELSE p[x]
  BY <1>1 DEF Swapped
<1> HIDE DEF r
<1>4. \A x, y \in D : r[x] = r[y] => x = y
  BY <1>1, <1>3
<1>5. \A t \in D : \E x \in D : r[x] = t
  <2> SUFFICES ASSUME NEW t \in D PROVE \E x \in D : r[x] = t
    OBVIOUS
  <2>1. PICK x \in D : p[x] = t
    BY <1>1
  <2>2. CASE x = a
    BY <1>3, <2>1, <2>2
  <2>3. CASE x = b
    BY <1>3, <2>1, <2>3
  <2>4. CASE x # a /\ x # b
    BY <1>3, <2>1, <2>4
  <2> QED  BY <2>2, <2>3, <2>4
<1> QED  BY <1>2, <1>4, <1>5 DEF Bijection, Injection, Surjection, IsInjective, r

LEMMA SortInvInit == Init => SortInv
<1> SUFFICES ASSUME Init PROVE SortInv
  OBVIOUS
<1>1. input \in Seq(Entries) /\ queue = input /\ i = 1 /\ j = 2
  BY InputsAreSequences DEF Init
<1>2. TypeOK
  BY <1>1 DEF TypeOK
<1>3. Permuted
  <2> DEFINE p == [k \in DOMAIN input |-> k]
  <2>1. p \in Bijection(DOMAIN input, DOMAIN input)
    BY DEF Bijection, Injection, Surjection, IsInjective
  <2>2. queue = [k \in DOMAIN input |-> input[p[k]]]
    BY <1>1
  <2> QED  BY <2>1, <2>2 DEF Permuted, Rearranges
<1> QED  BY <1>1, <1>2, <1>3 DEF SortInv, Settled, BestSoFar

LEMMA CompareKeeps == SortInv /\ Compare => SortInv'
<1> SUFFICES ASSUME SortInv, Compare PROVE SortInv'
  OBVIOUS
<1> DEFINE n == Len(queue)
<1>1. /\ input \in Seq(Entries) /\ queue \in Seq(Entries) /\ Len(input) = n /\ n \in Nat
      /\ i \in 1..n /\ j \in (i + 1)..n
  BY DEF SortInv, TypeOK, Compare
<1>2. /\ queue' = (IF queue[j].adlScore > queue[i].adlScore
                   THEN [queue EXCEPT ![i] = queue[j], ![j] = queue[i]] ELSE queue)
      /\ j' = j + 1 /\ i' = i /\ input' = input
  BY DEF Compare, Exchanged, Swapped
<1>3. queue \in [1..n -> Entries] /\ queue' \in [1..n -> Entries]
  <2>1. queue \in [1..n -> Entries] /\ i \in 1..n /\ j \in 1..n
    BY <1>1
  <2> QED  BY <1>2, <2>1
<1>4. queue' \in Seq(Entries) /\ Len(queue') = n
  BY <1>1, <1>3
<1>5. TypeOK'
  BY <1>1, <1>2, <1>4 DEF TypeOK
<1>6. \A b \in 1..n : queue[b].adlScore \in Nat
  BY <1>3, EntriesAssumption
<1>7. Permuted'
  <2>1. PICK p \in Bijection(DOMAIN input, DOMAIN input) :
           queue = [k \in DOMAIN input |-> input[p[k]]]
    BY DEF SortInv, Permuted, Rearranges
  <2>2. DOMAIN input = 1..n
    BY <1>1
  <2>3. CASE queue' = queue
    BY <1>2, <2>1, <2>3 DEF Permuted, Rearranges
  <2>4. CASE queue' = [queue EXCEPT ![i] = queue[j], ![j] = queue[i]]
    <3> DEFINE r == Swapped(p, i, j)
    <3>1. r \in Bijection(DOMAIN input, DOMAIN input)
      <4>1. i \in DOMAIN input /\ j \in DOMAIN input
        BY <1>1, <2>2
      <4> QED  BY <2>1, <4>1, SwapPermutes
    <3>2. p \in [1..n -> 1..n]
      BY <2>1, <2>2 DEF Bijection, Injection
    <3>3. ASSUME NEW k \in 1..n PROVE queue'[k] = input[r[k]]
      <4>1. i \in 1..n /\ j \in 1..n
        BY <1>1
      <4>2. \A x \in 1..n : queue[x] = input[p[x]]
        BY <2>1, <2>2
      <4>3. queue'[k] = IF k = j THEN queue[i] ELSE IF k = i THEN queue[j] ELSE queue[k]
        BY <1>3, <2>4, <4>1
      <4>4. r[k] = IF k = j THEN p[i] ELSE IF k = i THEN p[j] ELSE p[k]
        BY <3>2, <4>1 DEF Swapped
      <4> QED  BY <4>1, <4>2, <4>3, <4>4
    <3>4. queue' = [k \in 1..n |-> input[r[k]]]
      BY <1>3, <3>3
    <3> HIDE DEF r
    <3> QED  BY <1>2, <2>2, <3>1, <3>4 DEF Permuted, Rearranges
  <2> QED  BY <1>2, <2>3, <2>4
<1>8. Settled'
  <2>1. ASSUME NEW a \in 1..(i - 1), NEW b \in 1..n, a < b
        PROVE  queue'[a].adlScore >= queue'[b].adlScore
    <3>1. a \in 1..n /\ queue'[a] = queue[a]
      <4>1. a \in 1..n /\ i \in 1..n /\ j \in 1..n /\ a # i /\ a # j
        BY <1>1
      <4> QED  BY <1>2, <1>3, <4>1
    <3>2. \A c \in 1..n : a < c => queue[a].adlScore >= queue[c].adlScore
      BY DEF SortInv, Settled
    <3>3. i \in 1..n /\ j \in 1..n /\ a < i /\ a < j
      BY <1>1
    <3>4. queue'[b] = queue[b] \/ queue'[b] = queue[i] \/ queue'[b] = queue[j]
      BY <1>2, <1>3, <3>3
    <3>5. \E c \in 1..n : a < c /\ queue'[b] = queue[c]
      BY <2>1, <3>3, <3>4
    <3> QED  BY <3>1, <3>2, <3>5
  <2> QED  BY <1>2, <1>4, <2>1 DEF Settled
<1>9. BestSoFar'
  <2>1. ASSUME NEW b \in (i + 1)..j
        PROVE  queue'[i].adlScore >= queue'[b].adlScore
    <3>1. \A c \in (i + 1)..(j - 1) : queue[i].adlScore >= queue[c].adlScore
      BY <1>1 DEF SortInv, BestSoFar
    <3>2. CASE b = j
      BY <1>1, <1>2, <1>3, <1>6, <3>2
    <3>3. CASE b # j
      <4>1. b \in (i + 1)..(j - 1) /\ b \in 1..n /\ queue'[b] = queue[b]
        BY <1>1, <1>2, <1>3, <3>3
      <4>2. queue'[i].adlScore >= queue[i].adlScore
        BY <1>1, <1>2, <1>3, <1>6
      <4>3. queue'[i].adlScore \in Nat
        BY <1>1, <1>3, EntriesAssumption
      <4> QED  BY <1>1, <1>6, <3>1, <4>1, <4>2, <4>3
    <3> QED  BY <3>2, <3>3
  <2>2. (j + 1) - 1 = j
    BY <1>1
  <2> QED  BY <1>2, <2>1, <2>2 DEF BestSoFar
<1> QED  BY <1>5, <1>7, <1>8, <1>9 DEF SortInv

LEMMA NextRowKeeps == SortInv /\ NextRow => SortInv'
<1> SUFFICES ASSUME SortInv, NextRow PROVE SortInv'
  OBVIOUS
<1> DEFINE n == Len(queue)
<1>1. /\ n \in Nat /\ i \in 1..n /\ (j = n + 1 \/ j = n + 2)
      /\ i' = i + 1 /\ j' = i + 2 /\ queue' = queue /\ input' = input
  BY DEF SortInv, TypeOK, NextRow
<1>2. TypeOK' /\ Permuted'
  BY <1>1 DEF SortInv, TypeOK, Permuted, Rearranges, NextRow
<1>3. Settled'
  <2>1. ASSUME NEW a \in 1..i, NEW b \in 1..n, a < b
        PROVE  queue[a].adlScore >= queue[b].adlScore
    <3>1. CASE a = i
      <4>1. b \in (i + 1)..(j - 1)
        BY <2>1, <3>1 DEF SortInv, TypeOK, NextRow
      <4> QED  BY <1>1, <3>1, <4>1 DEF SortInv, BestSoFar
    <3>2. CASE a # i
      <4>1. a \in 1..(i - 1)
        BY <1>1, <3>2 DEF SortInv, TypeOK
      <4> QED  BY <2>1, <4>1 DEF SortInv, Settled
    <3> QED  BY <3>1, <3>2
  <2>2. (i + 1) - 1 = i
    BY DEF SortInv, TypeOK
  <2> QED  BY <1>1, <2>1, <2>2 DEF Settled
<1>4. BestSoFar'
  BY <1>1 DEF BestSoFar, SortInv, TypeOK
<1> QED  BY <1>2, <1>3, <1>4 DEF SortInv

LEMMA SortInvHolds == Spec => []SortInv
<1>1. SortInv /\ [Next]_sortVars => SortInv'
  <2>1. SortInv /\ UNCHANGED sortVars => SortInv'
    BY DEF sortVars, SortInv, TypeOK, Permuted, Rearranges, Settled, BestSoFar
  <2> QED  BY <2>1, CompareKeeps, NextRowKeeps DEF Next
<1> QED  BY <1>1, SortInvInit, PTL DEF Spec

(* Counters stay within the array and the array keeps its length.           *)
THEOREM SortTypeCorrect == Spec => []TypeOK
<1>1. SortInv => TypeOK
  BY DEF SortInv
<1> QED  BY <1>1, SortInvHolds, PTL

(* What _sortQueue leaves is one of the arrangements AdlQueue lets a write  *)
(* leave: no entry lost or doubled, best score first.                       *)
THEOREM SortsCorrectly == Spec => []LeavesSortedArrangement
<1>1. ASSUME SortInv, Done PROVE queue \in SortedArrangements(input)
  <2>1. queue \in { [k \in DOMAIN input |-> input[p[k]]] : p \in Bijection(DOMAIN input, DOMAIN input) }
    BY <1>1 DEF SortInv, Permuted, Rearranges
  <2>2. DescendingByScore(queue)
    BY <1>1 DEF SortInv, TypeOK, Done, Settled, DescendingByScore
  <2> QED  BY <2>1, <2>2 DEF SortedArrangements
<1>2. SortInv => LeavesSortedArrangement
  BY <1>1 DEF LeavesSortedArrangement
<1> QED  BY <1>2, SortInvHolds, PTL

-----------------------------------------------------------------------------
(* PRODUCTS AND QUOTIENTS of words.                                         *)

(* A remainder of the product is not the product: divided by one factor it  *)
(* falls short of the other.                                                *)
LEMMA MulExact ==
    ASSUME NEW x \in 0..MaxUint, NEW y \in 0..MaxUint
    PROVE  FP!mul(x, y) = IF x * y < MaxUint THEN (x * y) \div Q96 ELSE Revert
<1>1. x \in Nat /\ y \in Nat /\ MaxUint \in Nat \ {0} /\ Q96 \in Nat \ {0}
  BY WordAssumption, ScaleAssumption
<1>2. CASE x = 0 \/ y = 0
  <2>1. x * y = 0
    BY <1>1, <1>2
  <2>2. 0 \div Q96 = 0
    BY <1>1
  <2> QED  BY <1>1, <1>2, <2>1, <2>2 DEF FP!mul
<1>3. CASE x # 0 /\ y # 0
  <2> DEFINE p == x * y
             mm == p % MaxUint
  <2>0. p \in Nat
    BY <1>1, ProductTypes
  <2>1. FP!mul(x, y) = IF mm \div x # y THEN Revert ELSE mm \div Q96
    BY <1>3 DEF FP!mul
  <2>2. mm \in 0..(MaxUint - 1)
    BY <1>1, <2>0
  <2>3. CASE p < MaxUint
    <3>1. mm = p
      <4> HIDE DEF p
      <4>1. MaxUint * 0 <= p /\ p < MaxUint * 0 + MaxUint
        BY <1>1, <2>0, <2>3
      <4> QED  BY <1>1, <2>0, <4>1, QuotientIs
    <3>2. p \div x = y
      <4>1. x * y <= p /\ p < x * y + x
        BY <1>1, <1>3, <2>0
      <4> HIDE DEF p
      <4> QED  BY <1>1, <1>3, <2>0, <4>1, QuotientIs
    <3> QED  BY <2>1, <2>3, <3>1, <3>2
  <2>4. CASE ~(p < MaxUint)
    <3>1. mm \div x # y
      <4> SUFFICES ASSUME mm \div x = y PROVE FALSE
        OBVIOUS
      <4>1. mm \in Nat /\ x \in Nat \ {0}
        BY <1>1, <1>3, <2>2
      <4> HIDE DEF mm
      <4>2. x * (mm \div x) <= mm
        BY <4>1, DivBounds
      <4>3. p <= mm
        BY <4>2
      <4> QED  BY <1>1, <2>0, <2>2, <2>4, <4>3
    <3> QED  BY <2>1, <2>4, <3>1
  <2> QED  BY <2>3, <2>4
<1> QED  BY <1>1, <1>2, <1>3

(* Rounding up: one more than the quotient, unless nothing is left over.    *)
LEMMA RoundedUp ==
    ASSUME NEW a \in Nat, NEW b \in Nat \ {0}
    PROVE  /\ ((a + b - 1) \div b) * b >= a
           /\ (a \div b) * b <= a
           /\ (a + b - 1) \div b - a \div b \in {0, 1}
<1> DEFINE q == a \div b
           r == a % b
           c == a + b - 1
<1>1. q \in Nat /\ r \in 0..(b - 1) /\ a = b * q + r
  BY DivBounds
<1>2. c \in Nat /\ c = a + b - 1
  OBVIOUS
<1> HIDE DEF q, r, c
<1>3. b * q = q * b /\ b * q \in Nat /\ b * (q + 1) = b * q + b /\ (q + 1) * b = b * q + b
  BY <1>1, ProductTypes
<1>4. c \div b = IF r = 0 THEN q ELSE q + 1
  <2>1. CASE r = 0
    <3>1. b * q <= c /\ c < b * q + b
      BY <1>1, <1>2, <1>3, <2>1
    <3> QED  BY <1>1, <1>2, <2>1, <3>1, QuotientIs
  <2>2. CASE r # 0
    <3>1. b * (q + 1) <= c /\ c < b * (q + 1) + b /\ q + 1 \in Int
      BY <1>1, <1>2, <1>3, <2>2
    <3> QED  BY <1>1, <1>2, <2>2, <3>1, QuotientIs
  <2> QED  BY <2>1, <2>2
<1>5. (c \div b) * b >= a /\ q * b <= a /\ c \div b - q \in {0, 1}
  BY <1>1, <1>3, <1>4
<1> QED  BY <1>5 DEF q, c

LEMMA MulUpExact ==
    ASSUME NEW x \in 1..MaxUint, NEW y \in 1..MaxUint, FP!mulUp(x, y) \notin {0, Revert}
    PROVE  /\ FP!mulUp(x, y) * Q96 >= x * y
           /\ (FP!mulUp(x, y) - 1) * Q96 < x * y
<1> DEFINE p == x * y
           down == FP!mul(x, y)
           up == FP!mulUp(x, y)
<1>1. x \in Nat /\ y \in Nat /\ MaxUint \in Nat \ {0} /\ Q96 \in Nat \ {0} /\ p \in Nat
  BY WordAssumption, ScaleAssumption, ProductTypes
<1>2. up = IF down \notin {0, Revert} /\ p % Q96 # 0 THEN down + 1 ELSE down
  BY DEF FP!mulUp
<1>3. down # Revert /\ down # 0
  BY <1>2
<1>4. down = p \div Q96
  <2>1. down = IF x * y < MaxUint THEN p \div Q96 ELSE Revert
    BY MulExact
  <2> QED  BY <1>3, <2>1
<1> DEFINE q == p \div Q96
           r == p % Q96
<1>5. q \in Nat /\ r \in 0..(Q96 - 1) /\ p = Q96 * q + r
  <2> HIDE DEF p
  <2> QED  BY <1>1, DivBounds
<1>6. up = IF r # 0 THEN q + 1 ELSE q
  BY <1>2, <1>3, <1>4
<1> HIDE DEF p, q, r, up, down
<1>7. Q96 * q = q * Q96 /\ q * Q96 \in Nat /\ (q + 1) * Q96 = q * Q96 + Q96 /\ (q - 1) * Q96 = q * Q96 - Q96
  BY <1>1, <1>5, ProductTypes
<1>8. up * Q96 >= p /\ (up - 1) * Q96 < p
  <2>1. CASE r # 0
    <3>1. up = q + 1 /\ up - 1 = q
      BY <1>5, <1>6, <2>1
    <3> QED  BY <1>1, <1>5, <1>7, <2>1, <3>1
  <2>2. CASE r = 0
    BY <1>1, <1>5, <1>6, <1>7, <2>2
  <2> QED  BY <2>1, <2>2
<1> QED  BY <1>8 DEF p, up

LEMMA DivUpExact ==
    ASSUME NEW x \in 1..MaxUint, NEW y \in 1..MaxUint, FP!divUp(x, y) # Revert
    PROVE  /\ FP!divUp(x, y) * y >= x * Q96
           /\ FP!div(x, y) * y <= x * Q96
           /\ FP!divUp(x, y) - FP!div(x, y) \in {0, 1}
<1> DEFINE a == x * Q96
<1>1. x \in Nat \ {0} /\ y \in Nat \ {0} /\ MaxUint \in Nat \ {0} /\ Q96 \in Nat \ {0} /\ a \in Nat
  BY WordAssumption, ScaleAssumption, ProductTypes
<1>2. a + y <= MaxUint /\ FP!divUp(x, y) = (a + y - 1) \div y
  BY <1>1 DEF FP!divUp
<1>3. FP!div(x, y) = a \div y
  <2> HIDE DEF a
  <2>1. FP!div(x, y) = IF a > MaxUint THEN Revert ELSE a \div y
    BY <1>1 DEF FP!div, a
  <2> QED  BY <1>1, <1>2, <2>1
<1> HIDE DEF a
<1>4. ((a + y - 1) \div y) * y >= a /\ (a \div y) * y <= a /\ (a + y - 1) \div y - a \div y \in {0, 1}
  BY <1>1, RoundedUp
<1> QED  BY <1>2, <1>3, <1>4 DEF a

-----------------------------------------------------------------------------
(* SQUARE ROOTS.                                                            *)

IsRoot(x, s) == s \in Nat /\ s * s <= x /\ (s + 1) * (s + 1) > x

(* Where the loop may end: at the root, or one above it if the quotient     *)
(* then is the root.                                                        *)
NearRoot(x, s, r) == r = s \/ (r = s + 1 /\ s * r <= x)

LEMMA RootExists == \A x \in Nat : \E s \in Nat : IsRoot(x, s)
<1> DEFINE N == { x \in Nat : \E s \in Nat : IsRoot(x, s) }
<1>1. 0 \in N
  BY DEF IsRoot
<1>2. ASSUME NEW x \in Nat, x \in N PROVE x + 1 \in N
  <2>1. PICK s \in Nat : IsRoot(x, s)
    BY <1>2
  <2>2. CASE (s + 1) * (s + 1) > x + 1
    <3>1. IsRoot(x + 1, s)
      BY <2>1, <2>2, ProductTypes DEF IsRoot
    <3> QED  BY <3>1
  <2>3. CASE ~((s + 1) * (s + 1) > x + 1)
    <3>1. (s + 1) * (s + 1) = s * s + 2 * s + 1 /\ (s + 2) * (s + 2) = s * s + 4 * s + 4
          /\ s * s \in Nat
      BY ProductTypes
    <3>2. (s + 1) * (s + 1) <= x + 1 /\ (s + 2) * (s + 2) > x + 1
      BY <2>1, <2>3, <3>1 DEF IsRoot
    <3>3. IsRoot(x + 1, s + 1)
      BY <3>2 DEF IsRoot
    <3> QED  BY <3>3
  <2> QED  BY <2>2, <2>3
<1>3. Nat \subseteq N
  <2> HIDE DEF N
  <2> QED  BY <1>1, <1>2, NatSetInduction
<1> QED  BY <1>3

(* A step never falls below the root: a number and its quotient are         *)
(* together at least twice the root.                                        *)
LEMMA StepAboveRoot ==
    ASSUME NEW x \in Nat \ {0}, NEW s \in Nat, IsRoot(x, s), NEW r \in Nat \ {0}
    PROVE  FP!BabylonianStep(x, r) \in Nat /\ FP!BabylonianStep(x, r) >= s
           /\ FP!BabylonianStep(x, r) >= 1
<1> DEFINE q == x \div r
           next == FP!BabylonianStep(x, r)
<1>1. q \in Nat /\ r * q <= x /\ x < r * q + r
  BY DivBounds
<1>2. next = (r + q) \div 2
  BY DEF FP!BabylonianStep
<1> HIDE DEF q, next
<1>3. next \in Nat /\ 2 * next <= r + q /\ r + q < 2 * next + 2
  BY <1>1, <1>2
<1>4. r + q >= 2 * s
  <2> SUFFICES ASSUME r + q < 2 * s PROVE FALSE
    BY <1>1
  <2>1. q + 1 <= 2 * s - r
    BY <1>1
  <2>2. (q + 1) * r <= (2 * s - r) * r
    BY <1>1, <2>1, ProductOrder
  <2>3. (2 * s - r) * r = s * s - (s - r) * (s - r) /\ (q + 1) * r = r * q + r
    BY <1>1
  <2>4. (s - r) * (s - r) >= 0
    <3>1. CASE s >= r
      BY <3>1, ProductTypes
    <3>2. CASE s < r
      <4>1. (r - s) * (r - s) >= 0
        BY <3>2, ProductTypes
      <4>2. (r - s) * (r - s) = (s - r) * (s - r)
        OBVIOUS
      <4> QED  BY <4>1, <4>2
    <3> QED  BY <3>1, <3>2
  <2>5. s * s <= x /\ s * s \in Int /\ (s - r) * (s - r) \in Int /\ r * q \in Int
    BY <1>1, ProductTypes DEF IsRoot
  <2> QED  BY <1>1, <2>2, <2>3, <2>4, <2>5
<1>5. next >= s
  BY <1>1, <1>3, <1>4
<1>6. next >= 1
  <2>1. CASE s = 0
    BY <2>1 DEF IsRoot
  <2>2. CASE s # 0
    BY <1>3, <1>5, <2>2
  <2> QED  BY <2>1, <2>2
<1> QED  BY <1>3, <1>5, <1>6 DEF next

LEMMA StopsAtRoot ==
    ASSUME NEW x \in Nat \ {0}, NEW s \in Nat, IsRoot(x, s),
           NEW r \in Nat \ {0}, r >= s,
           ~(FP!BabylonianStep(x, r) < r /\ r - FP!BabylonianStep(x, r) > 1)
    PROVE  NearRoot(x, s, FP!BabylonianStep(x, r))
<1> DEFINE q == x \div r
           next == FP!BabylonianStep(x, r)
<1>1. q \in Nat /\ r * q <= x /\ x < r * q + r
  BY DivBounds
<1>2. next = (r + q) \div 2 /\ ~(next < r /\ r - next > 1)
  BY DEF FP!BabylonianStep
<1>3. next >= s /\ next \in Nat
  BY StepAboveRoot
<1> HIDE DEF q, next
<1>4. 2 * next <= r + q /\ r + q < 2 * next + 2
  BY <1>1, <1>2
<1>5. s * s \in Nat /\ s * s <= x /\ x < s * s + 2 * s + 1
  <2>1. (s + 1) * (s + 1) = s * s + 2 * s + 1 /\ s * s \in Nat
    BY ProductTypes
  <2> QED  BY <2>1 DEF IsRoot
<1>6. CASE next >= r
  <2>1. q >= r
    BY <1>1, <1>3, <1>4, <1>6
  <2>2. r = s
    <3> SUFFICES ASSUME r >= s + 1 PROVE FALSE
      OBVIOUS
    <3>1. (s + 1) * r <= r * r /\ (s + 1) * (s + 1) <= r * (s + 1) /\ r * r <= q * r
      BY <1>1, <2>1, ProductOrder
    <3>2. q * r = r * q /\ r * (s + 1) = (s + 1) * r /\ q * r \in Int /\ r * r \in Int /\ (s + 1) * r \in Int
          /\ (s + 1) * (s + 1) = s * s + 2 * s + 1
      BY <1>1, ProductTypes
    <3> QED  BY <1>1, <1>5, <3>1, <3>2
  <2>3. s * q < s * (s + 3)
    <3>1. s * (s + 3) = s * s + 3 * s /\ s * q \in Int
      BY <1>1, ProductTypes
    <3> QED  BY <1>1, <1>5, <2>2, <3>1
  <2>4. q < s + 3
    BY <1>1, <2>2, <2>3, ProductCancel
  <2>5. CASE next = s
    BY <2>5 DEF NearRoot, next
  <2>6. CASE next # s
    <3>1. next = s + 1 /\ q = s + 2
      BY <1>1, <1>3, <1>4, <2>2, <2>4, <2>6
    <3>2. s * (s + 2) <= x
      BY <1>1, <2>2, <3>1
    <3>3. s * (s + 1) <= x
      <4>1. s * (s + 2) = s * (s + 1) + s /\ s * (s + 1) \in Int
        BY ProductTypes
      <4> QED  BY <3>2, <4>1
    <3> QED  BY <3>1, <3>3 DEF NearRoot, next
  <2> QED  BY <2>5, <2>6
<1>7. CASE next < r
  <2>1. next = r - 1 /\ r = next + 1
    BY <1>2, <1>3, <1>7
  <2>2. q >= next - 1
    BY <1>1, <1>3, <1>4, <2>1
  <2>3. (next - 1) * r <= q * r
    BY <1>1, <1>3, <2>2, ProductOrder
  <2>4. next * next - 1 <= x
    <3>1. (next - 1) * r = next * next - 1 /\ q * r = r * q
      BY <1>1, <1>3, <2>1
    <3>2. next * next \in Int /\ r * q \in Int
      BY <1>1, <1>3, ProductTypes
    <3> QED  BY <1>1, <2>3, <3>1, <3>2
  <2>5. next <= s + 1
    <3> SUFFICES ASSUME next >= s + 2 PROVE FALSE
      BY <1>3
    <3>1. (s + 2) * next <= next * next /\ (s + 2) * (s + 2) <= next * (s + 2)
      BY <1>3, ProductOrder
    <3>2. next * (s + 2) = (s + 2) * next /\ (s + 2) * (s + 2) = s * s + 4 * s + 4
          /\ next * next \in Int /\ (s + 2) * next \in Int
      BY <1>3, ProductTypes
    <3> QED  BY <1>5, <2>4, <3>1, <3>2
  <2>6. CASE next = s
    BY <2>6 DEF NearRoot, next
  <2>7. CASE next # s
    <3>1. next = s + 1
      BY <1>3, <2>5, <2>7
    <3>2. next * next = s * (s + 1) + s + 1 /\ s * (s + 1) \in Int
      BY <3>1, ProductTypes
    <3>3. s * (s + 1) <= x
      BY <2>4, <3>2
    <3> QED  BY <3>1, <3>3 DEF NearRoot, next
  <2> QED  BY <2>6, <2>7
<1> QED  BY <1>3, <1>6, <1>7

(* The loop as a function of the value it has come down to.                 *)
From(x, n, g) ==
    g = [r \in 1..n |->
            LET next == FP!BabylonianStep(x, r)
            IN  IF next < r /\ r - next > 1 THEN g[next] ELSE next]

LEMMA DescentRuns ==
    ASSUME NEW x \in Nat \ {0}
    PROVE  \E g : From(x, x, g)
<1> DEFINE N == { n \in Nat : \E g : From(x, n, g) }
<1>1. 0 \in N
  <2>1. From(x, 0, [r \in 1..0 |-> 0])
    BY DEF From
  <2> QED  BY <2>1
<1>2. ASSUME NEW n \in Nat, n \in N PROVE n + 1 \in N
  <2>1. PICK g : From(x, n, g)
    BY <1>2
  <2> DEFINE next(r) == FP!BabylonianStep(x, r)
             goes(r) == next(r) < r /\ r - next(r) > 1
             h == [r \in 1..(n + 1) |->
                     IF r <= n THEN g[r] ELSE IF goes(r) THEN g[next(r)] ELSE next(r)]
  <2>2. \A r \in 1..(n + 1) : next(r) \in Nat /\ next(r) >= 1
    <3>1. PICK s \in Nat : IsRoot(x, s)
      BY RootExists
    <3> QED  BY <3>1, StepAboveRoot
  <2>3. \A r \in 1..n : g[r] = IF goes(r) THEN g[next(r)] ELSE next(r)
    BY <2>1 DEF From
  <2> HIDE DEF next
  <2>4. ASSUME NEW r \in 1..(n + 1)
        PROVE  h[r] = IF goes(r) THEN h[next(r)] ELSE next(r)
    <3>1. goes(r) => next(r) \in 1..n
      BY <2>2
    <3>2. goes(r) => h[next(r)] = g[next(r)]
      BY <3>1
    <3>3. CASE r <= n
      BY <2>3, <3>2, <3>3
    <3>4. CASE ~(r <= n)
      BY <3>2, <3>4
    <3> QED  BY <3>3, <3>4
  <2>5. From(x, n + 1, h)
    <3>1. h = [r \in 1..(n + 1) |-> h[r]]
      OBVIOUS
    <3> HIDE DEF h
    <3>2. h = [r \in 1..(n + 1) |-> IF goes(r) THEN h[next(r)] ELSE next(r)]
      BY <2>4, <3>1
    <3> QED  BY <3>2 DEF From, next
  <2> QED  BY <2>5
<1>3. Nat \subseteq N
  <2> HIDE DEF N
  <2> QED  BY <1>1, <1>2, NatSetInduction
<1> QED  BY <1>3

LEMMA DescentEndsAtRoot ==
    ASSUME NEW x \in Nat \ {0}, NEW s \in Nat, IsRoot(x, s)
    PROVE  NearRoot(x, s, FP!Converged(x))
<1> DEFINE d == CHOOSE g : From(x, x, g)
           N == { n \in Nat : \A r \in 1..x : r <= n /\ r >= s => NearRoot(x, s, d[r]) }
<1>1. From(x, x, d)
  BY DescentRuns
<1>2. FP!Converged(x) = d[x]
  BY DEF FP!Converged, From
<1> HIDE DEF d
<1>3. \A r \in 1..x :
         d[r] = IF FP!BabylonianStep(x, r) < r /\ r - FP!BabylonianStep(x, r) > 1
                THEN d[FP!BabylonianStep(x, r)] ELSE FP!BabylonianStep(x, r)
  BY <1>1 DEF From
<1>4. 0 \in N
  OBVIOUS
<1>5. ASSUME NEW n \in Nat, n \in N PROVE n + 1 \in N
  <2> SUFFICES ASSUME NEW r \in 1..x, r = n + 1, r >= s PROVE NearRoot(x, s, d[r])
    BY <1>5
  <2>1. FP!BabylonianStep(x, r) \in Nat /\ FP!BabylonianStep(x, r) >= s
        /\ FP!BabylonianStep(x, r) >= 1
    BY StepAboveRoot
  <2>2. CASE FP!BabylonianStep(x, r) < r /\ r - FP!BabylonianStep(x, r) > 1
    <3>1. FP!BabylonianStep(x, r) \in 1..x /\ FP!BabylonianStep(x, r) <= n
      BY <2>1, <2>2
    <3>2. NearRoot(x, s, d[FP!BabylonianStep(x, r)])
      BY <1>5, <2>1, <3>1
    <3> QED  BY <1>3, <2>2, <3>2
  <2>3. CASE ~(FP!BabylonianStep(x, r) < r /\ r - FP!BabylonianStep(x, r) > 1)
    <3>1. NearRoot(x, s, FP!BabylonianStep(x, r))
      BY <2>3, StopsAtRoot
    <3> QED  BY <1>3, <2>3, <3>1
  <2> QED  BY <2>2, <2>3
<1>6. x \in N
  <2> HIDE DEF N
  <2> QED  BY <1>4, <1>5, NatSetInduction
<1>7. x >= s
  <2>1. CASE s = 0
    BY <2>1
  <2>2. CASE s # 0
    <3>1. 1 * s <= s * s
      BY <2>2, ProductOrder
    <3>2. s * s \in Int /\ s * s <= x
      BY ProductTypes DEF IsRoot
    <3> QED  BY <3>1, <3>2
  <2> QED  BY <2>1, <2>2
<1> QED  BY <1>2, <1>6, <1>7

LEMMA SqrtExact ==
    ASSUME NEW x \in 0..(MaxUint - 1)
    PROVE  IsRoot(x, FP!sqrt(x))
<1>1. x \in Nat /\ MaxUint \in Nat \ {0} /\ x # MaxUint
  BY WordAssumption
<1>2. CASE x = 0
  BY <1>2 DEF FP!sqrt, IsRoot
<1>3. CASE x # 0
  <2> DEFINE r == FP!Converged(x)
             q == x \div r
  <2>1. FP!sqrt(x) = IF r < q THEN r ELSE q
    BY <1>1, <1>3 DEF FP!sqrt
  <2>2. PICK s \in Nat : IsRoot(x, s)
    BY <1>1, RootExists
  <2>3. NearRoot(x, s, r)
    BY <1>1, <1>3, <2>2, DescentEndsAtRoot
  <2> HIDE DEF r
  <2>4. s * s \in Nat /\ s * s <= x /\ x < s * s + 2 * s + 1 /\ s >= 1
    <3>1. (s + 1) * (s + 1) = s * s + 2 * s + 1 /\ s * s \in Nat
      BY ProductTypes
    <3>2. s # 0
      BY <1>3, <2>2 DEF IsRoot
    <3> QED  BY <2>2, <3>1, <3>2 DEF IsRoot
  <2>5. CASE r = s
    <3>1. q \in Nat /\ s * q <= x /\ x < s * q + s
      BY <1>1, <2>4, <2>5, DivBounds
    <3> HIDE DEF q
    <3>2. s * s < s * (q + 1)
      <4>1. s * (q + 1) = s * q + s /\ s * q \in Int
        BY <3>1, ProductTypes
      <4> QED  BY <1>1, <2>4, <3>1, <4>1
    <3>3. s < q + 1
      BY <2>4, <3>1, <3>2, ProductCancel
    <3>4. FP!sqrt(x) = s
      BY <2>1, <2>5, <3>1, <3>3
    <3> QED  BY <2>2, <3>4
  <2>6. CASE r = s + 1 /\ s * r <= x
    <3>1. (s + 1) * s <= x /\ x < (s + 1) * s + (s + 1)
      <4>1. (s + 1) * s = s * s + s /\ s * (s + 1) = s * s + s
        OBVIOUS
      <4> QED  BY <1>1, <2>4, <2>6, <4>1
    <3>2. q = s
      BY <1>1, <2>4, <2>6, <3>1, QuotientIs
    <3>3. FP!sqrt(x) = s
      BY <2>1, <2>6, <3>2
    <3> QED  BY <2>2, <3>3
  <2> QED  BY <2>3, <2>5, <2>6 DEF NearRoot
<1> QED  BY <1>2, <1>3

-----------------------------------------------------------------------------
(* FEES, interest and gains.                                                *)

LEMMA FeeRoundTrip ==
    ASSUME NEW net \in Nat, NEW feeBps \in 0..(PERCENTAGE_FACTOR - 1)
    PROVE  LET gross == PC!amountBeforeFee(net, feeBps)
           IN  /\ PC!amountAfterFee(gross, feeBps) = net
               /\ PC!calculateFee(gross, feeBps) + net = gross
<1> DEFINE F == PERCENTAGE_FACTOR
           kept == F - feeBps
           gross == (net * F) \div kept
<1>1. F \in Nat \ {0} /\ kept \in Nat \ {0} /\ feeBps \in Nat /\ feeBps = F - kept
      /\ net * F \in Nat /\ kept <= F
  BY ScaleAssumption, ProductTypes
<1>2. PC!amountBeforeFee(net, feeBps) = gross
  BY <1>1 DEF PC!amountBeforeFee, PC!MAX_PERCENTAGE
<1>3. PC!calculateFee(gross, feeBps) = (gross * feeBps) \div F
      /\ PC!amountAfterFee(gross, feeBps) = gross - (gross * feeBps) \div F
  BY <1>1 DEF PC!calculateFee, PC!amountAfterFee, PC!subPercent, PC!percent, PC!MAX_PERCENTAGE
<1>4. gross \in Nat /\ kept * gross <= net * F /\ net * F < kept * gross + kept
  <2> HIDE DEF kept, F
  <2> QED  BY <1>1, DivBounds
<1> HIDE DEF gross, kept, F
<1>5. gross * feeBps = F * gross - kept * gross /\ F * (gross - net) = F * gross - net * F
      /\ kept * gross \in Nat /\ F * gross \in Nat /\ gross * feeBps \in Nat
  BY <1>1, <1>4, ProductTypes
<1>6. F * (gross - net) <= gross * feeBps /\ gross * feeBps < F * (gross - net) + F
  BY <1>1, <1>4, <1>5
<1> DEFINE fee == gross * feeBps
           rest == gross - net
<1>7. fee \in Nat /\ rest \in Int /\ F * rest <= fee /\ fee < F * rest + F
  BY <1>4, <1>5, <1>6
<1> HIDE DEF fee, rest
<1>8. fee \div F = rest
  BY <1>1, <1>7, QuotientIs
<1>9. (gross * feeBps) \div F = gross - net
  BY <1>8 DEF fee, rest
<1> QED  BY <1>2, <1>3, <1>4, <1>9

(* One period's interest.                                                   *)
Grown(amount, rate) == (amount * (PERCENTAGE_FACTOR + rate)) \div PERCENTAGE_FACTOR

Grows(principal, rate, n, g) ==
    g = [k \in 0..n |-> IF k = 0 THEN principal ELSE Grown(g[k - 1], rate)]

LEMMA GrownType ==
    ASSUME NEW amount \in Nat, NEW rate \in Nat
    PROVE  Grown(amount, rate) \in Nat
<1>1. PERCENTAGE_FACTOR \in Nat \ {0} /\ PERCENTAGE_FACTOR + rate \in Nat
  BY ScaleAssumption
<1>2. amount * (PERCENTAGE_FACTOR + rate) \in Nat
  BY <1>1, ProductTypes
<1> QED  BY <1>1, <1>2, DivTypes DEF Grown

LEMMA CompoundRuns ==
    ASSUME NEW principal \in Nat, NEW rate \in Nat, NEW n \in Nat
    PROVE  \E g \in [0..n -> Nat] :
              Grows(principal, rate, n, g) /\ PC!compound(principal, rate, n) = g[n]
<1> DEFINE step == [ss \in Nat \X (1..n) |-> Grown(ss[1], rate)]
           d == CHOOSE g : Grows(principal, rate, n, g)
<1>1. StepsIn(Nat, n, step)
  BY GrownType DEF StepsIn
<1>2. \A a \in Nat, k \in 1..n : step[<<a, k>>] = Grown(a, rate)
  OBVIOUS
<1> HIDE DEF step
<1>3. PICK g : RunsFrom(principal, Nat, n, step, g)
  BY <1>1, LoopRuns
<1>4. Grows(principal, rate, n, g)
  <2>1. g \in [0..n -> Nat] /\ g[0] = principal /\ \A k \in 1..n : g[k] = step[<<g[k - 1], k>>]
    BY <1>3 DEF RunsFrom
  <2>2. \A k \in 1..n : g[k] = Grown(g[k - 1], rate)
    <3>1. \A k \in 1..n : g[k - 1] \in Nat
      BY <2>1
    <3> QED  BY <1>2, <2>1, <3>1
  <2>3. \A k \in 0..n : g[k] = IF k = 0 THEN principal ELSE Grown(g[k - 1], rate)
    BY <2>1, <2>2
  <2>4. g = [k \in 0..n |-> g[k]]
    BY <2>1
  <2> QED  BY <2>3, <2>4 DEF Grows
<1>5. Grows(principal, rate, n, d)
  BY <1>4
<1>6. PC!compound(principal, rate, n) = d[n]
  BY DEF PC!compound, Grows, Grown
<1> HIDE DEF d
<1>7. d \in [0..n -> Nat]
  <2> DEFINE N == { k \in Nat : k <= n => d[k] \in Nat }
  <2>1. \A k \in 0..n : d[k] = IF k = 0 THEN principal ELSE Grown(d[k - 1], rate)
    BY <1>5 DEF Grows
  <2>2. 0 \in N
    BY <2>1
  <2>3. ASSUME NEW k \in Nat, k \in N PROVE k + 1 \in N
    <3> SUFFICES ASSUME k + 1 <= n PROVE d[k + 1] \in Nat
      OBVIOUS
    <3>1. d[k] \in Nat
      BY <2>3
    <3>2. d[k + 1] = Grown(d[k], rate)
      BY <2>1
    <3> QED  BY <3>1, <3>2, GrownType
  <2>4. Nat \subseteq N
    <3> HIDE DEF N
    <3> QED  BY <2>2, <2>3, NatSetInduction
  <2>5. \A k \in 0..n : d[k] \in Nat
    BY <2>4
  <2>6. d = [k \in 0..n |-> d[k]]
    BY <1>5 DEF Grows
  <2> QED  BY <2>5, <2>6
<1> QED  BY <1>5, <1>6, <1>7

LEMMA CompoundTurns ==
    ASSUME NEW principal \in Nat, NEW rate \in Nat, NEW n \in Nat
    PROVE  /\ PC!compound(principal, rate, n) \in Nat
           /\ PC!compound(principal, rate, 0) = principal
           /\ PC!compound(principal, rate, n + 1) = Grown(PC!compound(principal, rate, n), rate)
<1>1. PICK g \in [0..n -> Nat] :
         Grows(principal, rate, n, g) /\ PC!compound(principal, rate, n) = g[n]
  BY CompoundRuns
<1>2. PICK h \in [0..(n + 1) -> Nat] :
         Grows(principal, rate, n + 1, h) /\ PC!compound(principal, rate, n + 1) = h[n + 1]
  <2> DEFINE m == n + 1
  <2>1. m \in Nat
    OBVIOUS
  <2> HIDE DEF m
  <2>2. \E h \in [0..m -> Nat] : Grows(principal, rate, m, h) /\ PC!compound(principal, rate, m) = h[m]
    BY <2>1, CompoundRuns
  <2> QED  BY <2>2 DEF m
<1>3. PICK z \in [0..0 -> Nat] :
         Grows(principal, rate, 0, z) /\ PC!compound(principal, rate, 0) = z[0]
  BY CompoundRuns
<1>4. \A k \in 0..n : g[k] = IF k = 0 THEN principal ELSE Grown(g[k - 1], rate)
  BY <1>1 DEF Grows
<1>5. \A k \in 0..(n + 1) : h[k] = IF k = 0 THEN principal ELSE Grown(h[k - 1], rate)
  BY <1>2 DEF Grows
<1> DEFINE N == { k \in Nat : k <= n => h[k] = g[k] }
<1>6. 0 \in N
  BY <1>4, <1>5
<1>7. ASSUME NEW k \in Nat, k \in N PROVE k + 1 \in N
  <2> SUFFICES ASSUME k + 1 <= n PROVE h[k + 1] = g[k + 1]
    OBVIOUS
  <2>1. h[k] = g[k]
    BY <1>7
  <2>2. h[k + 1] = Grown(h[k], rate) /\ g[k + 1] = Grown(g[k], rate)
    BY <1>4, <1>5
  <2> QED  BY <2>1, <2>2
<1>8. Nat \subseteq N
  <2> HIDE DEF N
  <2> QED  BY <1>6, <1>7, NatSetInduction
<1>9. h[n] = g[n]
  BY <1>8
<1>10. h[n + 1] = Grown(h[n], rate) /\ z[0] = principal
  <2>1. h[n + 1] = Grown(h[(n + 1) - 1], rate) /\ (n + 1) - 1 = n
    BY <1>5
  <2>2. z[0] = principal
    BY <1>3 DEF Grows
  <2> QED  BY <2>1, <2>2
<1> QED  BY <1>1, <1>2, <1>3, <1>9, <1>10

(* Interest on the interest: after n periods and then m more the amount is  *)
(* what n + m periods make of it, whatever was cut off at each.             *)
THEOREM CompoundSplits ==
    ASSUME NEW amount \in Nat, NEW rate \in Nat, NEW n \in Nat, NEW m \in Nat
    PROVE  PC!compound(amount, rate, n + m) = PC!compound(PC!compound(amount, rate, n), rate, m)
<1> DEFINE first == PC!compound(amount, rate, n)
           N == { k \in Nat : PC!compound(amount, rate, n + k) = PC!compound(first, rate, k) }
<1>1. first \in Nat
  BY CompoundTurns
<1> HIDE DEF first
<1>2. 0 \in N
  <2>1. PC!compound(first, rate, 0) = first /\ n + 0 = n
    BY <1>1, CompoundTurns
  <2> QED  BY <2>1 DEF first
<1>3. ASSUME NEW k \in Nat, k \in N PROVE k + 1 \in N
  <2>1. n + k \in Nat /\ n + (k + 1) = (n + k) + 1
    OBVIOUS
  <2>2. PC!compound(amount, rate, (n + k) + 1) = Grown(PC!compound(amount, rate, n + k), rate)
    BY <2>1, CompoundTurns
  <2>3. PC!compound(first, rate, k + 1) = Grown(PC!compound(first, rate, k), rate)
    BY <1>1, CompoundTurns
  <2>4. PC!compound(amount, rate, n + k) = PC!compound(first, rate, k)
    BY <1>3
  <2> QED  BY <2>1, <2>2, <2>3, <2>4
<1>4. Nat \subseteq N
  <2> HIDE DEF N
  <2> QED  BY <1>2, <1>3, NatSetInduction
<1> QED  BY <1>4 DEF first

LEMMA PnlOpposite ==
    ASSUME NEW entry \in Nat \ {0}, NEW exit \in Nat
    PROVE  /\ PC!calculatePnlPercent(entry, exit, TRUE)
              = -PC!calculatePnlPercent(entry, exit, FALSE)
           /\ PC!calculatePnlPercent(entry, exit, TRUE) >= -PERCENTAGE_FACTOR
<1> DEFINE change == PC!Change(entry, exit)
           F == PERCENTAGE_FACTOR
<1>1. F \in Nat \ {0}
  BY ScaleAssumption
<1>2. PC!calculatePnlPercent(entry, exit, TRUE) = change
      /\ PC!calculatePnlPercent(entry, exit, FALSE) = -change
  BY DEF PC!calculatePnlPercent
<1>3. change \in Int /\ change >= -F
  <2>1. CASE exit > entry
    <3>1. change = ((exit - entry) * F) \div entry
      BY <2>1 DEF PC!Change
    <3>2. (exit - entry) * F \in Nat
      BY <1>1, <2>1, ProductTypes
    <3> HIDE DEF change
    <3>3. change \in Nat
      BY <3>1, <3>2, DivTypes
    <3> QED  BY <1>1, <3>3
  <2>2. CASE ~(exit > entry)
    <3> DEFINE fall == (entry - exit) * F
               q == fall \div entry
    <3>1. change = -q
      BY <2>2 DEF PC!Change
    <3>2. fall \in Nat /\ fall <= entry * F
      BY <1>1, <2>2, ProductTypes, ProductOrder
    <3> HIDE DEF fall
    <3>3. q \in Nat /\ entry * q <= fall
      BY <3>2, DivBounds
    <3> HIDE DEF change, q
    <3>4. entry * q < entry * (F + 1)
      <4>1. entry * (F + 1) = entry * F + entry /\ entry * F \in Int /\ entry * q \in Int
        BY <1>1, <3>3, ProductTypes
      <4> QED  BY <3>2, <3>3, <4>1
    <3>5. q < F + 1
      BY <1>1, <3>3, <3>4, ProductCancel
    <3> QED  BY <1>1, <3>1, <3>3, <3>5
  <2> QED  BY <2>1, <2>2
<1> DEFINE long == PC!calculatePnlPercent(entry, exit, TRUE)
           short == PC!calculatePnlPercent(entry, exit, FALSE)
<1>4. long = change /\ short = -change
  BY <1>2
<1> HIDE DEF change, long, short, F
<1>5. long = -short /\ long >= -F
  BY <1>3, <1>4
<1> QED  BY <1>5 DEF long, short, F

-----------------------------------------------------------------------------
(* DRAWDOWNS.                                                               *)

LEMMA MaxOfTwo ==
    ASSUME NEW a \in Int, NEW b \in Int
    PROVE  Max({a, b}) = IF a >= b THEN a ELSE b
<1>1. CASE a >= b
  <2>1. \A x \in {a, b} : (\A y \in {a, b} : x >= y) <=> x = a
    BY <1>1
  <2> QED  BY <1>1, <2>1 DEF Max
<1>2. CASE ~(a >= b)
  <2>1. \A x \in {a, b} : (\A y \in {a, b} : x >= y) <=> x = b
    BY <1>2
  <2> QED  BY <1>2, <2>1 DEF Max
<1> QED  BY <1>1, <1>2

LEMMA MaxIs ==
    ASSUME NEW S \in SUBSET Int, NEW x \in S, \A y \in S : y <= x
    PROVE  Max(S) = x
<1>1. \A z \in S : (\A y \in S : z >= y) => z = x
  <2> SUFFICES ASSUME NEW z \in S, \A y \in S : z >= y PROVE z = x
    OBVIOUS
  <2>1. z >= x /\ z <= x /\ z \in Int /\ x \in Int
    OBVIOUS
  <2> QED  BY <2>1
<1>2. \A y \in S : x >= y
  OBVIOUS
<1> QED  BY <1>1, <1>2 DEF Max

(* The fall from one value to a lower one, in basis points.                 *)
Fall(from, to) == ((from - to) * PERCENTAGE_FACTOR) \div from

Pairs(v, m) == { p \in (1..m) \X (1..m) : p[1] < p[2] /\ v[p[1]] > v[p[2]] }

Falls(v, m) == {0} \cup { Fall(v[p[1]], v[p[2]]) : p \in Pairs(v, m) }

LEMMA FallType ==
    ASSUME NEW a \in Nat \ {0}, NEW b \in Nat, b <= a
    PROVE  /\ Fall(a, b) \in Nat
           /\ Fall(a, b) <= PERCENTAGE_FACTOR
           /\ a * Fall(a, b) <= (a - b) * PERCENTAGE_FACTOR
           /\ (a - b) * PERCENTAGE_FACTOR < a * Fall(a, b) + a
<1> DEFINE F == PERCENTAGE_FACTOR
           d == (a - b) * F
           q == d \div a
<1>1. F \in Nat \ {0}
  BY ScaleAssumption
<1>2. d \in Nat /\ d <= a * F
  BY <1>1, ProductTypes, ProductOrder
<1> HIDE DEF d
<1>3. q \in Nat /\ a * q <= d /\ d < a * q + a
  BY <1>2, DivBounds
<1> HIDE DEF q, F
<1>4. a * q < a * (F + 1)
  <2>1. a * (F + 1) = a * F + a /\ a * F \in Int /\ a * q \in Int
    BY <1>1, <1>3, ProductTypes
  <2> QED  BY <1>2, <1>3, <2>1
<1>5. q < F + 1
  BY <1>1, <1>3, <1>4, ProductCancel
<1>6. q <= F
  BY <1>1, <1>3, <1>5
<1> QED  BY <1>3, <1>6 DEF d, q, F, Fall

(* From higher up the fall to the same value is at least as deep.           *)
LEMMA FallGrows ==
    ASSUME NEW p \in Nat, NEW a \in Nat \ {0}, NEW b \in Nat, b <= a, a <= p
    PROVE  Fall(a, b) <= Fall(p, b)
<1> DEFINE F == PERCENTAGE_FACTOR
           qa == Fall(a, b)
           qp == Fall(p, b)
<1>1. /\ F \in Nat \ {0} /\ p \in Nat \ {0} /\ b <= p
      /\ qa \in Nat /\ qa <= F /\ a * qa <= (a - b) * F
      /\ qp \in Nat /\ (p - b) * F < p * qp + p
  BY ScaleAssumption, FallType
<1> HIDE DEF F, qa, qp
<1>2. (p - a) * qa <= (p - a) * F
  <2>1. qa * (p - a) <= F * (p - a)
    BY <1>1, ProductOrder
  <2> QED  BY <1>1, <2>1
<1>3. p * qa = a * qa + (p - a) * qa /\ (p - b) * F = (a - b) * F + (p - a) * F
      /\ a * qa \in Int /\ (p - a) * qa \in Int /\ (p - a) * F \in Int /\ (a - b) * F \in Int
      /\ p * qp \in Int
  BY <1>1, ProductTypes
<1>4. p * qa < p * (qp + 1)
  <2>1. p * (qp + 1) = p * qp + p
    BY <1>1
  <2> QED  BY <1>1, <1>2, <1>3, <2>1
<1>5. qa < qp + 1
  BY <1>1, <1>4, ProductCancel
<1>6. qa <= qp
  BY <1>1, <1>5
<1> QED  BY <1>6 DEF qa, qp

LEMMA FallsType ==
    ASSUME NEW v \in Seq(Nat), NEW m \in 1..Len(v)
    PROVE  Falls(v, m) \subseteq Nat
<1>1. \A p \in Pairs(v, m) : v[p[1]] \in Nat \ {0} /\ v[p[2]] \in Nat /\ v[p[2]] <= v[p[1]]
  BY DEF Pairs
<1>2. \A p \in Pairs(v, m) : Fall(v[p[1]], v[p[2]]) \in Nat
  BY <1>1, FallType
<1> QED  BY <1>2 DEF Falls

(* What the walk over the first m values knows.                             *)
WalkAt(v, m, w) ==
    /\ w \in [peak : Nat, deepest : Nat]
    /\ \A a \in 1..m : v[a] <= w.peak
    /\ \E a \in 1..m : v[a] = w.peak
    /\ w.deepest \in Falls(v, m)
    /\ \A f \in Falls(v, m) : f <= w.deepest
    /\ m >= 2 => w.peak > 0

LEMMA WalkStep ==
    ASSUME NEW v \in Seq(Nat), NEW m \in 1..(Len(v) - 1), NEW w, WalkAt(v, m, w),
           v[m + 1] > w.peak \/ w.peak > 0
    PROVE  WalkAt(v, m + 1, ST!DrawdownStep(w, v[m + 1]))
<1> DEFINE x == v[m + 1]
           n == ST!DrawdownStep(w, x)
           low == Fall(w.peak, x)
<1>0. w = [peak |-> w.peak, deepest |-> w.deepest]
  BY DEF WalkAt
<1>1. /\ w.peak \in Nat /\ w.deepest \in Nat /\ x \in Nat
      /\ \A a \in 1..(m + 1) : v[a] \in Nat
      /\ \A a \in 1..m : v[a] <= w.peak
      /\ w.deepest \in Falls(v, m) /\ \A f \in Falls(v, m) : f <= w.deepest
  BY DEF WalkAt
<1>2. PICK top \in 1..m : v[top] = w.peak
  BY DEF WalkAt
<1>3. Falls(v, m + 1) = Falls(v, m)
                          \cup { Fall(v[a], x) : a \in { a \in 1..m : v[a] > x } }
  <2>1. Pairs(v, m) \subseteq Pairs(v, m + 1)
    BY DEF Pairs
  <2>2. \A p \in Pairs(v, m + 1) :
           p \in Pairs(v, m) \/ (p[2] = m + 1 /\ p[1] \in 1..m /\ v[p[1]] > x)
    BY DEF Pairs
  <2>3. ASSUME NEW a \in 1..m, v[a] > x PROVE <<a, m + 1>> \in Pairs(v, m + 1)
    BY <2>3 DEF Pairs
  <2>4. Falls(v, m) \subseteq Falls(v, m + 1)
    BY <2>1 DEF Falls
  <2>5. { Fall(v[a], x) : a \in { a \in 1..m : v[a] > x } } \subseteq Falls(v, m + 1)
    <3> SUFFICES ASSUME NEW a \in 1..m, v[a] > x PROVE Fall(v[a], x) \in Falls(v, m + 1)
      OBVIOUS
    <3> DEFINE p == <<a, m + 1>>
    <3>1. p \in Pairs(v, m + 1) /\ p[1] = a /\ p[2] = m + 1
      BY <2>3
    <3> HIDE DEF p
    <3> QED  BY <3>1 DEF Falls
  <2>6. \A f \in Falls(v, m + 1) :
           f \in Falls(v, m) \/ f \in { Fall(v[a], x) : a \in { a \in 1..m : v[a] > x } }
    BY <2>2 DEF Falls
  <2> QED  BY <2>4, <2>5, <2>6
<1>a. \A a \in 1..(m + 1) : a \in 1..m \/ (a = m + 1 /\ v[a] = x)
  OBVIOUS
<1> HIDE DEF x
<1>4. CASE x > w.peak
  <2>1. n = [peak |-> x, deepest |-> w.deepest]
    <3>1. n = [w EXCEPT !.peak = x]
      BY <1>4 DEF ST!DrawdownStep
    <3> QED  BY <1>0, <3>1
  <2>0. \A a \in 1..m : v[a] <= x /\ ~(v[a] > x)
    <3>1. \A a \in 1..m : v[a] \in Nat
      BY <1>1
    <3> QED  BY <1>1, <1>4, <3>1
  <2>2. Falls(v, m + 1) = Falls(v, m)
    BY <1>3, <2>0
  <2>3. \A a \in 1..(m + 1) : v[a] <= x
    BY <1>1, <1>a, <2>0
  <2> HIDE DEF n
  <2>4. n.peak = x /\ n.deepest = w.deepest /\ n \in [peak : Nat, deepest : Nat]
    BY <1>1, <2>1
  <2>5. x > 0 /\ m + 1 \in 1..(m + 1) /\ v[m + 1] = x
    BY <1>1, <1>4 DEF x
  <2> QED  BY <1>1, <2>2, <2>3, <2>4, <2>5 DEF WalkAt, n, x
<1>5. CASE ~(x > w.peak)
  <2>1. w.peak \in Nat \ {0} /\ x <= w.peak
    BY <1>1, <1>5 DEF x
  <2>2. low \in Nat
    BY <1>1, <2>1, FallType
  <2>3. n = [peak |-> w.peak, deepest |-> IF w.deepest >= low THEN w.deepest ELSE low]
    <3>1. n = [w EXCEPT !.deepest = Max({w.deepest, low})]
      BY <1>5 DEF ST!DrawdownStep, ST!Max, Max, Fall
    <3> HIDE DEF low
    <3>2. Max({w.deepest, low}) = IF w.deepest >= low THEN w.deepest ELSE low
      BY <1>1, <2>2, MaxOfTwo
    <3> QED  BY <1>0, <3>1, <3>2
  <2>4. ASSUME NEW a \in 1..m, v[a] > x
        PROVE  Fall(v[a], x) <= low /\ Fall(v[a], x) \in Nat
    <3> DEFINE y == v[a]
    <3>1. y \in Nat \ {0} /\ x <= y /\ y <= w.peak
      BY <1>1, <2>4
    <3> HIDE DEF y
    <3>2. Fall(y, x) <= Fall(w.peak, x) /\ Fall(y, x) \in Nat
      BY <1>1, <3>1, FallType, FallGrows
    <3> QED  BY <3>2 DEF y
  <2>5. w.peak > x => low \in Falls(v, m + 1)
    BY <1>2, <1>3
  <2>6. w.peak = x => low = 0
    <3> SUFFICES ASSUME w.peak = x PROVE low = 0
      OBVIOUS
    <3>1. (w.peak - x) * PERCENTAGE_FACTOR = 0
      BY <1>1, ScaleAssumption
    <3>2. 0 \div w.peak = 0
      BY <2>1
    <3> QED  BY <3>1, <3>2 DEF Fall
  <2> HIDE DEF n, low
  <2>7. n.peak = w.peak /\ n \in [peak : Nat, deepest : Nat]
        /\ n.deepest = IF w.deepest >= low THEN w.deepest ELSE low
    BY <1>1, <2>2, <2>3
  <2>8. n.deepest \in Falls(v, m + 1)
    <3>1. CASE w.deepest >= low
      BY <1>1, <1>3, <2>7, <3>1
    <3>2. CASE ~(w.deepest >= low)
      BY <1>1, <2>1, <2>2, <2>5, <2>6, <2>7, <3>2
    <3> QED  BY <3>1, <3>2
  <2>9. \A f \in Falls(v, m + 1) : f <= n.deepest
    <3>0. m \in 1..Len(v)
      OBVIOUS
    <3>1. \A f \in Falls(v, m) : f <= n.deepest
      <4>1. Falls(v, m) \subseteq Nat
        BY <3>0, FallsType
      <4> QED  BY <1>1, <2>2, <2>7, <4>1
    <3>2. \A a \in 1..m : v[a] > x => Fall(v[a], x) <= n.deepest
      BY <1>1, <2>2, <2>4, <2>7
    <3> QED  BY <1>3, <3>1, <3>2
  <2>10. \A a \in 1..(m + 1) : v[a] <= n.peak
    BY <1>1, <1>a, <2>1, <2>7
  <2>11. top \in 1..(m + 1) /\ v[top] = n.peak /\ n.peak > 0
    BY <1>2, <2>1, <2>7
  <2> QED  BY <2>7, <2>8, <2>9, <2>10, <2>11 DEF WalkAt, n, x
<1> QED  BY <1>4, <1>5

LEMMA WalkBegins ==
    ASSUME NEW v \in Seq(Nat), Len(v) >= 1
    PROVE  WalkAt(v, 1, [peak |-> v[1], deepest |-> 0])
<1>1. Pairs(v, 1) = {}
  BY DEF Pairs
<1>2. Falls(v, 1) = {0}
  BY <1>1 DEF Falls
<1> QED  BY <1>2 DEF WalkAt

(* The pass over the values, one turn for each after the first.             *)
Walks(v, g) ==
    g = [k \in 0..(Len(v) - 1) |->
            IF k = 0 THEN [peak |-> v[1], deepest |-> 0]
            ELSE ST!DrawdownStep(g[k - 1], v[k + 1])]

WalkSound(v, g) == \A k \in 0..(Len(v) - 1) : WalkAt(v, k + 1, g[k])

LEMMA TurnsAreSound ==
    ASSUME NEW v \in Seq(Nat), Len(v) >= 2, ~(v[1] = 0 /\ v[2] = 0), NEW g,
           g[0] = [peak |-> v[1], deepest |-> 0],
           \A k \in 1..(Len(v) - 1) :
              v[k + 1] > g[k - 1].peak \/ g[k - 1].peak > 0
                 => g[k] = ST!DrawdownStep(g[k - 1], v[k + 1])
    PROVE  /\ WalkSound(v, g)
           /\ \A k \in 1..(Len(v) - 1) : g[k] = ST!DrawdownStep(g[k - 1], v[k + 1])
<1> DEFINE N == { k \in Nat : k <= Len(v) - 1 => WalkAt(v, k + 1, g[k]) }
<1>1. 0 \in N
  BY WalkBegins
<1>2. ASSUME NEW k \in 1..(Len(v) - 1), WalkAt(v, k, g[k - 1])
      PROVE  v[k + 1] > g[k - 1].peak \/ g[k - 1].peak > 0
  <2>1. CASE k >= 2
    BY <1>2, <2>1 DEF WalkAt
  <2>2. CASE k = 1
    <3>1. g[k - 1].peak = v[1] /\ v[1] \in Nat /\ v[2] \in Nat /\ v[k + 1] = v[2]
      BY <2>2
    <3> QED  BY <3>1
  <2> QED  BY <2>1, <2>2
<1>3. ASSUME NEW k \in Nat, k \in N PROVE k + 1 \in N
  <2> SUFFICES ASSUME k + 1 <= Len(v) - 1 PROVE WalkAt(v, (k + 1) + 1, g[k + 1])
    OBVIOUS
  <2> DEFINE m == k + 1
  <2>1. m \in 1..(Len(v) - 1) /\ m - 1 = k
    OBVIOUS
  <2>2. WalkAt(v, m, g[m - 1])
    BY <1>3, <2>1
  <2> HIDE DEF m
  <2>3. v[m + 1] > g[m - 1].peak \/ g[m - 1].peak > 0
    BY <1>2, <2>1, <2>2
  <2>4. g[m] = ST!DrawdownStep(g[m - 1], v[m + 1])
    BY <2>1, <2>3
  <2>5. WalkAt(v, m + 1, g[m])
    BY <2>1, <2>2, <2>3, <2>4, WalkStep
  <2> QED  BY <2>5 DEF m
<1>4. Nat \subseteq N
  <2> HIDE DEF N
  <2> QED  BY <1>1, <1>3, NatSetInduction
<1>5. WalkSound(v, g)
  BY <1>4 DEF WalkSound
<1>6. ASSUME NEW k \in 1..(Len(v) - 1) PROVE g[k] = ST!DrawdownStep(g[k - 1], v[k + 1])
  <2>1. k - 1 \in 0..(Len(v) - 1) /\ (k - 1) + 1 = k
    OBVIOUS
  <2>2. WalkAt(v, k, g[k - 1])
    BY <1>5, <2>1 DEF WalkSound
  <2> QED  BY <1>2, <2>2
<1> QED  BY <1>5, <1>6

LEMMA WalkRuns ==
    ASSUME NEW v \in Seq(Nat), Len(v) >= 2, ~(v[1] = 0 /\ v[2] = 0)
    PROVE  \E g : Walks(v, g)
<1> DEFINE S == [peak : Nat, deepest : Nat]
           n == Len(v) - 1
           Falling(w, x) == x > w.peak \/ w.peak > 0
           step == [ss \in S \X (1..n) |->
                       IF Falling(ss[1], v[ss[2] + 1]) THEN ST!DrawdownStep(ss[1], v[ss[2] + 1])
                       ELSE ss[1]]
<1>1. ASSUME NEW w \in S, NEW x \in Nat, Falling(w, x) PROVE ST!DrawdownStep(w, x) \in S
  <2>1. CASE x > w.peak
    BY <2>1 DEF ST!DrawdownStep
  <2>2. CASE ~(x > w.peak)
    <3>1. w.peak \in Nat \ {0} /\ x <= w.peak /\ w.deepest \in Nat
      BY <1>1, <2>2
    <3>2. Fall(w.peak, x) \in Nat
      BY <3>1, FallType
    <3>3. Max({w.deepest, Fall(w.peak, x)}) \in Nat
      BY <3>1, <3>2, MaxOfTwo
    <3>4. ST!DrawdownStep(w, x) = [w EXCEPT !.deepest = Max({w.deepest, Fall(w.peak, x)})]
      BY <2>2 DEF ST!DrawdownStep, ST!Max, Max, Fall
    <3> QED  BY <3>3, <3>4
  <2> QED  BY <2>1, <2>2
<1>2. StepsIn(S, n, step)
  <2>1. \A k \in 1..n : v[k + 1] \in Nat
    OBVIOUS
  <2>2. \A ss \in S \X (1..n) : step[ss] \in S
    BY <1>1, <2>1
  <2> QED  BY <2>2 DEF StepsIn
<1>3. \A w \in S, k \in 1..n :
         step[<<w, k>>] = IF Falling(w, v[k + 1]) THEN ST!DrawdownStep(w, v[k + 1]) ELSE w
  OBVIOUS
<1> DEFINE s0 == [peak |-> v[1], deepest |-> 0]
<1>4. s0 \in S
  OBVIOUS
<1> HIDE DEF step
<1>5. PICK g : RunsFrom(s0, S, n, step, g)
  BY <1>2, <1>4, LoopRuns
<1>6. g \in [0..n -> S] /\ g[0] = s0 /\ \A k \in 1..n : g[k] = step[<<g[k - 1], k>>]
  BY <1>5 DEF RunsFrom
<1>7. \A k \in 1..n : Falling(g[k - 1], v[k + 1]) => g[k] = ST!DrawdownStep(g[k - 1], v[k + 1])
  <2>1. \A k \in 1..n : g[k - 1] \in S
    BY <1>6
  <2> QED  BY <1>3, <1>6, <2>1
<1>8. \A k \in 1..n : g[k] = ST!DrawdownStep(g[k - 1], v[k + 1])
  BY <1>6, <1>7, TurnsAreSound
<1>9. \A k \in 0..n : g[k] = IF k = 0 THEN s0 ELSE ST!DrawdownStep(g[k - 1], v[k + 1])
  BY <1>6, <1>8
<1>10. g = [k \in 0..n |-> g[k]]
  BY <1>6
<1> HIDE DEF S
<1> QED  BY <1>9, <1>10 DEF Walks

LEMMA MaxDrawdownExact ==
    ASSUME NEW v \in Seq(Nat), ST!maxDrawdown(v) # Revert
    PROVE  ST!maxDrawdown(v) = Max(Falls(v, Len(v)))
<1> DEFINE d == CHOOSE g : Walks(v, g)
           n == Len(v) - 1
<1>1. Len(v) >= 2 /\ ~(v[1] = 0 /\ v[2] = 0) /\ Len(v) \in Nat
  BY DEF ST!maxDrawdown
<1>2. Walks(v, d)
  BY <1>1, WalkRuns
<1>3. ST!maxDrawdown(v) = d[n].deepest
  BY <1>1 DEF ST!maxDrawdown, Walks
<1> HIDE DEF d
<1>4. \A k \in 0..n : d[k] = IF k = 0 THEN [peak |-> v[1], deepest |-> 0]
                             ELSE ST!DrawdownStep(d[k - 1], v[k + 1])
  BY <1>2 DEF Walks
<1>5. d[0] = [peak |-> v[1], deepest |-> 0]
      /\ \A k \in 1..n : d[k] = ST!DrawdownStep(d[k - 1], v[k + 1])
  BY <1>1, <1>4
<1>6. WalkSound(v, d)
  BY <1>1, <1>5, TurnsAreSound
<1>7. WalkAt(v, Len(v), d[n])
  <2>1. n \in 0..n /\ n + 1 = Len(v)
    BY <1>1
  <2> QED  BY <1>6, <2>1 DEF WalkSound
<1>8. Falls(v, Len(v)) \in SUBSET Int
  <2>1. Len(v) \in 1..Len(v)
    BY <1>1
  <2> QED  BY <2>1, FallsType
<1>9. Max(Falls(v, Len(v))) = d[n].deepest
  BY <1>7, <1>8, MaxIs DEF WalkAt
<1> QED  BY <1>3, <1>9

-----------------------------------------------------------------------------
(* AVERAGES.                                                                *)

LEMMA QuotientWithin ==
    ASSUME NEW lo \in Nat, NEW hi \in Nat, NEW a \in Nat, NEW b \in Nat \ {0},
           lo * b <= a, a <= hi * b
    PROVE  a \div b \in lo..hi
<1> DEFINE q == a \div b
<1>1. q \in Nat /\ b * q <= a /\ a < b * q + b
  BY DivBounds
<1> HIDE DEF q
<1>2. b * (q + 1) = b * q + b /\ b * q \in Int /\ b * (hi + 1) = hi * b + b /\ hi * b \in Int
      /\ b * lo = lo * b
  BY <1>1, ProductTypes
<1>3. b * lo < b * (q + 1) /\ b * q < b * (hi + 1)
  BY <1>1, <1>2
<1>4. lo < q + 1 /\ q < hi + 1
  BY <1>1, <1>3, ProductCancel
<1>5. q \in lo..hi
  BY <1>1, <1>4
<1> QED  BY <1>5 DEF q

Sums(v, g) == g = [k \in 0..Len(v) |-> IF k = 0 THEN 0 ELSE g[k - 1] + v[k]]

LEMMA TotalRuns ==
    ASSUME NEW v \in Seq(Nat)
    PROVE  \E g \in [0..Len(v) -> Nat] : Sums(v, g)
<1> DEFINE n == Len(v)
           step == [ss \in Nat \X (1..n) |-> ss[1] + v[ss[2]]]
<1>1. n \in Nat /\ \A k \in 1..n : v[k] \in Nat
  OBVIOUS
<1>2. StepsIn(Nat, n, step)
  BY <1>1 DEF StepsIn
<1>3. \A a \in Nat, k \in 1..n : step[<<a, k>>] = a + v[k]
  OBVIOUS
<1> HIDE DEF step, n
<1>4. PICK g : RunsFrom(0, Nat, n, step, g)
  BY <1>2, LoopRuns
<1>5. g \in [0..n -> Nat] /\ g[0] = 0 /\ \A k \in 1..n : g[k] = step[<<g[k - 1], k>>]
  BY <1>4 DEF RunsFrom
<1>6. \A k \in 1..n : g[k] = g[k - 1] + v[k]
  <2>1. \A k \in 1..n : g[k - 1] \in Nat
    BY <1>1, <1>5
  <2> QED  BY <1>3, <1>5, <2>1
<1>7. \A k \in 0..n : g[k] = IF k = 0 THEN 0 ELSE g[k - 1] + v[k]
  BY <1>5, <1>6
<1>8. g = [k \in 0..n |-> g[k]]
  BY <1>5
<1>9. Sums(v, g)
  BY <1>7, <1>8 DEF Sums, n
<1> QED  BY <1>5, <1>9 DEF n

(* A sum lies between its length times the least and the largest value.     *)
LEMMA TotalWithin ==
    ASSUME NEW lo \in Nat, NEW hi \in Nat, NEW v \in Seq(lo..hi)
    PROVE  /\ ST!Total(v) \in Nat
           /\ lo * Len(v) <= ST!Total(v) /\ ST!Total(v) <= hi * Len(v)
<1> DEFINE d == CHOOSE g : Sums(v, g)
           n == Len(v)
           N == { k \in Nat : k <= n => d[k] \in Nat /\ lo * k <= d[k] /\ d[k] <= hi * k }
<1>1. n \in Nat /\ (\A k \in 1..n : v[k] \in Nat /\ lo <= v[k] /\ v[k] <= hi) /\ v \in Seq(Nat)
  OBVIOUS
<1>2. Sums(v, d)
  BY <1>1, TotalRuns
<1>3. ST!Total(v) = d[n]
  BY DEF ST!Total, Sums
<1> HIDE DEF d
<1>4. \A k \in 0..n : d[k] = IF k = 0 THEN 0 ELSE d[k - 1] + v[k]
  BY <1>2 DEF Sums
<1> HIDE DEF n
<1>5. 0 \in N
  BY <1>1, <1>4
<1>6. ASSUME NEW k \in Nat, k \in N PROVE k + 1 \in N
  <2> SUFFICES ASSUME k + 1 <= n
               PROVE  d[k + 1] \in Nat /\ lo * (k + 1) <= d[k + 1] /\ d[k + 1] <= hi * (k + 1)
    OBVIOUS
  <2>1. d[k + 1] = d[k] + v[k + 1] /\ v[k + 1] \in Nat /\ lo <= v[k + 1] /\ v[k + 1] <= hi
    BY <1>1, <1>4
  <2>2. d[k] \in Nat /\ lo * k <= d[k] /\ d[k] <= hi * k
    BY <1>1, <1>6
  <2>3. lo * (k + 1) = lo * k + lo /\ hi * (k + 1) = hi * k + hi /\ lo * k \in Int /\ hi * k \in Int
    BY ProductTypes
  <2> QED  BY <2>1, <2>2, <2>3
<1>7. Nat \subseteq N
  <2> HIDE DEF N
  <2> QED  BY <1>5, <1>6, NatSetInduction
<1>8. d[n] \in Nat /\ lo * n <= d[n] /\ d[n] <= hi * n
  BY <1>1, <1>7
<1> QED  BY <1>3, <1>8 DEF n

LEMMA MeanWithin ==
    ASSUME NEW lo \in Nat, NEW hi \in Nat, NEW v \in Seq(lo..hi), NEW n \in Nat \ {0}, n = Len(v)
    PROVE  ST!Total(v) \div n \in lo..hi
<1>1. ST!Total(v) \in Nat /\ lo * n <= ST!Total(v) /\ ST!Total(v) <= hi * n
  BY TotalWithin
<1> QED  BY <1>1, QuotientWithin

(* The average of any stretch of the values.                                *)
LEMMA WindowWithin ==
    ASSUME NEW lo \in Nat, NEW hi \in Nat, NEW v \in Seq(lo..hi), NEW period \in 1..Len(v),
           NEW n \in 1..(Len(v) - period + 1)
    PROVE  ST!Total(SubSeq(v, n, n + period - 1)) \div period \in lo..hi
<1> DEFINE s == SubSeq(v, n, n + period - 1)
<1>1. s \in Seq(lo..hi) /\ Len(s) = period /\ period \in Nat \ {0}
  <2>1. n \in Nat /\ n >= 1 /\ n + period - 1 \in 0..Len(v) /\ period \in Nat /\ Len(v) \in Nat
    OBVIOUS
  <2>2. Len(s) = period
    BY <2>1
  <2>3. s \in Seq(lo..hi)
    BY <2>1
  <2> QED  BY <2>1, <2>2, <2>3
<1> HIDE DEF s
<1>2. ST!Total(s) \div period \in lo..hi
  BY <1>1, MeanWithin
<1> QED  BY <1>2 DEF s

(* The new value and the last average, weighted by parts of the whole.      *)
LEMMA WeightedWithin ==
    ASSUME NEW lo \in Nat, NEW hi \in Nat, NEW x \in lo..hi, NEW e \in lo..hi,
           NEW whole \in Nat \ {0}, NEW part \in 0..whole
    PROVE  (x * part + e * (whole - part)) \div whole \in lo..hi
<1> DEFINE rest == whole - part
           a == x * part
           b == e * rest
<1>1. part \in Nat /\ rest \in Nat /\ whole = part + rest /\ x \in Nat /\ e \in Nat
      /\ lo <= x /\ x <= hi /\ lo <= e /\ e <= hi
  OBVIOUS
<1> HIDE DEF rest
<1>2. lo * part <= a /\ a <= hi * part /\ lo * rest <= b /\ b <= hi * rest
      /\ a \in Nat /\ b \in Nat
  BY <1>1, ProductOrder, ProductTypes
<1> HIDE DEF a, b
<1>3. lo * whole = lo * part + lo * rest /\ hi * whole = hi * part + hi * rest
      /\ lo * part \in Int /\ lo * rest \in Int /\ hi * part \in Int /\ hi * rest \in Int
  BY <1>1, ProductTypes
<1> DEFINE c == a + b
<1>4. c \in Nat /\ lo * whole <= c /\ c <= hi * whole
  BY <1>2, <1>3
<1> HIDE DEF c
<1>5. c \div whole \in lo..hi
  BY <1>4, QuotientWithin
<1> QED  BY <1>5 DEF a, b, c, rest

LEMMA MultiplierType ==
    ASSUME NEW period \in Nat \ {0}
    PROVE  ST!Multiplier(period) \in 0..Q96
<1> DEFINE a == 2 * Q96
           b == period + 1
           q == a \div b
<1>1. Q96 \in Nat \ {0} /\ a \in Nat /\ b \in Nat \ {0} /\ b >= 2
  BY ScaleAssumption
<1>2. Q96 * 2 <= Q96 * b
  <2>1. 2 * Q96 <= b * Q96
    BY <1>1, ProductOrder
  <2> QED  BY <1>1, <2>1
<1>3. a <= Q96 * b /\ 0 * b <= a
  BY <1>1, <1>2
<1> HIDE DEF a, b
<1>4. q \in 0..Q96
  BY <1>1, <1>3, QuotientWithin
<1> QED  BY <1>4 DEF q, a, b, ST!Multiplier

Weighs(v, period, g) ==
    g = [k \in 0..(Len(v) - period) |->
            IF k = 0 THEN ST!Total(SubSeq(v, 1, period)) \div period
            ELSE (v[period + k] * ST!Multiplier(period)
                  + g[k - 1] * (Q96 - ST!Multiplier(period))) \div Q96]

LEMMA WeightedAveragesWithin ==
    ASSUME NEW lo \in Nat, NEW hi \in Nat, NEW v \in Seq(lo..hi), NEW period \in 1..Len(v)
    PROVE  \A n \in 1..(Len(v) - period + 1) :
              ST!exponentialMovingAverage(v, period)[n] \in lo..hi
<1> DEFINE S == lo..hi
           n == Len(v) - period
           M == ST!Multiplier(period)
           first == ST!Total(SubSeq(v, 1, period)) \div period
           Turn(e, k) == (v[period + k] * M + e * (Q96 - M)) \div Q96
           step == [ss \in S \X (1..n) |-> Turn(ss[1], ss[2])]
           d == CHOOSE g : Weighs(v, period, g)
<1>1. n \in Nat /\ period \in Nat \ {0} /\ Len(v) \in Nat /\ Q96 \in Nat \ {0} /\ M \in 0..Q96
      /\ \A k \in 1..n : v[period + k] \in S
  BY ScaleAssumption, MultiplierType
<1>2. first \in S
  <2>1. 1 \in 1..(Len(v) - period + 1) /\ 1 + period - 1 = period
    OBVIOUS
  <2>2. ST!Total(SubSeq(v, 1, 1 + period - 1)) \div period \in S
    BY <2>1, WindowWithin
  <2> QED  BY <2>1, <2>2
<1> HIDE DEF M, first, n
<1>3. \A e \in S, k \in 1..n : Turn(e, k) \in S
  BY <1>1, WeightedWithin
<1>4. StepsIn(S, n, step)
  BY <1>1, <1>3 DEF StepsIn
<1>5. \A e \in S, k \in 1..n : step[<<e, k>>] = Turn(e, k)
  OBVIOUS
<1> HIDE DEF step
<1>6. PICK g : RunsFrom(first, S, n, step, g)
  BY <1>2, <1>4, LoopRuns
<1>7. g \in [0..n -> S] /\ g[0] = first /\ \A k \in 1..n : g[k] = step[<<g[k - 1], k>>]
  BY <1>6 DEF RunsFrom
<1>8. Weighs(v, period, g)
  <2>1. \A k \in 1..n : g[k - 1] \in S
    BY <1>1, <1>7
  <2>2. \A k \in 1..n : g[k] = Turn(g[k - 1], k)
    BY <1>5, <1>7, <2>1
  <2>3. \A k \in 0..n : g[k] = IF k = 0 THEN first ELSE Turn(g[k - 1], k)
    BY <1>7, <2>2
  <2>4. g = [k \in 0..n |-> g[k]]
    BY <1>7
  <2>5. g = [k \in 0..n |-> IF k = 0 THEN first ELSE Turn(g[k - 1], k)]
    BY <2>3, <2>4
  <2> QED  BY <2>5 DEF Weighs, n, M, first
<1>9. Weighs(v, period, d)
  BY <1>8
<1>10. \A k \in 0..n : d[k] = IF k = 0 THEN first ELSE Turn(d[k - 1], k)
  BY <1>9 DEF Weighs, n, M, first
<1>11. ST!exponentialMovingAverage(v, period) = [k \in 1..(n + 1) |-> d[k - 1]]
  BY <1>1 DEF ST!exponentialMovingAverage, Weighs, n
<1> HIDE DEF d
<1> DEFINE N == { k \in Nat : k <= n => d[k] \in S }
<1>12. 0 \in N
  BY <1>1, <1>2, <1>10
<1>13. ASSUME NEW k \in Nat, k \in N PROVE k + 1 \in N
  <2> SUFFICES ASSUME k + 1 <= n PROVE d[k + 1] \in S
    OBVIOUS
  <2>1. d[k] \in S /\ k + 1 \in 1..n
    BY <1>1, <1>13
  <2>2. d[k + 1] = Turn(d[k], k + 1)
    <3>1. k + 1 \in 0..n /\ k + 1 # 0 /\ (k + 1) - 1 = k
      BY <2>1
    <3> HIDE DEF Turn
    <3>2. d[k + 1] = Turn(d[(k + 1) - 1], k + 1)
      BY <1>10, <3>1
    <3> QED  BY <3>1, <3>2
  <2> HIDE DEF Turn, S
  <2> QED  BY <1>3, <2>1, <2>2
<1>14. Nat \subseteq N
  <2> HIDE DEF N
  <2> QED  BY <1>12, <1>13, NatSetInduction
<1>15. \A k \in 1..(n + 1) : d[k - 1] \in S
  BY <1>1, <1>14
<1> HIDE DEF S
<1> QED  BY <1>11, <1>15 DEF n, S

(* Every list that is not empty has a least and a largest value.            *)
LEMMA Extremes ==
    ASSUME NEW v \in Seq(Nat), Len(v) >= 1
    PROVE  \E a, b \in 1..Len(v) : \A k \in 1..Len(v) : v[a] <= v[k] /\ v[k] <= v[b]
<1> DEFINE Ends(n, a, b) == \A k \in 1..n : v[a] <= v[k] /\ v[k] <= v[b]
           N == { n \in Nat : n >= 1 /\ n <= Len(v) => \E a, b \in 1..n : Ends(n, a, b) }
<1>1. 0 \in N
  OBVIOUS
<1>2. ASSUME NEW n \in Nat, n \in N PROVE n + 1 \in N
  <2> SUFFICES ASSUME n + 1 <= Len(v) PROVE \E a, b \in 1..(n + 1) : Ends(n + 1, a, b)
    OBVIOUS
  <2>0. \A k \in 1..(n + 1) : v[k] \in Nat /\ (k \in 1..n \/ k = n + 1)
    OBVIOUS
  <2>1. CASE n = 0
    <3>1. Ends(n + 1, 1, 1) /\ 1 \in 1..(n + 1)
      BY <2>0, <2>1
    <3> QED  BY <3>1
  <2>2. CASE n # 0
    <3>1. PICK a, b \in 1..n : Ends(n, a, b)
      BY <1>2, <2>2
    <3> DEFINE a2 == IF v[n + 1] < v[a] THEN n + 1 ELSE a
               b2 == IF v[n + 1] > v[b] THEN n + 1 ELSE b
    <3>2. a2 \in 1..(n + 1) /\ b2 \in 1..(n + 1)
      OBVIOUS
    <3>3. v[a2] <= v[a] /\ v[a2] <= v[n + 1] /\ v[b2] >= v[b] /\ v[b2] >= v[n + 1]
          /\ v[a] \in Nat /\ v[b] \in Nat /\ v[a2] \in Nat /\ v[b2] \in Nat
      BY <2>0
    <3> HIDE DEF a2, b2
    <3>4. ASSUME NEW k \in 1..(n + 1) PROVE v[a2] <= v[k] /\ v[k] <= v[b2]
      <4>1. v[k] \in Nat
        BY <2>0
      <4>2. CASE k \in 1..n
        <5>1. v[a] <= v[k] /\ v[k] <= v[b]
          BY <3>1, <4>2
        <5> DEFINE y == v[k]
                   least == v[a2]
                   largest == v[b2]
                   p == v[a]
                   q == v[b]
        <5>2. least <= p /\ p <= y /\ y <= q /\ q <= largest
              /\ {least, p, y, q, largest} \subseteq Nat
          BY <3>3, <4>1, <5>1
        <5> HIDE DEF y, least, largest, p, q
        <5>3. least <= y /\ y <= largest
          BY <5>2
        <5> QED  BY <5>3 DEF y, least, largest
      <4>3. CASE k = n + 1
        BY <3>3, <4>3
      <4> QED  BY <2>0, <4>2, <4>3
    <3> QED  BY <3>2, <3>4
  <2> QED  BY <2>1, <2>2
<1>3. Nat \subseteq N
  <2> HIDE DEF N
  <2> QED  BY <1>1, <1>2, NatSetInduction
<1>4. Len(v) \in N
  <2>1. Len(v) \in Nat
    OBVIOUS
  <2> HIDE DEF N
  <2> QED  BY <1>3, <2>1
<1> QED  BY <1>4

LEMMA LeastAndLargest ==
    ASSUME NEW v \in Seq(Nat), Len(v) >= 1
    PROVE  /\ Min(Range(v)) \in Nat /\ Max(Range(v)) \in Nat
           /\ \A k \in 1..Len(v) : v[k] \in Min(Range(v))..Max(Range(v))
<1>1. PICK a, b \in 1..Len(v) : \A k \in 1..Len(v) : v[a] <= v[k] /\ v[k] <= v[b]
  BY Extremes
<1>2. \A k \in 1..Len(v) : v[k] \in Nat
  OBVIOUS
<1>3. Range(v) = { v[k] : k \in 1..Len(v) }
  BY DEF Range
<1> DEFINE R == { v[k] : k \in 1..Len(v) }
<1>4. v[a] \in R /\ (\A y \in R : v[a] <= y) /\ R \subseteq Nat
      /\ v[b] \in R /\ (\A y \in R : y <= v[b])
  BY <1>1, <1>2
<1> HIDE DEF R
<1>5. Min(R) \in R /\ \A y \in R : Min(R) <= y
  BY <1>4 DEF Min
<1>6. Max(R) \in R /\ \A y \in R : y <= Max(R)
  <2>1. \A y \in R : v[b] >= y
    BY <1>4
  <2> QED  BY <1>4, <2>1 DEF Max
<1>7. \A k \in 1..Len(v) : v[k] \in R
  BY DEF R
<1>8. Range(v) = R
  BY <1>3 DEF R
<1>9. Min(R) \in Nat /\ Max(R) \in Nat
  BY <1>4, <1>5, <1>6
<1>10. \A k \in 1..Len(v) : v[k] \in Min(R)..Max(R)
  BY <1>4, <1>5, <1>6, <1>7, <1>9
<1> QED  BY <1>8, <1>9, <1>10

-----------------------------------------------------------------------------
(* THE CALENDAR.                                                            *)

(* Whatever the time, the next funding is the first one after it, at most   *)
(* an interval away.                                                        *)
THEOREM NextFundingExact ==
    ASSUME NEW time \in Nat
    PROVE  LET next == TU!baobabNextFundingTimestamp(time)
           IN  /\ next > time /\ TU!baobabShouldApplyFunding(next)
               /\ \A between \in (time + 1)..(next - 1) : ~TU!baobabShouldApplyFunding(between)
               /\ TU!baobabTimeUntilNextFunding(time) \in 1..TU!FUNDING_INTERVAL
<1> DEFINE I == TU!FUNDING_INTERVAL
           q == time \div I
           next == TU!baobabNextFundingTimestamp(time)
<1>1. I \in Nat \ {0}
  BY ScaleAssumption DEF TU!FUNDING_INTERVAL
<1>2. next = q * I + I
  BY DEF TU!baobabNextFundingTimestamp
<1> HIDE DEF I
<1>3. q \in Nat /\ I * q <= time /\ time < I * q + I
  BY <1>1, DivBounds
<1> HIDE DEF q, next
<1>4. q * I = I * q /\ I * q \in Nat /\ I * (q + 1) = I * q + I
  BY <1>1, <1>3, ProductTypes
<1>5. next \in Nat /\ next > time /\ next - time \in 1..I
  BY <1>1, <1>2, <1>3, <1>4
<1>6. next % I = 0
  <2>1. I * (q + 1) <= next /\ next < I * (q + 1) + I /\ q + 1 \in Int
    BY <1>1, <1>2, <1>3, <1>4
  <2>2. next % I = next - I * (q + 1)
    BY <1>1, <1>5, <2>1, QuotientIs
  <2> QED  BY <1>2, <1>4, <1>5, <2>2
<1>7. ASSUME NEW between \in (time + 1)..(next - 1) PROVE between % I # 0
  <2>1. between \in Nat /\ q \in Int /\ I * q < between
        /\ I * q <= between /\ between < I * q + I
    BY <1>1, <1>2, <1>3, <1>4, <1>5
  <2>2. between % I = between - I * q
    BY <1>1, <2>1, QuotientIs
  <2> QED  BY <1>4, <2>1, <2>2
<1>8. TU!baobabTimeUntilNextFunding(time) = next - time
  BY DEF TU!baobabTimeUntilNextFunding, next
<1> QED  BY <1>5, <1>6, <1>7, <1>8 DEF TU!baobabShouldApplyFunding, next, I

(* The day of the week, Monday 0, of a day since 1970.                      *)
DayOfWeek(day) == (day + 3) % 7

(* Whatever the time, the week's start is a Monday within the last seven    *)
(* days, and only the first four days have none.                            *)
THEOREM MondayExact ==
    ASSUME NEW time \in Nat
    PROVE  LET monday == TU!baobabStartOfWeek(time)
           IN  /\ monday # Revert =>
                     /\ monday <= time /\ time - monday < 7 * TU!SECONDS_PER_DAY
                     /\ TU!baobabStartOfWeek(monday) = monday
               /\ monday = Revert <=> time < 4 * TU!SECONDS_PER_DAY
<1> DEFINE D == TU!SECONDS_PER_DAY
           day == time \div D
           dow == DayOfWeek(day)
           monday == TU!baobabStartOfWeek(time)
<1>1. D \in Nat \ {0}
  BY ScaleAssumption DEF TU!SECONDS_PER_DAY
<1>2. monday = IF dow * D > day * D THEN Revert ELSE day * D - dow * D
  BY DEF TU!baobabStartOfWeek, TU!baobabStartOfDay, DayOfWeek
<1> HIDE DEF D
<1>3. day \in Nat /\ D * day <= time /\ time < D * day + D
  BY <1>1, DivBounds
<1> HIDE DEF day
<1>4. dow \in 0..6 /\ (day + 3 - dow) % 7 = 0
  BY <1>3 DEF DayOfWeek
<1>5. dow > day <=> day < 4
  BY <1>3 DEF DayOfWeek
<1> HIDE DEF dow, monday
<1>6. day * D = D * day /\ D * day \in Nat /\ dow * D \in Nat
  BY <1>1, <1>3, <1>4, ProductTypes
<1>7. dow * D > day * D <=> dow > day
  <2>1. CASE dow > day
    <3>1. (day + 1) * D <= dow * D /\ (day + 1) * D = day * D + D
      BY <1>1, <1>3, <1>4, <2>1, ProductOrder
    <3> QED  BY <1>1, <1>6, <2>1, <3>1
  <2>2. CASE ~(dow > day)
    <3>1. dow * D <= day * D
      BY <1>1, <1>3, <1>4, <2>2, ProductOrder
    <3> QED  BY <1>3, <1>4, <1>6, <2>2, <3>1
  <2> QED  BY <2>1, <2>2
<1>8. day < 4 <=> time < 4 * D
  <2>1. CASE day < 4
    <3>1. (day + 1) * D <= 4 * D /\ (day + 1) * D = day * D + D
      BY <1>1, <1>3, <2>1, ProductOrder
    <3> QED  BY <1>1, <1>3, <1>6, <2>1, <3>1
  <2>2. CASE ~(day < 4)
    <3>1. 4 * D <= day * D
      BY <1>1, <1>3, <2>2, ProductOrder
    <3> QED  BY <1>1, <1>3, <1>6, <2>2, <3>1
  <2> QED  BY <2>1, <2>2
<1>9. CASE day < 4
  <2>1. monday = Revert
    BY <1>2, <1>5, <1>7, <1>9
  <2> QED  BY <1>8, <1>9, <2>1 DEF monday, D
<1>10. CASE ~(day < 4)
  <2> DEFINE e == day - dow
  <2>1. e \in Nat /\ (e + 3) % 7 = 0 /\ e * D = day * D - dow * D /\ D * e = e * D
    <3>1. e \in Nat
      BY <1>3, <1>4, <1>5, <1>10
    <3>2. e + 3 = day + 3 - dow
      BY <1>3, <1>4
    <3>3. e * D = day * D - dow * D /\ D * e = e * D
      BY <1>1, <1>3, <1>4
    <3> QED  BY <1>4, <3>1, <3>2, <3>3
  <2> HIDE DEF e
  <2>2. monday = D * e
    BY <1>2, <1>5, <1>7, <1>10, <2>1
  <2>3. monday \in Nat /\ monday # Revert
    BY <1>1, <2>1, <2>2, ProductTypes, RevertAssumption
  <2>4. monday <= time /\ time - monday < 7 * D
    <3>1. dow * D <= 6 * D
      BY <1>1, <1>4, ProductOrder
    <3>2. monday = day * D - dow * D
      BY <2>1, <2>2
    <3> QED  BY <1>1, <1>3, <1>6, <2>3, <3>1, <3>2
  <2>5. monday \div D = e
    <3>1. D * e <= monday /\ monday < D * e + D /\ e \in Int /\ monday \in Nat
      BY <1>1, <2>1, <2>2, <2>3
    <3> QED  BY <1>1, <3>1, QuotientIs
  <2>6. TU!baobabStartOfWeek(monday) = monday
    <3>1. TU!baobabStartOfWeek(monday) = IF DayOfWeek(e) * D > e * D THEN Revert
                                         ELSE e * D - DayOfWeek(e) * D
      BY <2>5 DEF TU!baobabStartOfWeek, TU!baobabStartOfDay, DayOfWeek, D
    <3>2. DayOfWeek(e) = 0 /\ e * D \in Nat /\ 0 * D = 0
      BY <1>1, <2>1, ProductTypes DEF DayOfWeek
    <3> QED  BY <2>1, <2>2, <3>1, <3>2
  <2> QED  BY <1>8, <1>10, <2>3, <2>4, <2>6 DEF monday, D
<1> QED  BY <1>9, <1>10

LEMMA MarketsOpen ==
    ASSUME NEW time \in Nat
    PROVE  TU!baobabIsAnyAfricanMarketOpen(time)
             <=> time % TU!SECONDS_PER_DAY \in (6 * SECONDS_PER_HOUR)..(15 * SECONDS_PER_HOUR - 1)
<1> DEFINE H == SECONDS_PER_HOUR
           now == time % TU!SECONDS_PER_DAY
           Between(from, to) == now >= from * H /\ now < to * H
<1>1. H \in Nat \ {0} /\ now \in Nat
  <2>1. TU!SECONDS_PER_DAY \in Nat \ {0}
    BY ScaleAssumption DEF TU!SECONDS_PER_DAY
  <2> QED  BY <2>1, ScaleAssumption
<1>2. DOMAIN TU!MarketHours = {"NIGERIA", "SOUTH_AFRICA", "KENYA"}
      /\ TU!MarketHours["NIGERIA"] = <<8, 15>>
      /\ TU!MarketHours["SOUTH_AFRICA"] = <<7, 15>>
      /\ TU!MarketHours["KENYA"] = <<6, 13>>
  BY DEF TU!MarketHours
<1>3. TU!MarketOpen("NIGERIA", time) <=> Between(8, 15)
  BY <1>2 DEF TU!MarketOpen
<1>4. TU!MarketOpen("SOUTH_AFRICA", time) <=> Between(7, 15)
  BY <1>2 DEF TU!MarketOpen
<1>5. TU!MarketOpen("KENYA", time) <=> Between(6, 13)
  BY <1>2 DEF TU!MarketOpen
<1>6. TU!baobabIsAnyAfricanMarketOpen(time) <=> Between(8, 15) \/ Between(7, 15) \/ Between(6, 13)
  <2> HIDE DEF Between
  <2> QED  BY <1>2, <1>3, <1>4, <1>5 DEF TU!baobabIsAnyAfricanMarketOpen
<1> HIDE DEF now, H
<1>7. (Between(8, 15) \/ Between(7, 15) \/ Between(6, 13)) <=> now \in (6 * H)..(15 * H - 1)
  BY <1>1
<1> QED  BY <1>6, <1>7 DEF now, H

(* THE ROLES.                                                               *)

LEMMA LevelType == \A role \in AllRoles : getRoleAuthorityLevel(role) \in Nat
<1> SUFFICES ASSUME NEW role \in AllRoles PROVE getRoleAuthorityLevel(role) \in Nat
  OBVIOUS
<1> QED  BY DEF getRoleAuthorityLevel, AllRoles, AdministeredRoles

LEMMA AdminsMayGrant == \A role \in AllRoles : canGrantRole(InitialRoleAdmin(role), role)
<1> SUFFICES ASSUME NEW role \in AllRoles PROVE canGrantRole(InitialRoleAdmin(role), role)
  OBVIOUS
<1>1. CASE role \in AdministeredRoles
  <2>1. InitialRoleAdmin(role) = "ADMIN" /\ role # "OWNER"
    BY <1>1 DEF InitialRoleAdmin, AdministeredRoles
  <2>2. getRoleAuthorityLevel("ADMIN") = 80
    BY DEF getRoleAuthorityLevel
  <2>3. getRoleAuthorityLevel(role) <= 50
    BY <1>1 DEF getRoleAuthorityLevel, AdministeredRoles
  <2>4. getRoleAuthorityLevel(role) \in Nat
    BY LevelType
  <2> QED  BY <2>1, <2>2, <2>3, <2>4 DEF canGrantRole
<1>2. CASE role = "PAUSER"
  <2>1. InitialRoleAdmin(role) = "GUARDIAN"
    BY <1>2 DEF InitialRoleAdmin, AdministeredRoles
  <2>2. getRoleAuthorityLevel("GUARDIAN") = 70 /\ getRoleAuthorityLevel("PAUSER") = 25
    BY DEF getRoleAuthorityLevel
  <2> QED  BY <1>2, <2>1, <2>2 DEF canGrantRole
<1>3. CASE role \in {"OWNER", "ADMIN", "GUARDIAN", "UPGRADER"}
  <2>1. InitialRoleAdmin(role) = "OWNER"
    BY <1>3 DEF InitialRoleAdmin, AdministeredRoles
  <2>2. getRoleAuthorityLevel("OWNER") = 100 /\ getRoleAuthorityLevel("ADMIN") = 80
        /\ getRoleAuthorityLevel("GUARDIAN") = 70 /\ getRoleAuthorityLevel("UPGRADER") = 60
    BY DEF getRoleAuthorityLevel
  <2> QED  BY <1>3, <2>1, <2>2 DEF canGrantRole
<1> QED  BY <1>1, <1>2, <1>3 DEF AllRoles

LEMMA GrantsOrdered ==
    ASSUME NEW r1 \in AllRoles, NEW r2 \in AllRoles, NEW r3 \in AllRoles
    PROVE  /\ canGrantRole(r1, r2) /\ canGrantRole(r2, r1) => r1 = r2
           /\ canGrantRole(r1, r2) /\ canGrantRole(r2, r3) => canGrantRole(r1, r3)
<1> DEFINE level(role) == getRoleAuthorityLevel(role)
<1>1. level(r1) \in Nat /\ level(r2) \in Nat /\ level(r3) \in Nat
  BY LevelType
<1> QED  BY <1>1 DEF canGrantRole

-----------------------------------------------------------------------------
(* THE FORMULAS.                                                            *)

LEMMA FixedPointHolds == FixedPointExact
<1>1. \A x, y \in 0..MaxUint :
         FP!mul(x, y) = IF x * y < MaxUint THEN (x * y) \div Q96 ELSE Revert
  BY MulExact
<1>2. \A x, y \in 1..MaxUint :
         /\ FP!mulUp(x, y) \notin {0, Revert} =>
               /\ FP!mulUp(x, y) * Q96 >= x * y
               /\ (FP!mulUp(x, y) - 1) * Q96 < x * y
         /\ FP!divUp(x, y) # Revert =>
               /\ FP!divUp(x, y) * y >= x * Q96
               /\ FP!div(x, y) * y <= x * Q96
               /\ FP!divUp(x, y) - FP!div(x, y) \in {0, 1}
  BY MulUpExact, DivUpExact
<1>3. \A x \in 0..(MaxUint - 1) :
         FP!sqrt(x) * FP!sqrt(x) <= x /\ (FP!sqrt(x) + 1) * (FP!sqrt(x) + 1) > x
  BY SqrtExact DEF IsRoot
<1> QED  BY <1>1, <1>2, <1>3 DEF FixedPointExact

LEMMA FeesHold == FeesRoundTrip
<1> SUFFICES ASSUME NEW net \in 0..LargestAmount, NEW feeBps \in 0..(PERCENTAGE_FACTOR - 1)
             PROVE  LET gross == PC!amountBeforeFee(net, feeBps)
                    IN  /\ PC!amountAfterFee(gross, feeBps) = net
                        /\ PC!calculateFee(gross, feeBps) + net = gross
  BY DEF FeesRoundTrip
<1>1. net \in Nat
  BY AmountAssumption
<1> QED  BY <1>1, FeeRoundTrip

LEMMA InterestHolds == InterestAndPnlConsistent
<1>1. ASSUME NEW amount \in 0..LargestAmount, NEW rate \in 0..PERCENTAGE_FACTOR,
             NEW n \in 0..3, NEW m \in 0..3
      PROVE  PC!compound(amount, rate, n + m) = PC!compound(PC!compound(amount, rate, n), rate, m)
  <2>1. amount \in Nat /\ rate \in Nat /\ n \in Nat /\ m \in Nat
    BY AmountAssumption, ScaleAssumption
  <2> QED  BY <2>1, CompoundSplits
<1>2. ASSUME NEW entry \in 1..LargestAmount, NEW exit \in 0..LargestAmount
      PROVE  /\ PC!calculatePnlPercent(entry, exit, TRUE)
                = -PC!calculatePnlPercent(entry, exit, FALSE)
             /\ PC!calculatePnlPercent(entry, exit, TRUE) >= -PERCENTAGE_FACTOR
  <2>1. entry \in Nat \ {0} /\ exit \in Nat
    BY AmountAssumption
  <2> QED  BY <2>1, PnlOpposite
<1> QED  BY <1>1, <1>2 DEF InterestAndPnlConsistent

LEMMA ScoresType ==
    ASSUME TypeOK
    PROVE  Scores \in Seq(Nat) /\ Len(Scores) = Len(input) /\ DOMAIN Scores = 1..Len(Scores)
<1>1. input \in Seq(Entries) /\ Len(input) \in Nat /\ DOMAIN input = 1..Len(input)
  BY DEF TypeOK
<1>2. \A n \in 1..Len(input) : input[n].adlScore \in Nat
  BY <1>1, EntriesAssumption
<1>3. Scores = [n \in 1..Len(input) |-> input[n].adlScore]
  BY <1>1 DEF Scores
<1>4. Scores \in [1..Len(input) -> Nat]
  BY <1>2, <1>3
<1> QED  BY <1>1, <1>4

LEMMA DrawdownHolds ==
    ASSUME TypeOK
    PROVE  DrawdownExact
<1> SUFFICES ASSUME ST!maxDrawdown(Scores) # Revert
             PROVE  ST!maxDrawdown(Scores)
        = Max({0} \cup { ((Scores[p[1]] - Scores[p[2]]) * PERCENTAGE_FACTOR) \div Scores[p[1]] :
                  p \in { p \in (DOMAIN Scores) \X (DOMAIN Scores) :
                             p[1] < p[2] /\ Scores[p[1]] > Scores[p[2]] } })
  BY DEF DrawdownExact
<1>1. Scores \in Seq(Nat) /\ DOMAIN Scores = 1..Len(Scores)
  BY ScoresType
<1>2. ST!maxDrawdown(Scores) = Max(Falls(Scores, Len(Scores)))
  BY <1>1, MaxDrawdownExact
<1> QED  BY <1>1, <1>2 DEF Falls, Fall, Pairs

LEMMA AveragesHold ==
    ASSUME TypeOK
    PROVE  AveragesWithinRange
<1> SUFFICES ASSUME input # << >> PROVE AveragesWithinRange
  BY DEF AveragesWithinRange
<1> DEFINE lo == Min(Range(Scores))
           hi == Max(Range(Scores))
<1>1. /\ Scores \in Seq(Nat) /\ DOMAIN Scores = 1..Len(Scores)
      /\ Len(Scores) \in Nat \ {0} /\ Scores # << >>
  <2>1. Scores \in Seq(Nat) /\ Len(Scores) = Len(input) /\ DOMAIN Scores = 1..Len(Scores)
    BY ScoresType
  <2>2. Len(input) \in Nat \ {0}
    BY DEF TypeOK
  <2>3. Scores # << >>
    BY <2>1, <2>2
  <2> QED  BY <2>1, <2>2, <2>3
<1>2. lo \in Nat /\ hi \in Nat /\ \A k \in 1..Len(Scores) : Scores[k] \in lo..hi
  BY <1>1, LeastAndLargest
<1> DEFINE Within(x) == x >= lo /\ x <= hi
<1> HIDE DEF lo, hi
<1>3. Scores \in Seq(lo..hi)
  <2> DEFINE n == Len(Scores)
             S == lo..hi
  <2>1. Scores = [k \in 1..n |-> Scores[k]] /\ n \in Nat /\ \A k \in 1..n : Scores[k] \in S
    BY <1>1, <1>2
  <2> HIDE DEF n, S
  <2>2. Scores \in Seq(S)
    BY <2>1
  <2> QED  BY <2>2 DEF S
<1>4. Within(ST!mean(Scores))
  <2>1. ST!Total(Scores) \div Len(Scores) \in lo..hi
    BY <1>1, <1>2, <1>3, MeanWithin
  <2>2. ST!mean(Scores) = ST!Total(Scores) \div Len(Scores)
    BY <1>1 DEF ST!mean
  <2> QED  BY <1>2, <2>1, <2>2
<1>5. ASSUME NEW period \in 1..Len(Scores), NEW x \in Range(ST!simpleMovingAverage(Scores, period))
      PROVE  Within(x)
  <2>1. ST!simpleMovingAverage(Scores, period)
        = [ n \in 1..(Len(Scores) - period + 1) |->
              ST!Total(SubSeq(Scores, n, n + period - 1)) \div period ]
    BY <1>1 DEF ST!simpleMovingAverage
  <2>2. PICK n \in 1..(Len(Scores) - period + 1) :
           x = ST!Total(SubSeq(Scores, n, n + period - 1)) \div period
    BY <1>5, <2>1 DEF Range
  <2>3. x \in lo..hi
    BY <1>2, <1>3, <2>2, WindowWithin
  <2> QED  BY <1>2, <2>3
<1>6. ASSUME NEW period \in 1..Len(Scores),
             NEW x \in Range(ST!exponentialMovingAverage(Scores, period))
      PROVE  Within(x)
  <2>1. DOMAIN ST!exponentialMovingAverage(Scores, period) = 1..(Len(Scores) - period + 1)
    BY <1>1 DEF ST!exponentialMovingAverage
  <2>2. PICK n \in 1..(Len(Scores) - period + 1) :
           x = ST!exponentialMovingAverage(Scores, period)[n]
    BY <1>6, <2>1 DEF Range
  <2>3. x \in lo..hi
    BY <1>2, <1>3, <2>2, WeightedAveragesWithin
  <2> QED  BY <1>2, <2>3
<1> QED  BY <1>4, <1>5, <1>6 DEF AveragesWithinRange, lo, hi

LEMMA SchedulesHold == SchedulesExact
<1> SUFFICES ASSUME NEW time \in 0..(21 * TU!SECONDS_PER_DAY)
             PROVE  LET next == TU!baobabNextFundingTimestamp(time)
                        monday == TU!baobabStartOfWeek(time)
                    IN  /\ next > time /\ TU!baobabShouldApplyFunding(next)
                        /\ \A between \in (time + 1)..(next - 1) : ~TU!baobabShouldApplyFunding(between)
                        /\ TU!baobabTimeUntilNextFunding(time) \in 1..TU!FUNDING_INTERVAL
                        /\ monday # Revert =>
                              /\ monday <= time /\ time - monday < 7 * TU!SECONDS_PER_DAY
                              /\ TU!baobabStartOfWeek(monday) = monday
                        /\ monday = Revert <=> time < 4 * TU!SECONDS_PER_DAY
                        /\ TU!baobabIsAnyAfricanMarketOpen(time)
                           <=> time % TU!SECONDS_PER_DAY \in
                                  (6 * SECONDS_PER_HOUR)..(15 * SECONDS_PER_HOUR - 1)
  BY DEF SchedulesExact
<1>1. time \in Nat
  OBVIOUS
<1> QED  BY <1>1, NextFundingExact, MondayExact, MarketsOpen

LEMMA RolesHold == RegistryOrdersRoles
  BY AdminsMayGrant, GrantsOrdered DEF RegistryOrdersRoles

(* For every scale, word, amount, series and time, the formulas return what *)
(* FormulasExact says of them: FixedPointMath, PercentageMath, Statistics,  *)
(* TimeUtils and RoleRegistry.                                              *)
THEOREM FormulasHold == Spec => []FormulasExact
<1>1. TypeOK => FormulasExact
  BY FixedPointHolds, FeesHold, InterestHolds, DrawdownHolds, AveragesHold, SchedulesHold,
     RolesHold DEF FormulasExact
<1> QED  BY <1>1, SortTypeCorrect, PTL

=============================================================================
