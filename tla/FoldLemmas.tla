------------------------------- MODULE FoldLemmas -------------------------------
(***************************************************************************)
(* Induction with sets in place of predicates, and what follows from it:    *)
(* that a loop written as a function on 0..n computes its turns, and that a *)
(* sum over a finite set is the sum of its parts; what products and whole   *)
(* quotients preserve; and what swap-and-pop and an append make of a list   *)
(* without repetition.                                                      *)
(***************************************************************************)
EXTENDS Integers, Sequences, FiniteSets, Functions, SequencesExt,
        FiniteSetTheorems, WellFoundedInduction, TLAPS

(* A set of numbers that holds 0 and with each number the next is all.      *)
LEMMA NatSetInduction ==
    ASSUME NEW N, 0 \in N, \A n \in Nat : n \in N => n + 1 \in N
    PROVE  Nat \subseteq N
<1> DEFINE T == Nat \ N
           R == { ss \in Nat \X Nat : ss[1] < ss[2] }
<1> SUFFICES ASSUME T # {} PROVE FALSE
  OBVIOUS
<1>1. IsWellFoundedOn(R, Nat)
  BY NatLessThanWellFounded DEF OpToRel
<1>2. PICK x \in T : \A y \in T : ~(<<y, x>> \in R)
  <2>1. T \subseteq Nat
    OBVIOUS
  <2> HIDE DEF T, R
  <2> QED  BY <1>1, <2>1, WFMin
<1>3. x # 0 /\ x - 1 \in Nat
  BY <1>2
<1>4. x - 1 \in N
  <2>1. <<x - 1, x>> \in R
    BY <1>2, <1>3
  <2> QED  BY <1>2, <1>3, <2>1
<1> QED  BY <1>2, <1>3, <1>4

(* Taking one element out of a finite set.                                  *)
LEMMA RemoveOne ==
    ASSUME NEW T, IsFiniteSet(T), NEW x \in T
    PROVE  /\ IsFiniteSet(T \ {x})
           /\ Cardinality(T) \in Nat /\ Cardinality(T \ {x}) \in Nat
           /\ Cardinality(T \ {x}) = Cardinality(T) - 1
<1>1. Cardinality(T \ {x}) = Cardinality(T) - 1 /\ IsFiniteSet(T \ {x})
  BY FS_RemoveElement
<1>2. Cardinality(T) \in Nat /\ Cardinality(T \ {x}) \in Nat
  BY <1>1, FS_CardinalityType
<1> QED  BY <1>1, <1>2

(* A family of sets that holds the empty set, and with a part of S also the *)
(* part with one more element of S, holds the finite set S.                 *)
LEMMA FiniteSetInduction ==
    ASSUME NEW S, IsFiniteSet(S), NEW F, {} \in F,
           \A T \in SUBSET S, x \in S : T \in F /\ x \notin T => T \cup {x} \in F
    PROVE  S \in F
<1> DEFINE N == { n \in Nat : \A T \in SUBSET S : Cardinality(T) = n => T \in F }
<1>1. 0 \in N
  BY FS_Subset, FS_EmptySet
<1>2. ASSUME NEW n \in Nat, n \in N PROVE n + 1 \in N
  <2> SUFFICES ASSUME NEW T \in SUBSET S, Cardinality(T) = n + 1 PROVE T \in F
    OBVIOUS
  <2>1. IsFiniteSet(T)
    BY FS_Subset
  <2>2. T # {}
    BY <2>1, FS_EmptySet
  <2>3. PICK x \in T : TRUE
    BY <2>2
  <2>4. Cardinality(T \ {x}) = n
    BY <2>1, <2>3, RemoveOne
  <2>5. T \ {x} \in F
    BY <1>2, <2>4
  <2>6. T = (T \ {x}) \cup {x}
    OBVIOUS
  <2> QED  BY <2>5, <2>6
<1>3. Nat \subseteq N
  <2> HIDE DEF N
  <2> QED  BY <1>1, <1>2, NatSetInduction
<1> QED  BY <1>3, FS_CardinalityType

-----------------------------------------------------------------------------
(* A loop of n turns that keeps its state in S, turn k being step[s, k], is *)
(* computed by a function on 0..n.                                          *)
StepsIn(S, n, step) == n \in Nat /\ step \in [S \X (1..n) -> S]

RunsFrom(s0, S, n, step, g) ==
    g \in [0..n -> S] /\ g[0] = s0 /\ \A k \in 1..n : g[k] = step[<<g[k - 1], k>>]

LEMMA LoopRuns ==
    ASSUME NEW S, NEW s0, NEW n, NEW step, s0 \in S, StepsIn(S, n, step)
    PROVE  \E g : RunsFrom(s0, S, n, step, g)
<1> DEFINE Runs(m, g) == /\ g \in [0..m -> S]
                         /\ g[0] = s0
                         /\ \A k \in 1..m : g[k] = step[<<g[k - 1], k>>]
           N == { m \in Nat : m <= n => \E g : Runs(m, g) }
<1> USE DEF StepsIn
<1>1. 0 \in N
  <2>1. Runs(0, [k \in 0..0 |-> s0])
    OBVIOUS
  <2> QED  BY <2>1
<1>2. ASSUME NEW m \in Nat, m \in N PROVE m + 1 \in N
  <2> SUFFICES ASSUME m + 1 <= n PROVE \E g : Runs(m + 1, g)
    OBVIOUS
  <2>1. PICK g : Runs(m, g)
    BY <1>2
  <2> DEFINE h == [k \in 0..(m + 1) |-> IF k <= m THEN g[k] ELSE step[<<g[m], m + 1>>]]
  <2>2. step[<<g[m], m + 1>>] \in S
    BY <2>1
  <2>3. h \in [0..(m + 1) -> S] /\ h[0] = s0
    BY <2>1, <2>2
  <2>4. ASSUME NEW k \in 1..(m + 1) PROVE h[k] = step[<<h[k - 1], k>>]
    <3>1. CASE k <= m
      <4>1. h[k] = g[k] /\ h[k - 1] = g[k - 1] /\ k \in 1..m
        BY <3>1
      <4> QED  BY <2>1, <4>1
    <3>2. CASE k = m + 1
      BY <3>2
    <3> QED  BY <3>1, <3>2
  <2>5. Runs(m + 1, h)
    BY <2>3, <2>4
  <2> QED  BY <2>5
<1>3. n \in N
  <2> HIDE DEF N
  <2> QED  BY <1>1, <1>2, NatSetInduction
<1> QED  BY <1>3 DEF RunsFrom

(* A loop whose every turn keeps S ends in S.                               *)
LEMMA LoopStays ==
    ASSUME NEW S, NEW n \in Nat, NEW f, f[0] \in S,
           \A k \in 1..n : f[k - 1] \in S => f[k] \in S
    PROVE  f[n] \in S
<1> DEFINE N == { k \in Nat : k <= n => f[k] \in S }
<1>1. 0 \in N
  OBVIOUS
<1>2. ASSUME NEW k \in Nat, k \in N PROVE k + 1 \in N
  <2>1. CASE k + 1 <= n
    <3>1. f[k] \in S /\ k + 1 \in 1..n /\ (k + 1) - 1 = k
      BY <1>2, <2>1
    <3> QED  BY <2>1, <3>1
  <2>2. CASE ~(k + 1 <= n)
    BY <2>2
  <2> QED  BY <2>1, <2>2
<1>3. n \in N
  <2> HIDE DEF N
  <2> QED  BY <1>1, <1>2, NatSetInduction
<1> QED  BY <1>3

-----------------------------------------------------------------------------
(* The sum over a finite set adds its elements in the order in which they   *)
(* are picked; which order that is makes no difference.                     *)
Pick(s) == CHOOSE x \in s : TRUE

AddsUp(g, f, S) ==
    \A s \in SUBSET S : g[s] = IF s = {} THEN 0 ELSE f[Pick(s)] + g[s \ {Pick(s)}]

Totals(g, f, S) ==
    /\ g \in [SUBSET S -> Int]
    /\ \A x \in S : f[x] \in Int
    /\ AddsUp(g, f, S)

InAnyOrder(g, f, S) == \A s \in SUBSET S : \A x \in s : g[s] = f[x] + g[s \ {x}]

LEMMA SumExists ==
    ASSUME NEW S, IsFiniteSet(S), NEW D, S \subseteq D, NEW f \in [D -> Int]
    PROVE  \E g \in [SUBSET S -> Int] : AddsUp(g, f, S)
<1> DEFINE Small(n) == { s \in SUBSET S : Cardinality(s) <= n }
           Adds(n, g) == /\ g \in [Small(n) -> Int]
                         /\ \A s \in Small(n) :
                               g[s] = IF s = {} THEN 0 ELSE f[Pick(s)] + g[s \ {Pick(s)}]
           N == { n \in Nat : \E g : Adds(n, g) }
<1>0. ASSUME NEW n \in Nat, NEW s \in Small(n + 1), s # {}
      PROVE  s \ {Pick(s)} \in Small(n) /\ Pick(s) \in S
  <2>1. Pick(s) \in s
    BY <1>0 DEF Pick
  <2>2. IsFiniteSet(s) /\ Cardinality(s) \in Nat
    BY FS_Subset, FS_CardinalityType
  <2>3. Cardinality(s \ {Pick(s)}) = Cardinality(s) - 1
    BY <2>1, <2>2, RemoveOne
  <2> QED  BY <2>1, <2>2, <2>3
<1>1. 0 \in N
  <2>1. \A s \in Small(0) : s = {}
    BY FS_Subset, FS_EmptySet, FS_CardinalityType
  <2>2. Adds(0, [s \in Small(0) |-> 0])
    BY <2>1
  <2> QED  BY <2>2
<1>2. ASSUME NEW n \in Nat, n \in N PROVE n + 1 \in N
  <2>1. PICK g : Adds(n, g)
    BY <1>2
  <2> DEFINE h == [s \in Small(n + 1) |->
                     IF s = {} THEN 0 ELSE f[Pick(s)] + g[s \ {Pick(s)}]]
  <2>2. h \in [Small(n + 1) -> Int]
    BY <1>0, <2>1
  <2>3. \A s \in Small(n) : s \in Small(n + 1) /\ h[s] = g[s]
    <3>1. \A s \in SUBSET S : Cardinality(s) \in Nat
      BY FS_Subset, FS_CardinalityType
    <3> QED  BY <2>1, <3>1
  <2>4. Adds(n + 1, h)
    BY <1>0, <2>2, <2>3
  <2>5. \E it : Adds(n + 1, it)
    <3> HIDE DEF Adds, h
    <3> QED  BY <2>4
  <2> HIDE DEF Adds, h
  <2> QED  BY <2>5
<1>3. Nat \subseteq N
  <2> HIDE DEF N
  <2> QED  BY <1>1, <1>2, NatSetInduction
<1>4. PICK g : Adds(Cardinality(S), g)
  BY <1>3, FS_CardinalityType
<1>5. Small(Cardinality(S)) = SUBSET S
  BY FS_Subset
<1> QED  BY <1>4, <1>5 DEF AddsUp

LEMMA SumIs ==
    ASSUME NEW S, IsFiniteSet(S), NEW D, S \subseteq D, NEW f \in [D -> Int],
           NEW g, AddsUp(g, f, S)
    PROVE  SumFunctionOnSet(f, S) = g[S]
<1> DEFINE c == CHOOSE it : it = [s \in SUBSET S |->
                    IF s = {} THEN 0 ELSE f[Pick(s)] + it[s \ {Pick(s)}]]
<1>1. SumFunctionOnSet(f, S) = c[S]
  BY DEF SumFunctionOnSet, FoldFunctionOnSet, MapThenFoldSet, Pick
<1>2. c = [s \in SUBSET S |-> IF s = {} THEN 0 ELSE f[Pick(s)] + c[s \ {Pick(s)}]]
  <2>1. PICK it \in [SUBSET S -> Int] : AddsUp(it, f, S)
    BY SumExists
  <2>2. it = [s \in SUBSET S |-> IF s = {} THEN 0 ELSE f[Pick(s)] + it[s \ {Pick(s)}]]
    BY <2>1 DEF AddsUp
  <2> QED  BY <2>2
<1>3. AddsUp(c, f, S)
  <2> HIDE DEF c
  <2> QED  BY <1>2 DEF AddsUp
<1> HIDE DEF c
<1> DEFINE N == { n \in Nat : \A T \in SUBSET S : Cardinality(T) = n => c[T] = g[T] }
<1>4. 0 \in N
  BY <1>3, FS_Subset, FS_EmptySet DEF AddsUp
<1>5. ASSUME NEW n \in Nat, n \in N PROVE n + 1 \in N
  <2> SUFFICES ASSUME NEW T \in SUBSET S, Cardinality(T) = n + 1 PROVE c[T] = g[T]
    OBVIOUS
  <2>1. IsFiniteSet(T) /\ T # {}
    BY FS_Subset, FS_EmptySet
  <2>2. Pick(T) \in T
    BY <2>1 DEF Pick
  <2>3. Cardinality(T \ {Pick(T)}) = n
    BY <2>1, <2>2, RemoveOne
  <2>4. c[T \ {Pick(T)}] = g[T \ {Pick(T)}]
    BY <1>5, <2>3
  <2> QED  BY <1>3, <2>1, <2>4 DEF AddsUp
<1>6. Nat \subseteq N
  <2> HIDE DEF N
  <2> QED  BY <1>4, <1>5, NatSetInduction
<1> QED  BY <1>1, <1>6, FS_CardinalityType

LEMMA AnyOrder ==
    ASSUME NEW S, IsFiniteSet(S), NEW f, NEW g, Totals(g, f, S)
    PROVE  InAnyOrder(g, f, S)
<1> USE DEF Totals, InAnyOrder
<1> DEFINE N == { n \in Nat : \A T \in SUBSET S : \A y \in T :
                     Cardinality(T) = n => g[T] = f[y] + g[T \ {y}] }
<1>0. \A T \in SUBSET S : IsFiniteSet(T) /\ Cardinality(T) \in Nat
  BY FS_Subset, FS_CardinalityType
<1>1. 0 \in N
  BY <1>0, FS_EmptySet
<1>2. ASSUME NEW n \in Nat, n \in N PROVE n + 1 \in N
  <2> SUFFICES ASSUME NEW T \in SUBSET S, NEW y \in T, Cardinality(T) = n + 1
               PROVE  g[T] = f[y] + g[T \ {y}]
    OBVIOUS
  <2> DEFINE x == Pick(T)
  <2>1. x \in T /\ g[T] = f[x] + g[T \ {x}]
    BY DEF AddsUp, Pick
  <2> HIDE DEF x
  <2>2. CASE x = y
    BY <2>1, <2>2
  <2>3. CASE x # y
    <3>1. Cardinality(T \ {x}) = n /\ Cardinality(T \ {y}) = n
      BY <1>0, <2>1, RemoveOne
    <3>2. y \in T \ {x} /\ x \in T \ {y}
      BY <2>1, <2>3
    <3>3. g[T \ {x}] = f[y] + g[(T \ {x}) \ {y}]
      BY <1>2, <3>1, <3>2
    <3>4. g[T \ {y}] = f[x] + g[(T \ {y}) \ {x}]
      BY <1>2, <3>1, <3>2
    <3>5. (T \ {x}) \ {y} = (T \ {y}) \ {x}
      OBVIOUS
    <3> DEFINE rest == (T \ {x}) \ {y}
    <3>6. g[rest] \in Int /\ f[x] \in Int /\ f[y] \in Int
      BY <2>1
    <3>7. g[T \ {x}] = f[y] + g[rest] /\ g[T \ {y}] = f[x] + g[rest]
      BY <3>3, <3>4, <3>5
    <3> HIDE DEF rest
    <3> QED  BY <2>1, <3>6, <3>7
  <2> QED  BY <2>2, <2>3
<1>3. Nat \subseteq N
  <2> HIDE DEF N
  <2> QED  BY <1>1, <1>2, NatSetInduction
<1> QED  BY <1>0, <1>3

(* The sum over nothing is 0; one more element adds its value.              *)
LEMMA SumEmpty ==
    ASSUME NEW D, NEW f \in [D -> Int]
    PROVE  SumFunctionOnSet(f, {}) = 0
<1>1. IsFiniteSet({}) /\ {} \subseteq D
  BY FS_EmptySet
<1>2. PICK g \in [SUBSET {} -> Int] : AddsUp(g, f, {})
  BY <1>1, SumExists
<1>3. g[{}] = 0
  BY <1>2 DEF AddsUp
<1> QED  BY <1>1, <1>2, <1>3, SumIs

LEMMA SumType ==
    ASSUME NEW D, NEW f \in [D -> Int], NEW S, IsFiniteSet(S), S \subseteq D
    PROVE  SumFunctionOnSet(f, S) \in Int
<1>1. PICK g \in [SUBSET S -> Int] : AddsUp(g, f, S)
  BY SumExists
<1> QED  BY <1>1, SumIs

LEMMA SumSplit ==
    ASSUME NEW D, NEW f \in [D -> Int], NEW S, IsFiniteSet(S), S \subseteq D, NEW x \in S
    PROVE  SumFunctionOnSet(f, S) = f[x] + SumFunctionOnSet(f, S \ {x})
<1>1. PICK g \in [SUBSET S -> Int] : AddsUp(g, f, S)
  BY SumExists
<1>2. IsFiniteSet(S \ {x}) /\ S \ {x} \subseteq D
  BY RemoveOne
<1>3. AddsUp(g, f, S \ {x})
  BY <1>1 DEF AddsUp
<1>4. SumFunctionOnSet(f, S) = g[S] /\ SumFunctionOnSet(f, S \ {x}) = g[S \ {x}]
  BY <1>1, <1>2, <1>3, SumIs
<1>5. g[S] = f[x] + g[S \ {x}]
  <2>1. Totals(g, f, S)
    BY <1>1 DEF Totals
  <2>2. InAnyOrder(g, f, S)
    BY <2>1, AnyOrder
  <2> QED  BY <2>2 DEF InAnyOrder
<1> QED  BY <1>4, <1>5

LEMMA SumRemove ==
    ASSUME NEW D, NEW f \in [D -> Int], NEW S, IsFiniteSet(S), S \subseteq D, NEW x \in S
    PROVE  /\ SumFunctionOnSet(f, S \ {x}) \in Int
           /\ SumFunctionOnSet(f, S \ {x}) = SumFunctionOnSet(f, S) - f[x]
<1>1. IsFiniteSet(S \ {x}) /\ S \ {x} \subseteq D
  BY RemoveOne
<1>2. SumFunctionOnSet(f, S) \in Int /\ SumFunctionOnSet(f, S \ {x}) \in Int /\ f[x] \in Int
  BY <1>1, SumType
<1> QED  BY <1>2, SumSplit

LEMMA SumAdd ==
    ASSUME NEW D, NEW f \in [D -> Int], NEW S, IsFiniteSet(S), S \subseteq D, NEW x \in D \ S
    PROVE  /\ SumFunctionOnSet(f, S) \in Int
           /\ SumFunctionOnSet(f, S \cup {x}) = SumFunctionOnSet(f, S) + f[x]
<1>1. IsFiniteSet(S \cup {x}) /\ S \cup {x} \subseteq D /\ x \in S \cup {x}
      /\ (S \cup {x}) \ {x} = S
  BY FS_AddElement
<1>2. SumFunctionOnSet(f, S \cup {x}) = f[x] + SumFunctionOnSet(f, (S \cup {x}) \ {x})
  BY <1>1, SumSplit
<1>3. SumFunctionOnSet(f, S) \in Int /\ f[x] \in Int
  BY SumType
<1>4. SumFunctionOnSet(f, S \cup {x}) = f[x] + SumFunctionOnSet(f, S)
  BY <1>1, <1>2
<1> QED  BY <1>3, <1>4

(* Functions that agree on a set have the same sum over it.                 *)
LEMMA SumSame ==
    ASSUME NEW D, NEW f \in [D -> Int], NEW E, NEW h \in [E -> Int],
           NEW S, IsFiniteSet(S), S \subseteq D, S \subseteq E,
           \A x \in S : f[x] = h[x]
    PROVE  SumFunctionOnSet(f, S) = SumFunctionOnSet(h, S)
<1> DEFINE F == { T \in SUBSET S : SumFunctionOnSet(f, T) = SumFunctionOnSet(h, T) }
<1>1. {} \in F
  BY SumEmpty
<1>2. ASSUME NEW T \in SUBSET S, NEW x \in S, T \in F, x \notin T
      PROVE  T \cup {x} \in F
  <2>1. IsFiniteSet(T) /\ T \subseteq D /\ T \subseteq E /\ x \in D \ T /\ x \in E \ T
    BY <1>2, FS_Subset
  <2>2. SumFunctionOnSet(f, T \cup {x}) = SumFunctionOnSet(f, T) + f[x]
    BY <2>1, SumAdd
  <2>3. SumFunctionOnSet(h, T \cup {x}) = SumFunctionOnSet(h, T) + h[x]
    BY <2>1, SumAdd
  <2> QED  BY <1>2, <2>2, <2>3
<1>3. S \in F
  <2> HIDE DEF F
  <2> QED  BY <1>1, <1>2, FiniteSetInduction
<1> QED  BY <1>3

(* A sum of numbers at or above zero is at or above zero, and at or above   *)
(* the sum of any part of them.                                             *)
LEMMA SumNat ==
    ASSUME NEW D, NEW f \in [D -> Int], NEW S, IsFiniteSet(S), S \subseteq D,
           \A x \in S : f[x] \in Nat
    PROVE  SumFunctionOnSet(f, S) \in Nat
<1> DEFINE F == { T \in SUBSET S : SumFunctionOnSet(f, T) \in Nat }
<1>1. {} \in F
  BY SumEmpty
<1>2. ASSUME NEW T \in SUBSET S, NEW x \in S, T \in F, x \notin T
      PROVE  T \cup {x} \in F
  <2>1. IsFiniteSet(T) /\ T \subseteq D /\ x \in D \ T
    BY <1>2, FS_Subset
  <2>2. SumFunctionOnSet(f, T \cup {x}) = SumFunctionOnSet(f, T) + f[x]
    BY <2>1, SumAdd
  <2> QED  BY <1>2, <2>2
<1>3. S \in F
  <2> HIDE DEF F
  <2> QED  BY <1>1, <1>2, FiniteSetInduction
<1> QED  BY <1>3

LEMMA SumCoversEach ==
    ASSUME NEW D, NEW f \in [D -> Int], NEW S, IsFiniteSet(S), S \subseteq D,
           \A x \in S : f[x] \in Nat, NEW y \in S
    PROVE  SumFunctionOnSet(f, S) >= f[y]
<1>1. IsFiniteSet(S \ {y}) /\ S \ {y} \subseteq D
  BY RemoveOne
<1>2. SumFunctionOnSet(f, S \ {y}) \in Nat
  BY <1>1, SumNat
<1>3. SumFunctionOnSet(f, S \ {y}) = SumFunctionOnSet(f, S) - f[y]
  BY SumRemove
<1>4. SumFunctionOnSet(f, S) \in Int /\ f[y] \in Int
  BY SumType
<1> QED  BY <1>2, <1>3, <1>4

(* Two sets that differ in one element at most, and functions that agree    *)
(* elsewhere, have sums that differ by that element's values.               *)
LEMMA SumMoved ==
    ASSUME NEW D, NEW f \in [D -> Int], NEW h \in [D -> Int],
           NEW S, IsFiniteSet(S), S \subseteq D, NEW T, IsFiniteSet(T), T \subseteq D,
           NEW x \in D, S \ {x} = T \ {x}, \A y \in S \ {x} : f[y] = h[y]
    PROVE  /\ SumFunctionOnSet(f, S) \in Int /\ SumFunctionOnSet(h, T) \in Int
           /\ SumFunctionOnSet(h, T) - (IF x \in T THEN h[x] ELSE 0)
                = SumFunctionOnSet(f, S) - (IF x \in S THEN f[x] ELSE 0)
<1>1. IsFiniteSet(S \ {x}) /\ S \ {x} \subseteq D
  BY FS_Subset
<1>2. SumFunctionOnSet(f, S \ {x}) = SumFunctionOnSet(h, S \ {x})
  BY <1>1, SumSame
<1>3. SumFunctionOnSet(f, S \ {x}) = SumFunctionOnSet(f, S) - (IF x \in S THEN f[x] ELSE 0)
      /\ SumFunctionOnSet(f, S) \in Int
  <2>1. CASE x \in S
    BY <2>1, SumType, SumRemove
  <2>2. CASE x \notin S
    <3>1. S \ {x} = S
      BY <2>2
    <3>2. SumFunctionOnSet(f, S) \in Int
      BY SumType
    <3>3. SumFunctionOnSet(f, S \ {x}) = SumFunctionOnSet(f, S)
      BY <3>1, Zenon
    <3> QED  BY <2>2, <3>2, <3>3
  <2> QED  BY <2>1, <2>2
<1>4. SumFunctionOnSet(h, T \ {x}) = SumFunctionOnSet(h, T) - (IF x \in T THEN h[x] ELSE 0)
      /\ SumFunctionOnSet(h, T) \in Int
  <2>1. CASE x \in T
    BY <2>1, SumType, SumRemove
  <2>2. CASE x \notin T
    <3>1. T \ {x} = T
      BY <2>2
    <3>2. SumFunctionOnSet(h, T) \in Int
      BY SumType
    <3>3. SumFunctionOnSet(h, T \ {x}) = SumFunctionOnSet(h, T)
      BY <3>1, Zenon
    <3> QED  BY <2>2, <3>2, <3>3
  <2> QED  BY <2>1, <2>2
<1> QED  BY <1>2, <1>3, <1>4

-----------------------------------------------------------------------------
(* ARITHMETIC: products, and quotients rounded down.                        *)

(* Division by a positive number stays within the integers, and within the  *)
(* naturals for a natural dividend.                                         *)
LEMMA DivTypes ==
    ASSUME NEW a \in Int, NEW b \in Nat \ {0}
    PROVE  a \div b \in Int /\ (a >= 0 => a \div b \in Nat)
  OBVIOUS

LEMMA ProductTypes ==
    ASSUME NEW a \in Int, NEW b \in Int
    PROVE  a * b \in Int /\ (a >= 0 /\ b >= 0 => a * b >= 0)
  OBVIOUS

(* Division rounds down by less than one divisor.                           *)
LEMMA DivBounds ==
    ASSUME NEW a \in Nat, NEW b \in Nat \ {0}
    PROVE  a \div b \in Nat /\ b * (a \div b) <= a /\ a < b * (a \div b) + b
  OBVIOUS

LEMMA ProductOrder ==
    ASSUME NEW a \in Int, NEW b \in Int, NEW c \in Nat, a <= b
    PROVE  a * c <= b * c
  OBVIOUS

LEMMA ProductCancel ==
    ASSUME NEW a \in Int, NEW b \in Nat \ {0}, NEW c \in Int, b * a < b * c
    PROVE  a < c
  OBVIOUS

(* No other number is the quotient, nor the rest.                           *)
LEMMA QuotientIs ==
    ASSUME NEW a \in Nat, NEW b \in Nat \ {0}, NEW q \in Int,
           b * q <= a, a < b * q + b
    PROVE  a \div b = q /\ a % b = a - b * q
<1>1. a \div b \in Nat /\ b * (a \div b) <= a /\ a < b * (a \div b) + b
  BY DivBounds
<1> DEFINE p == a \div b
<1>2. p \in Nat /\ b * p <= a /\ a < b * p + b
  BY <1>1
<1> HIDE DEF p
<1>3. b * p < b * (q + 1) /\ b * q < b * (p + 1)
  <2>1. b * (q + 1) = b * q + b /\ b * (p + 1) = b * p + b
    BY <1>2
  <2>2. b * p \in Int /\ b * q \in Int
    BY <1>2, ProductTypes
  <2> QED  BY <1>2, <2>1, <2>2
<1>4. p < q + 1 /\ q < p + 1
  BY <1>2, <1>3, ProductCancel
<1>5. p = q
  BY <1>2, <1>4
<1>6. a % b = a - b * p
  BY DEF p
<1> QED  BY <1>5, <1>6 DEF p

-----------------------------------------------------------------------------
(* LISTS without repetition, from which entries are removed by swap-and-pop. *)

(* The last entry goes where the removed one was.                           *)
SwapPop(q, at) == Front([q EXCEPT ![at] = Last(q)])

LEMMA SwapAndPop ==
    ASSUME NEW S, NEW q \in Seq(S), IsInjective(q), NEW at \in 1..Len(q)
    PROVE  LET r == SwapPop(q, at)
           IN  /\ r \in Seq(S) /\ Len(r) = Len(q) - 1
               /\ \A i \in 1..(Len(q) - 1) : r[i] = IF i = at THEN q[Len(q)] ELSE q[i]
               /\ IsInjective(r)
               /\ ToSet(r) = ToSet(q) \ {q[at]}
<1> DEFINE n == Len(q)
           moved == [q EXCEPT ![at] = Last(q)]
           r == Front(moved)
<1>1. n \in Nat /\ n >= 1 /\ at \in 1..n /\ q \in [1..n -> S] /\ Last(q) = q[n]
  BY DEF Last
<1>2. moved = [i \in 1..n |-> IF i = at THEN q[n] ELSE q[i]]
  BY <1>1
<1>3. moved \in Seq(S) /\ Len(moved) = n
  BY <1>1, <1>2
<1>4. r = [i \in 1..(n - 1) |-> moved[i]]
  BY <1>1, <1>3 DEF Front
<1>5. \A i \in 1..(n - 1) : r[i] = (IF i = at THEN q[n] ELSE q[i]) /\ r[i] \in S
  BY <1>1, <1>2, <1>4
<1>6. r \in Seq(S) /\ Len(r) = n - 1 /\ DOMAIN r = 1..(n - 1)
  <2> HIDE DEF moved, r, n
  <2>1. r \in [1..(n - 1) -> S]
    BY <1>1, <1>4, <1>5
  <2> QED  BY <1>1, <2>1
<1>7. \A i, j \in 1..n : q[i] = q[j] => i = j
  BY <1>1 DEF IsInjective
<1> HIDE DEF r, n, moved
<1>8. IsInjective(r)
  <2>1. ASSUME NEW i \in 1..(n - 1), NEW j \in 1..(n - 1), r[i] = r[j] PROVE i = j
    BY <1>1, <1>5, <1>7, <2>1
  <2> QED  BY <1>6, <2>1 DEF IsInjective
<1>9. ToSet(r) = ToSet(q) \ {q[at]}
  <2>1. ToSet(r) = { r[i] : i \in 1..(n - 1) } /\ ToSet(q) = { q[i] : i \in 1..n }
    BY <1>1, <1>6 DEF ToSet
  <2>2. ASSUME NEW i \in 1..(n - 1) PROVE \E j \in 1..n : r[i] = q[j] /\ q[j] # q[at]
    BY <1>1, <1>5, <1>7
  <2>3. ASSUME NEW j \in 1..n, q[j] # q[at] PROVE \E i \in 1..(n - 1) : r[i] = q[j]
    <3>1. CASE j = n
      <4>1. at \in 1..(n - 1)
        BY <1>1, <2>3, <3>1
      <4> QED  BY <1>5, <3>1, <4>1
    <3>2. CASE j # n
      <4>1. j \in 1..(n - 1) /\ j # at
        BY <1>1, <2>3, <3>2
      <4> QED  BY <1>5, <4>1
    <3> QED  BY <3>1, <3>2
  <2>4. ToSet(r) \subseteq ToSet(q) \ {q[at]}
    BY <2>1, <2>2
  <2>5. ToSet(q) \ {q[at]} \subseteq ToSet(r)
    <3>1. ASSUME NEW j \in 1..n, q[j] # q[at] PROVE q[j] \in { r[i] : i \in 1..(n - 1) }
      <4>1. PICK i \in 1..(n - 1) : r[i] = q[j]
        BY <2>3, <3>1
      <4> QED  BY <4>1
    <3> QED  BY <2>1, <3>1
  <2> QED  BY <2>4, <2>5
<1> QED  BY <1>5, <1>6, <1>8, <1>9 DEF r, n, moved, SwapPop

(* The same without distinct entries: what is left are elements of S.       *)
LEMMA SwapAndPopType ==
    ASSUME NEW S, NEW q \in Seq(S), NEW at \in 1..Len(q)
    PROVE  Last(q) \in S /\ SwapPop(q, at) \in Seq(S)
<1> DEFINE moved == [q EXCEPT ![at] = Last(q)]
<1>1. Len(q) \in Nat /\ Len(q) >= 1 /\ Last(q) \in S /\ q \in [1..Len(q) -> S]
  BY DEF Last
<1>2. moved \in Seq(S) /\ Len(moved) = Len(q)
  BY <1>1
<1>3. Front(moved) = [i \in 1..(Len(q) - 1) |-> moved[i]]
  BY <1>1, <1>2 DEF Front
<1>4. \A i \in 1..(Len(q) - 1) : moved[i] \in S
  BY <1>1, <1>2
<1> HIDE DEF moved
<1>5. Front(moved) \in Seq(S)
  BY <1>1, <1>3, <1>4
<1> QED  BY <1>1, <1>5 DEF moved, SwapPop

(* Whatever the list holds, one more entry is one more element.             *)
LEMMA AppendSet ==
    ASSUME NEW S, NEW q \in Seq(S), NEW id \in S
    PROVE  ToSet(Append(q, id)) = ToSet(q) \cup {id}
<1> DEFINE n == Len(q)
           r == Append(q, id)
<1>1. /\ n \in Nat /\ DOMAIN q = 1..n /\ DOMAIN r = 1..(n + 1)
      /\ \A i \in 1..n : r[i] = q[i]
      /\ r[n + 1] = id
  OBVIOUS
<1> HIDE DEF n, r
<1>2. ToSet(q) = { q[i] : i \in 1..n } /\ ToSet(r) = { r[i] : i \in 1..(n + 1) }
  BY <1>1 DEF ToSet
<1>3. /\ \A i \in 1..(n + 1) : i = n + 1 \/ i \in 1..n
      /\ \A i \in 1..n : i \in 1..(n + 1)
      /\ n + 1 \in 1..(n + 1)
  BY <1>1
<1>4. ToSet(r) = ToSet(q) \cup {id}
  BY <1>1, <1>2, <1>3
<1> QED  BY <1>4 DEF r

(* An element that is not in the list joins its end.                        *)
LEMMA AppendExact ==
    ASSUME NEW S, NEW q \in Seq(S), IsInjective(q), NEW id \in S, id \notin ToSet(q)
    PROVE  /\ Append(q, id) \in Seq(S) /\ Len(Append(q, id)) = Len(q) + 1 /\ Len(q) \in Nat
           /\ IsInjective(Append(q, id)) /\ ToSet(Append(q, id)) = ToSet(q) \cup {id}
           /\ \A i \in 1..Len(q) : Append(q, id)[i] = q[i]
           /\ Append(q, id)[Len(q) + 1] = id
<1> DEFINE n == Len(q)
           r == Append(q, id)
<1>1. /\ n \in Nat /\ r \in Seq(S) /\ Len(r) = n + 1
      /\ DOMAIN q = 1..n /\ DOMAIN r = 1..(n + 1)
      /\ \A i \in 1..n : r[i] = q[i]
      /\ r[n + 1] = id
  OBVIOUS
<1> HIDE DEF n, r
<1>2. ToSet(q) = { q[i] : i \in 1..n } /\ ToSet(r) = { r[i] : i \in 1..(n + 1) }
  BY <1>1 DEF ToSet
<1>3. ToSet(r) = ToSet(q) \cup {id}
  BY AppendSet DEF r
<1>4. IsInjective(r)
  <2>1. \A i, j \in 1..n : q[i] = q[j] => i = j
    BY <1>1 DEF IsInjective
  <2>2. \A i \in 1..n : q[i] # id
    BY <1>2
  <2>3. ASSUME NEW i \in 1..(n + 1), NEW j \in 1..(n + 1), r[i] = r[j] PROVE i = j
    <3>1. CASE i \in 1..n /\ j \in 1..n
      BY <1>1, <2>1, <2>3, <3>1
    <3>2. CASE i = n + 1 /\ j \in 1..n
      BY <1>1, <2>2, <2>3, <3>2
    <3>3. CASE j = n + 1 /\ i \in 1..n
      BY <1>1, <2>2, <2>3, <3>3
    <3>4. CASE i = n + 1 /\ j = n + 1
      BY <3>4
    <3> QED  BY <1>1, <3>1, <3>2, <3>3, <3>4
  <2> QED  BY <1>1, <2>3 DEF IsInjective
<1> QED  BY <1>1, <1>3, <1>4 DEF n, r

=============================================================================
