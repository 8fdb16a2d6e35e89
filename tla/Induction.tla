------------------------------ MODULE Induction ------------------------------
(***************************************************************************)
(* Induction as facts about sets of numbers, which the provers can use     *)
(* where they cannot instantiate an operator, and the loops of the code as *)
(* functions of the number of iterations.                                  *)
(***************************************************************************)
EXTENDS Integers, FiniteSetsExt, FiniteSetTheorems, WellFoundedInduction, TLAPS

\* A set of numbers has a least one.
LEMMA MinFacts ==
  ASSUME NEW S \in SUBSET Nat, S # {}
  PROVE  Min(S) \in S /\ \A y \in S : Min(S) <= y
<1> DEFINE R == OpToRel(<, Nat)
<1>1. IsWellFoundedOn(R, Nat)
  BY NatLessThanWellFounded
<1>2. PICK x \in S : \A y \in S : ~(<<y, x>> \in R)
  <2> HIDE DEF R
  <2> QED BY <1>1, WFMin
<1>3. \A y \in S : ~(y < x)
  BY <1>2 DEF OpToRel
<1>4. \A y \in S : x <= y
  BY <1>3
<1> QED BY <1>2, <1>4 DEF Min

\* A set that holds 0, and n + 1 with every n below m, holds the numbers up to m.
LEMMA UpTo ==
  ASSUME NEW m \in Nat, NEW S, 0 \in S, \A n \in 0 .. m - 1 : n \in S => n + 1 \in S
  PROVE  \A n \in 0 .. m : n \in S
<1> DEFINE T == {n \in 0 .. m : n \notin S}
<1>1. CASE T = {}
  BY <1>1
<1>2. CASE T # {}
  <2>1. T \in SUBSET Nat
    OBVIOUS
  <2> HIDE DEF T
  <2>2. PICK t \in T : \A y \in T : t <= y
    BY <1>2, <2>1, MinFacts
  <2> USE DEF T
  <2>3. t \in 0 .. m /\ t # 0
    BY <2>2
  <2>4. t - 1 \in 0 .. m - 1 /\ t - 1 \in S
    BY <2>2, <2>3
  <2> QED BY <2>2, <2>4
<1> QED BY <1>1, <1>2

\* The same for all numbers.
LEMMA AllNumbers ==
  ASSUME NEW S, 0 \in S, \A n \in Nat : n \in S => n + 1 \in S
  PROVE  \A n \in Nat : n \in S
<1>1. SUFFICES ASSUME NEW m \in Nat PROVE m \in S
  OBVIOUS
<1>2. \A n \in 0 .. m - 1 : n \in S => n + 1 \in S
  OBVIOUS
<1>3. \A n \in 0 .. m : n \in S
  BY <1>2, UpTo
<1> QED BY <1>3

\* The values that m iterations of a step go through, from a on.
Runs(V, a, step, m) ==
  {f \in [0 .. m -> V] : f[0] = a /\ \A k \in 1 .. m : f[k] = step[<<f[k - 1], k>>]}

LEMMA RunsExist ==
  ASSUME NEW m \in Nat, NEW V, NEW a \in V, NEW step \in [V \X (1 .. m) -> V]
  PROVE  Runs(V, a, step, m) # {}
<1> DEFINE Up(n) == Runs(V, a, step, n)
           S == {n \in 0 .. m : Up(n) # {}}
<1> USE DEF Runs
<1>1. 0 \in S
  <2>1. [k \in 0 .. 0 |-> a] \in Up(0)
    OBVIOUS
  <2> QED BY <2>1
<1>2. ASSUME NEW n \in 0 .. m - 1, n \in S PROVE n + 1 \in S
  <2>1. PICK f \in Up(n) : TRUE
    BY <1>2
  <2>2. f \in [0 .. n -> V] /\ f[0] = a /\ \A k \in 1 .. n : f[k] = step[<<f[k - 1], k>>]
    BY <2>1
  <2>3. n \in 0 .. n /\ f[n] \in V /\ n + 1 \in 1 .. m
    BY <2>2
  <2>4. PICK v \in V : v = step[<<f[n], n + 1>>]
    BY <2>3
  <2> DEFINE g == [k \in 0 .. n + 1 |-> IF k = n + 1 THEN v ELSE f[k]]
  <2>5. \A k \in 0 .. n : k \in 0 .. n + 1 /\ g[k] = f[k]
    BY <2>2
  <2>6. g[n + 1] = v
    OBVIOUS
  <2>7. g \in [0 .. n + 1 -> V]
    BY <2>2
  <2> HIDE DEF g
  <2>8. \A k \in 1 .. n + 1 : g[k] = step[<<g[k - 1], k>>]
    <3> SUFFICES ASSUME NEW k \in 1 .. n + 1 PROVE g[k] = step[<<g[k - 1], k>>]
      OBVIOUS
    <3>1. CASE k = n + 1
      BY <2>3, <2>4, <2>5, <2>6, <3>1
    <3>2. CASE k # n + 1
      <4>1. k \in 1 .. n /\ k - 1 \in 0 .. n /\ k \in 0 .. n
        BY <3>2
      <4> QED BY <2>2, <2>5, <4>1
    <3> QED BY <3>1, <3>2
  <2>9. g \in Up(n + 1)
    BY <2>2, <2>5, <2>7, <2>8
  <2> QED BY <2>3, <2>9
<1>3. m \in S
  <2> HIDE DEF S
  <2> QED BY <1>1, <1>2, UpTo
<1> QED BY <1>3

\* Numbers that belong to the elements of a finite set have a bound.
LEMMA Bounded ==
  ASSUME NEW S, IsFiniteSet(S), NEW g, \A s \in S : g[s] \in Nat
  PROVE  \E m \in Nat : \A s \in S : g[s] <= m
<1>1. PICK n \in Nat : ExistsSurjection(1 .. n, S)
  BY FS_NatSurjection
<1>2. PICK f \in [1 .. n -> S] : \A s \in S : \E k \in 1 .. n : f[k] = s
  BY <1>1 DEF ExistsSurjection, Surjection
<1> DEFINE T == {j \in 0 .. n : \E m \in Nat : \A k \in 1 .. j : g[f[k]] <= m}
<1>3. 0 \in T
  BY <1>1
<1>4. ASSUME NEW j \in 0 .. n - 1, j \in T PROVE j + 1 \in T
  <2>1. PICK m \in Nat : \A k \in 1 .. j : g[f[k]] <= m
    BY <1>4
  <2>2. j + 1 \in 1 .. n /\ g[f[j + 1]] \in Nat
    BY <1>1, <1>2
  <2>3. PICK l \in Nat : l = g[f[j + 1]]
    BY <2>2
  <2> DEFINE b == IF l <= m THEN m ELSE l
  <2>4. b \in Nat /\ \A k \in 1 .. j + 1 : g[f[k]] <= b
    <3>1. b \in Nat /\ m <= b /\ l <= b
      BY <2>1, <2>3
    <3>2. ASSUME NEW k \in 1 .. j + 1 PROVE g[f[k]] <= b
      <4>1. CASE k = j + 1
        BY <2>3, <3>1, <4>1
      <4>2. CASE k # j + 1
        <5>1. k \in 1 .. j /\ k \in 1 .. n
          BY <4>2, <1>1
        <5>2. g[f[k]] \in Nat /\ g[f[k]] <= m
          BY <1>2, <2>1, <5>1
        <5> HIDE DEF b
        <5> QED BY <2>1, <3>1, <5>2
      <4> QED BY <4>1, <4>2
    <3> QED BY <3>1, <3>2
  <2>5. j + 1 \in 0 .. n
    BY <1>1
  <2> HIDE DEF b
  <2> QED BY <2>4, <2>5
<1>5. n \in T
  <2> HIDE DEF T
  <2>1. n \in Nat /\ n \in 0 .. n
    BY <1>1
  <2>2. \A j \in 0 .. n - 1 : j \in T => j + 1 \in T
    BY <1>4
  <2>3. \A j \in 0 .. n : j \in T
    BY <1>3, <2>1, <2>2, UpTo
  <2> QED BY <2>1, <2>3
<1>6. PICK m \in Nat : \A k \in 1 .. n : g[f[k]] <= m
  BY <1>5
<1> QED BY <1>2, <1>6

\* A set of numbers that has a bound has a greatest one.
LEMMA MaxFacts ==
  ASSUME NEW S \in SUBSET Nat, S # {}, NEW m \in Nat, \A s \in S : s <= m
  PROVE  Max(S) \in S /\ \A y \in S : Max(S) >= y
<1> DEFINE B == {b \in Nat : \A s \in S : s <= b}
<1>1. PICK b \in B : \A y \in B : b <= y
  <2>1. B \in SUBSET Nat /\ B # {}
    BY Zenon
  <2> HIDE DEF B
  <2> QED BY <2>1, MinFacts
<1>2. b \in S
  <2> SUFFICES ASSUME b \notin S PROVE FALSE
    OBVIOUS
  <2>1. PICK s \in S : TRUE
    OBVIOUS
  <2>2. \A t \in S : t <= b - 1
    BY <1>1
  <2>3. b - 1 \in B
    BY <1>1, <2>1, <2>2
  <2> QED BY <1>1, <2>3
<1>3. b \in S /\ \A y \in S : b >= y
  BY <1>1, <1>2
<1> QED BY <1>3 DEF Max
-----------------------------------------------------------------------------
\* What quotient and remainder are, and what has them.
LEMMA DivisionFacts ==
  ASSUME NEW b \in Nat \ {0}, NEW x \in Nat
  PROVE  /\ x \div b \in Nat /\ x % b \in 0 .. b - 1
         /\ x = b * (x \div b) + (x % b)
OBVIOUS

LEMMA DivisionIs ==
  ASSUME NEW b \in Nat \ {0}, NEW q \in Nat, NEW r \in 0 .. b - 1
  PROVE  (b * q + r) \div b = q /\ (b * q + r) % b = r
OBVIOUS
=============================================================================
