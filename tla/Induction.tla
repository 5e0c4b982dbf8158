------------------------------- MODULE Induction -----------------------------
(***************************************************************************)
(* Facts about naturals and finite sets that the proofs of the components  *)
(* share. The library states induction for a predicate given as an         *)
(* operator; here it is stated for a set, which the provers can            *)
(* instantiate: prove Nat \subseteq {n \in Nat : P(n)}.                    *)
(***************************************************************************)
EXTENDS Integers, FiniteSetTheorems, FunctionTheorems, WellFoundedInduction, TLAPS

\* Every nonempty set of naturals has a least element.
LEMMA LeastNatural ==
  ASSUME NEW S \in SUBSET Nat, S # {}
  PROVE  \E m \in S : \A k \in S : m <= k
<1>1. PICK m \in S : \A k \in S : ~(<<k, m>> \in OpToRel(<, Nat))
  BY NatLessThanWellFounded, WFMin
<1>2. \A k \in S : ~(k < m)
  BY <1>1 DEF OpToRel
<1> QED BY <1>2

\* Induction: a set with 0 and every successor of a member has all naturals.
LEMMA NatSetInduction ==
  ASSUME NEW S, 0 \in S, \A n \in Nat : n \in S => n + 1 \in S
  PROVE  Nat \subseteq S
<1> SUFFICES ASSUME ~(Nat \subseteq S)
             PROVE  FALSE
  OBVIOUS
<1> DEFINE T == {n \in Nat : n \notin S}
<1>1. PICK m \in T : \A k \in T : m <= k
  <2>1. T \in SUBSET Nat /\ T # {}
    OBVIOUS
  <2> HIDE DEF T
  <2> QED BY <2>1, LeastNatural
<1>2. m # 0 /\ m \in Nat /\ m \notin S
  OBVIOUS
<1>3. m - 1 \in Nat /\ m - 1 \notin T
  BY <1>1, <1>2
<1> QED BY <1>2, <1>3

\* The members of S that have at most t members up to themselves are t, if S has
\* as many.
LEMMA FirstOnes ==
  ASSUME NEW S \in SUBSET Nat, IsFiniteSet(S), NEW t \in Nat, t <= Cardinality(S)
  PROVE  Cardinality({k \in S : Cardinality({j \in S : j <= k}) <= t}) >= t
<1> DEFINE Upto(k) == {j \in S : j <= k}
           C == {k \in S : Cardinality(Upto(k)) <= t}
<1>1. C \subseteq S /\ \A k \in S : Cardinality(Upto(k)) <= t => k \in C
  OBVIOUS
<1> SUFFICES Cardinality(C) >= t
  OBVIOUS
<1> HIDE DEF C
<1>2. IsFiniteSet(C) /\ Cardinality(C) \in Nat /\ Cardinality(S) \in Nat
  BY <1>1, FS_Subset, FS_CardinalityType
<1> SUFFICES ASSUME Cardinality(C) < t
             PROVE  FALSE
  BY <1>2
<1>3. S \ C # {}
  <2>1. C # S
    BY <1>2
  <2> QED BY <1>1, <2>1
<1>4. PICK m \in S \ C : \A k \in S \ C : m <= k
  BY <1>3, LeastNatural
<1> DEFINE D == C \union {m}
<1>5. Upto(m) \subseteq D
  <2>1. ASSUME NEW j \in Upto(m), j \notin C
        PROVE  j = m
    <3>1. j \in S \ C /\ j <= m /\ j \in Nat /\ m \in Nat
      BY <2>1
    <3> QED BY <1>4, <3>1
  <2> QED BY <2>1
<1>6. IsFiniteSet(D) /\ Cardinality(D) = Cardinality(C) + 1
  BY <1>2, <1>4, FS_AddElement
<1> HIDE DEF D, Upto
<1>7. Cardinality(Upto(m)) <= Cardinality(D) /\ IsFiniteSet(Upto(m))
  BY <1>5, <1>6, FS_Subset
<1>8. Cardinality(Upto(m)) \in Nat
  BY <1>7, FS_CardinalityType
<1>9. Cardinality(Upto(m)) <= t
  BY <1>2, <1>6, <1>7, <1>8
<1> QED BY <1>1, <1>4, <1>9

\* The image of a finite set has as many members if the function is injective.
LEMMA InjectiveImage ==
  ASSUME NEW f, NEW S, IsFiniteSet(S),
         \A i, j \in S : f[i] = f[j] => i = j
  PROVE  /\ IsFiniteSet({f[i] : i \in S})
         /\ Cardinality({f[i] : i \in S}) = Cardinality(S)
<1> DEFINE T == {f[i] : i \in S}
           g == [i \in S |-> f[i]]
<1>1. g \in [S -> T] /\ \A i, j \in S : g[i] = g[j] => i = j
  OBVIOUS
<1>2. \A y \in T : \E i \in S : g[i] = y
  OBVIOUS
<1> HIDE DEF g, T
<1>3. g \in Surjection(S, T) /\ g \in Injection(S, T)
  BY <1>1, <1>2, Fun_IsInj, Fun_IsSurj
<1>4. IsFiniteSet(T) /\ Cardinality(T) = Cardinality(S)
  BY <1>3, FS_Surjection
<1> QED BY <1>4 DEF T

\* A function that grows from each position to the next grows from every position
\* to every later one.
LEMMA AscendingOrder ==
  ASSUME NEW n \in Nat, NEW f \in [1 .. n -> Int],
         \A i \in 1 .. n - 1 : f[i] < f[i + 1]
  PROVE  \A i, j \in 1 .. n : i < j => f[i] < f[j]
<1> DEFINE P(d) == \A i \in 1 .. n : i + d + 1 <= n => f[i] < f[i + d + 1]
           S == {d \in Nat : P(d)}
<1>1. 0 \in S
  OBVIOUS
<1>2. ASSUME NEW d \in Nat, d \in S
      PROVE  d + 1 \in S
  <2>1. ASSUME NEW i \in 1 .. n, i + (d + 1) + 1 <= n
        PROVE  f[i] < f[i + (d + 1) + 1]
    <3> DEFINE k == i + d + 1
    <3>1. k \in 1 .. n - 1 /\ k \in 1 .. n /\ k + 1 \in 1 .. n /\ k + 1 = i + (d + 1) + 1
      BY <2>1
    <3>2. f[i] < f[k]
      BY <1>2, <2>1
    <3>3. f[k] < f[k + 1]
      BY <3>1
    <3>4. f[i] \in Int /\ f[k] \in Int /\ f[k + 1] \in Int
      BY <3>1
    <3> HIDE DEF k
    <3>5. f[i] < f[k + 1]
      BY <3>2, <3>3, <3>4
    <3>6. f[k + 1] = f[i + (d + 1) + 1]
      BY <3>1
    <3> QED BY <3>5, <3>6
  <2> QED BY <2>1
<1> HIDE DEF S
<1>3. Nat \subseteq S
  BY <1>1, <1>2, NatSetInduction
<1>4. ASSUME NEW i \in 1 .. n, NEW j \in 1 .. n, i < j
      PROVE  f[i] < f[j]
  <2>1. (j - i) - 1 \in Nat /\ i + ((j - i) - 1) + 1 = j
    BY <1>4
  <2>2. P((j - i) - 1)
    BY <1>3, <2>1 DEF S
  <2> QED BY <2>1, <2>2
<1> QED BY <1>4

\* A set of positions that has every position before one of its own is as long as
\* it has members.
LEMMA PrefixLength ==
  ASSUME NEW n \in Nat, NEW S \in SUBSET (1 .. n),
         \A i \in S : \A j \in 1 .. n : j <= i => j \in S
  PROVE  /\ Cardinality(S) \in 0 .. n
         /\ \A i \in 1 .. n : i \in S <=> i <= Cardinality(S)
<1> DEFINE T == (1 .. n + 1) \ S
<1>1. T \in SUBSET Nat /\ n + 1 \in T
  OBVIOUS
<1>2. PICK m \in T : \A k \in T : m <= k
  <2> HIDE DEF T
  <2> QED BY <1>1, LeastNatural
<1>3. m \in 1 .. n + 1 /\ m \notin S
  BY <1>2
<1>4. S = 1 .. m - 1
  <2>1. ASSUME NEW i \in 1 .. m - 1
        PROVE  i \in S
    <3>1. i \in 1 .. n + 1 /\ i < m
      BY <1>3, <2>1
    <3> QED BY <1>2, <1>3, <3>1
  <2>2. ASSUME NEW i \in S
        PROVE  i \in 1 .. m - 1
    <3>1. i \in 1 .. n /\ (m <= i => m \in 1 .. n)
      BY <1>3
    <3>2. ~(m <= i)
      BY <1>3, <2>2, <3>1
    <3> QED BY <1>3, <3>1, <3>2
  <2> QED BY <2>1, <2>2
<1>5. Cardinality(S) = m - 1
  <2>1. Cardinality(1 .. m - 1) = m - 1
    BY <1>3, FS_Interval
  <2> QED BY <1>4, <2>1
<1> QED BY <1>3, <1>4, <1>5

\* Integer division is exact up to a remainder smaller than the divisor.
LEMMA DivBounds ==
  ASSUME NEW x \in Nat, NEW r \in Nat \ {0}
  PROVE  /\ x \div r \in Nat
         /\ r * (x \div r) <= x
         /\ x < r * (x \div r) + r
OBVIOUS

LEMMA DivLargest ==
  ASSUME NEW x \in Nat, NEW r \in Nat \ {0}, NEW k \in Int
  PROVE  r * k <= x => k <= x \div r
<1> SUFFICES ASSUME r * k <= x, k > x \div r
             PROVE  FALSE
  BY DivBounds
<1> DEFINE q == x \div r
<1>1. q \in Nat /\ x < r * q + r
  BY DivBounds
<1> HIDE DEF q
<1>2. k >= q + 1
  BY <1>1 DEF q
<1>3. r * k >= r * (q + 1)
  BY <1>1, <1>2
<1>4. r * (q + 1) = r * q + r
  BY <1>1
<1> QED BY <1>1, <1>3, <1>4

\* Dividing two amounts apart gives no more than dividing their sum.
LEMMA DivAdd ==
  ASSUME NEW x \in Nat, NEW y \in Nat, NEW r \in Nat \ {0}
  PROVE  x \div r + y \div r <= (x + y) \div r
<1> DEFINE p == x \div r
           q == y \div r
<1>1. p \in Nat /\ q \in Nat /\ r * p <= x /\ r * q <= y
  BY DivBounds
<1> HIDE DEF p, q
<1>2. r * (p + q) = r * p + r * q
  BY <1>1
<1>3. r * p \in Nat /\ r * q \in Nat
  BY <1>1
<1>4. r * (p + q) <= x + y
  BY <1>1, <1>2, <1>3
<1>5. p + q <= (x + y) \div r
  BY <1>1, <1>4, DivLargest
<1> QED BY <1>5 DEF p, q

\* Values in V, one for each position: the first, and the step to each next one.
StepFunctions(V, n) == [1 .. n -> [V -> V]]
Stepwise(u, V, base, n, step) ==
  u \in [0 .. n -> V] /\ u[0] = base /\ \A i \in 1 .. n : u[i] = step[i][u[i - 1]]

\* A function given by its first value and the step from each position to the
\* next exists, which a recursive definition alone does not say.
LEMMA StepwiseFunction ==
  ASSUME NEW V, NEW base \in V, NEW n \in Nat, NEW step \in StepFunctions(V, n)
  PROVE  \E u : Stepwise(u, V, base, n, step)
<1>0. step \in [1 .. n -> [V -> V]]
  BY DEF StepFunctions
<1> DEFINE Good(u, m) == /\ u \in [0 .. m -> V] /\ u[0] = base
                         /\ \A i \in 1 .. m : u[i] = step[i][u[i - 1]]
           S == {m \in Nat : m <= n => \E u : Good(u, m)}
<1>1. 0 \in S
  <2> DEFINE u == [i \in 0 .. 0 |-> base]
  <2>1. Good(u, 0)
    OBVIOUS
  <2> HIDE DEF u, Good
  <2> QED BY <2>1
<1>2. ASSUME NEW m \in Nat, m \in S
      PROVE  m + 1 \in S
  <2> SUFFICES ASSUME m + 1 <= n
               PROVE  \E u : Good(u, m + 1)
    OBVIOUS
  <2>1. PICK u : Good(u, m)
    BY <1>2
  <2> DEFINE w == [i \in 0 .. m + 1 |-> IF i <= m THEN u[i] ELSE step[m + 1][u[m]]]
  <2>2. /\ u \in [0 .. m -> V] /\ u[0] = base /\ u[m] \in V /\ m + 1 \in 1 .. n
        /\ \A i \in 1 .. m : u[i] = step[i][u[i - 1]]
    BY <2>1
  <2>3. step[m + 1][u[m]] \in V
    BY <1>0, <2>2
  <2>4. \A i \in 0 .. m : w[i] = u[i]
    OBVIOUS
  <2>5. w[m + 1] = step[m + 1][u[m]] /\ w \in [0 .. m + 1 -> V]
    BY <2>2, <2>3
  <2> HIDE DEF w
  <2>6. ASSUME NEW i \in 1 .. m + 1
        PROVE  w[i] = step[i][w[i - 1]]
    <3>1. CASE i = m + 1
      <4>1. i - 1 = m /\ m \in 0 .. m
        BY <3>1
      <4> QED BY <2>4, <2>5, <3>1, <4>1
    <3>2. CASE i # m + 1
      <4>1. i \in 1 .. m /\ i \in 0 .. m /\ i - 1 \in 0 .. m
        BY <3>2
      <4> QED BY <2>2, <2>4, <4>1
    <3> QED BY <3>1, <3>2
  <2>7. w[0] = base
    BY <2>2, <2>4
  <2> QED BY <2>5, <2>6, <2>7
<1>3. n \in S
  <2> HIDE DEF S
  <2> QED BY <1>1, <1>2, NatSetInduction
<1>4. PICK u : Good(u, n)
  BY <1>3
<1>5. Stepwise(u, V, base, n, step)
  BY <1>4 DEF Stepwise
<1> QED BY <1>5
=============================================================================
