----------------------------- MODULE CommonLemmas -----------------------------
(***************************************************************************)
(* Lemmas that the proofs about the ledger and about the separate scopes   *)
(* share: least and greatest natural numbers, the order of time (InOrder   *)
(* lists every event of a query once), and sums of functions.              *)
(***************************************************************************)
EXTENDS Integers, TimeOrder, Functions, FiniteSetTheorems, FunctionTheorems, TLAPS

\* A set of ids that has a last one.
Bounded(I) == \E n \in Nat : \A i \in I : i <= n

Below == {p \in Nat \X Nat : p[1] < p[2]}

LEMMA BelowWellFounded == IsWellFoundedOn(Below, Nat)
BY NatLessThanWellFounded DEF OpToRel, Below

\* Every set of natural numbers that is not empty has a least one.
LEMMA LeastNatural ==
  ASSUME NEW S, S \subseteq Nat, S # {}
  PROVE  \E m \in S : \A x \in S : m <= x
<1>1. PICK m \in S : \A x \in S : ~(<<x, m>> \in Below)
  BY BelowWellFounded, WFMin
<1>2. ASSUME NEW x \in S PROVE m <= x
  <2>1. <<x, m>> \in Nat \X Nat /\ <<x, m>>[1] = x /\ <<x, m>>[2] = m
    OBVIOUS
  <2> QED BY <1>1, <2>1 DEF Below
<1> QED BY <1>2

\* And a greatest one if it is bounded.
LEMMA GreatestNatural ==
  ASSUME NEW S, S \subseteq Nat, S # {}, Bounded(S)
  PROVE  \E m \in S : \A x \in S : x <= m
<1> DEFINE U == {n \in Nat : \A x \in S : x <= n}
<1>1. PICK m \in U : \A n \in U : m <= n
  <2>1. U # {}
    BY DEF Bounded
  <2> QED BY <2>1, LeastNatural
<1>2. m \in S
  <2> SUFFICES ASSUME m \notin S PROVE FALSE
    OBVIOUS
  <2>1. \A x \in S : x \in Nat /\ m \in Nat /\ x < m
    BY <1>1
  <2>2. \A x \in S : x <= m - 1
    BY <2>1
  <2>3. m - 1 \in Nat
    <3>1. PICK x \in S : TRUE
      OBVIOUS
    <3> QED BY <2>1, <3>1
  <2>4. m - 1 \in U
    BY <2>2, <2>3
  <2> QED BY <1>1, <2>4
<1> QED BY <1>1, <1>2

\* Finitely many natural numbers have a bound.
LEMMA ListBounded ==
  ASSUME NEW n \in Nat, NEW f \in [1..n -> Nat]
  PROVE  \E b \in Nat : \A i \in 1..n : f[i] <= b
<1> DEFINE Up(k) == \E b \in Nat : \A i \in 1..k : f[i] <= b
           Bad == {k \in 0..n : ~Up(k)}
<1> SUFFICES ASSUME ~Up(n) PROVE FALSE
  OBVIOUS
<1>1. PICK m \in Bad : \A k \in Bad : m <= k
  <2>1. Bad \subseteq Nat /\ n \in Bad
    OBVIOUS
  <2> HIDE DEF Bad
  <2> QED BY <2>1, LeastNatural
<1>2. m # 0
  <2>1. 0 \in Nat /\ \A i \in 1..0 : f[i] <= 0
    OBVIOUS
  <2>2. Up(0)
    BY <2>1
  <2> QED BY <1>1, <2>2
<1>3. m \in 1..n /\ m - 1 \in 0..n /\ m \in Nat /\ ~(m <= m - 1)
  BY <1>1, <1>2
<1>4. PICK b \in Nat : \A i \in 1..(m - 1) : f[i] <= b
  BY <1>1, <1>3
<1> DEFINE r == f[m]
           c == b + r
<1>5. r \in Nat
  BY <1>3
<1> HIDE DEF r
<1>6. c \in Nat /\ \A i \in 1..m : f[i] <= c
  <2>1. c \in Nat /\ r <= c /\ b <= c
    BY <1>5
  <2>2. ASSUME NEW i \in 1..m PROVE f[i] <= c
    <3>1. CASE i = m
      BY <2>1, <3>1 DEF r
    <3>2. CASE i # m
      <4>1. i \in 1..(m - 1) /\ i \in 1..n
        BY <1>3, <3>2
      <4> DEFINE v == f[i]
      <4>2. v <= b /\ v \in Nat
        BY <1>4, <4>1
      <4> HIDE DEF v, c
      <4>3. v <= c
        BY <2>1, <4>2
      <4> QED BY <4>3 DEF v
    <3> QED BY <3>1, <3>2
  <2> QED BY <2>1, <2>2
<1>7. Up(m)
  <2> HIDE DEF c
  <2> QED BY <1>6
<1> QED BY <1>1, <1>7

(***************************************************************************)
(* The order of time.                                                      *)
(***************************************************************************)
\* The events of a query, with the times at which they were observed.
Observed(at) == IsFiniteSet(DOMAIN at) /\ DOMAIN at \subseteq Nat /\ at \in [DOMAIN at -> Nat]

Ahead(at, i) == {j \in DOMAIN at : Before(at, j, i)}

\* An event that comes before another has fewer before it.
LEMMA RankGrows ==
  ASSUME NEW at, Observed(at), NEW i \in DOMAIN at, NEW j \in DOMAIN at, Before(at, i, j)
  PROVE  Rank(at, i) < Rank(at, j)
<1>1. \A k \in DOMAIN at : k \in Nat /\ at[k] \in Nat
  BY DEF Observed
<1>2. Ahead(at, i) \subseteq Ahead(at, j) /\ i \in Ahead(at, j) /\ i \notin Ahead(at, i)
  BY <1>1 DEF Ahead, Before
<1>3. IsFiniteSet(Ahead(at, i)) /\ IsFiniteSet(Ahead(at, j))
  BY FS_Subset DEF Observed, Ahead
<1>4. Cardinality(Ahead(at, i)) \in Nat /\ Cardinality(Ahead(at, j)) \in Nat
  BY <1>3, FS_CardinalityType
<1>5. Cardinality(Ahead(at, i)) <= Cardinality(Ahead(at, j))
  BY <1>2, <1>3, FS_Subset
<1>6. Cardinality(Ahead(at, i)) # Cardinality(Ahead(at, j))
  BY <1>2, <1>3, FS_Subset
<1> QED BY <1>4, <1>5, <1>6 DEF Rank, Ahead

\* Of two events, one comes before the other.
LEMMA TimeTotal ==
  ASSUME NEW at, Observed(at), NEW i \in DOMAIN at, NEW j \in DOMAIN at, i # j
  PROVE  Before(at, i, j) \/ Before(at, j, i)
BY DEF Observed, Before

\* The ranks of N events are the numbers up to N - 1.
LEMMA RankRange ==
  ASSUME NEW at, Observed(at), NEW i \in DOMAIN at
  PROVE  Rank(at, i) \in 0..(Cardinality(DOMAIN at) - 1)
<1>1. IsFiniteSet(DOMAIN at) /\ \A k \in DOMAIN at : k \in Nat /\ at[k] \in Nat
  BY DEF Observed
<1>2. Ahead(at, i) \subseteq DOMAIN at /\ i \notin Ahead(at, i)
  BY <1>1 DEF Ahead, Before
<1>3. IsFiniteSet(Ahead(at, i)) /\ Cardinality(Ahead(at, i)) <= Cardinality(DOMAIN at)
  BY <1>1, <1>2, FS_Subset
<1>4. Cardinality(Ahead(at, i)) # Cardinality(DOMAIN at)
  BY <1>1, <1>2, FS_Subset
<1>5. Cardinality(Ahead(at, i)) \in Nat /\ Cardinality(DOMAIN at) \in Nat
  BY <1>1, <1>3, FS_CardinalityType
<1> QED BY <1>3, <1>4, <1>5 DEF Rank, Ahead

\* Each rank is that of some event.
LEMMA RankReached ==
  ASSUME NEW at, Observed(at), NEW n \in 0..(Cardinality(DOMAIN at) - 1)
  PROVE  \E i \in DOMAIN at : Rank(at, i) = n
<1> DEFINE N == Cardinality(DOMAIN at)
           f == [i \in DOMAIN at |-> Rank(at, i)]
<1>1. N \in Nat /\ IsFiniteSet(DOMAIN at)
  BY FS_CardinalityType DEF Observed
<1>2. f \in [DOMAIN at -> 0..(N - 1)]
  BY RankRange
<1>3. \A i, j \in DOMAIN at : f[i] = f[j] => i = j
  <2> SUFFICES ASSUME NEW i \in DOMAIN at, NEW j \in DOMAIN at, i # j PROVE f[i] # f[j]
    OBVIOUS
  <2>1. f[i] \in Nat /\ f[j] \in Nat
    BY <1>2
  <2> QED BY <2>1, RankGrows, TimeTotal
<1>4. f \in Injection(DOMAIN at, 0..(N - 1))
  BY <1>2, <1>3, Fun_IsInj
<1>5. IsFiniteSet(0..(N - 1)) /\ Cardinality(0..(N - 1)) = N
  BY <1>1, FS_Interval
<1>6. f \in Surjection(DOMAIN at, 0..(N - 1))
  BY <1>4, <1>5, FS_Injection
<1>7. \E i \in DOMAIN at : f[i] = n
  BY <1>6 DEF Surjection
<1> QED BY <1>7

\* The list of the events: each of them once, in the order of time.
LEMMA InOrderFacts ==
  ASSUME NEW at, Observed(at)
  PROVE  LET N == Cardinality(DOMAIN at) s == InOrder(at) IN
         /\ N \in Nat /\ s \in [1..N -> DOMAIN at]
         /\ \A n \in 1..N : Rank(at, s[n]) + 1 = n
         /\ \A n, m \in 1..N : n < m <=> Before(at, s[n], s[m])
         /\ \A i \in DOMAIN at : \E n \in 1..N : s[n] = i
<1> DEFINE N == Cardinality(DOMAIN at)
           s == InOrder(at)
<1>1. N \in Nat
  BY FS_CardinalityType DEF Observed
<1>2. ASSUME NEW n \in 1..N PROVE s[n] \in DOMAIN at /\ Rank(at, s[n]) + 1 = n
  <2>1. n - 1 \in 0..(N - 1)
    BY <1>1
  <2>2. PICK i \in DOMAIN at : Rank(at, i) = n - 1
    BY <2>1, RankReached
  <2>3. Rank(at, i) + 1 = n
    BY <1>1, <2>2
  <2>4. s[n] = CHOOSE j \in DOMAIN at : Rank(at, j) + 1 = n
    BY DEF InOrder
  <2> QED BY <2>3, <2>4
<1>3. s \in [1..N -> DOMAIN at]
  BY <1>2 DEF InOrder
<1>4. ASSUME NEW n \in 1..N, NEW m \in 1..N PROVE n < m <=> Before(at, s[n], s[m])
  <2>1. Rank(at, s[n]) = n - 1 /\ Rank(at, s[m]) = m - 1
    BY <1>1, <1>2, RankRange
  <2>2. CASE Before(at, s[n], s[m])
    BY <1>1, <1>2, <2>1, <2>2, RankGrows
  <2>3. CASE Before(at, s[m], s[n])
    <3>1. m < n
      BY <1>1, <1>2, <2>1, <2>3, RankGrows
    <3>2. ~Before(at, s[n], s[m])
      BY <1>2, <2>3 DEF Observed, Before
    <3> QED BY <1>1, <3>1, <3>2
  <2>4. CASE s[n] = s[m]
    <3>1. n = m
      BY <1>1, <2>1, <2>4
    <3>2. ~Before(at, s[n], s[m])
      BY <1>2, <2>4 DEF Observed, Before
    <3> QED BY <1>1, <3>1, <3>2
  <2> QED BY <1>2, <2>2, <2>3, <2>4, TimeTotal
<1>5. ASSUME NEW i \in DOMAIN at PROVE \E n \in 1..N : s[n] = i
  <2> DEFINE n == Rank(at, i) + 1
  <2>1. n \in 1..N
    BY <1>1, RankRange
  <2>2. s[n] \in DOMAIN at /\ Rank(at, s[n]) = Rank(at, i)
    BY <1>2, <2>1, RankRange
  <2>3. s[n] = i
    <3>1. Rank(at, i) \in Nat
      BY <1>1, RankRange
    <3> QED BY <2>2, <3>1, RankGrows, TimeTotal
  <2> QED BY <2>1, <2>3
<1> QED BY <1>1, <1>2, <1>3, <1>4, <1>5

\* t is the list s with x put in at place m.
PutIn(s, t, x, m) ==
  /\ \E n \in Nat : DOMAIN s = 1..n /\ DOMAIN t = 1..(n + 1) /\ m \in 1..(n + 1)
  /\ t[m] = x
  /\ \A p \in DOMAIN t : (p < m => t[p] = s[p]) /\ (p > m => t[p] = s[p - 1])

\* A later event of a query takes a place in the list and leaves the others in theirs:
\* before it are those observed no later.
LEMMA InOrderInserted ==
  ASSUME NEW at, Observed(at), NEW more, Observed(more),
         NEW x, DOMAIN more = DOMAIN at \cup {x}, \A i \in DOMAIN at : i < x /\ more[i] = at[i]
  PROVE  \E m \in Nat :
           /\ PutIn(InOrder(at), InOrder(more), x, m)
           /\ \A p \in DOMAIN InOrder(at) : p < m <=> at[InOrder(at)[p]] <= more[x]
<1> DEFINE N == Cardinality(DOMAIN at)
           s == InOrder(at)
           t == InOrder(more)
           m == Rank(more, x) + 1
<1>1. /\ IsFiniteSet(DOMAIN at) /\ x \notin DOMAIN at /\ x \in DOMAIN more /\ x \in Nat
      /\ \A i \in DOMAIN at : i \in DOMAIN more /\ i \in Nat /\ at[i] \in Nat
      /\ \A i \in DOMAIN more : i \in Nat /\ more[i] \in Nat
  BY DEF Observed
<1>2. N \in Nat /\ Cardinality(DOMAIN more) = N + 1
  BY <1>1, FS_CardinalityType, FS_AddElement
<1>3. /\ s \in [1..N -> DOMAIN at] /\ t \in [1..(N + 1) -> DOMAIN more]
      /\ \A p \in 1..N : Rank(at, s[p]) + 1 = p
      /\ \A p \in 1..(N + 1) : Rank(more, t[p]) + 1 = p
  BY <1>2, InOrderFacts
<1>4. \A i \in DOMAIN at : Rank(at, i) \in 0..(N - 1)
  BY RankRange
<1>5. \A i \in DOMAIN more : Rank(more, i) \in 0..N
  BY <1>2, RankRange
<1>6. ASSUME NEW i \in DOMAIN at
      PROVE  IF at[i] <= more[x] THEN Rank(more, i) = Rank(at, i) /\ Rank(more, i) < Rank(more, x)
             ELSE Rank(more, i) = Rank(at, i) + 1 /\ Rank(more, i) > Rank(more, x)
  <2>1. \A j \in DOMAIN at : Before(more, j, i) <=> Before(at, j, i)
    BY DEF Before
  <2>2. CASE at[i] <= more[x]
    <3>1. Before(more, i, x) /\ ~Before(more, x, i)
      BY <1>1, <2>2 DEF Before
    <3>2. Ahead(more, i) = Ahead(at, i)
      BY <1>1, <2>1, <3>1 DEF Ahead
    <3>3. Rank(more, i) < Rank(more, x)
      BY <1>1, <3>1, RankGrows
    <3> QED BY <2>2, <3>2, <3>3 DEF Ahead, Rank
  <2>3. CASE ~(at[i] <= more[x])
    <3>1. Before(more, x, i)
      BY <1>1, <2>3 DEF Before
    <3>2. Ahead(more, i) = Ahead(at, i) \cup {x} /\ x \notin Ahead(at, i)
      BY <1>1, <2>1, <3>1 DEF Ahead
    <3>3. IsFiniteSet(Ahead(at, i))
      BY <1>1, FS_Subset DEF Ahead
    <3>4. Cardinality(Ahead(more, i)) = Cardinality(Ahead(at, i)) + 1
      BY <3>2, <3>3, FS_AddElement
    <3>5. Rank(more, x) < Rank(more, i)
      BY <1>1, <3>1, RankGrows
    <3>6. Rank(more, i) \in Nat /\ Rank(more, x) \in Nat
      BY <1>1, <1>5
    <3> QED BY <2>3, <3>4, <3>5, <3>6 DEF Ahead, Rank
  <2> QED BY <2>2, <2>3
<1>7. m \in 1..(N + 1) /\ t[m] = x
  <2>1. m \in 1..(N + 1)
    BY <1>1, <1>2, <1>5
  <2>2. Rank(more, t[m]) = Rank(more, x) /\ t[m] \in DOMAIN more
    BY <1>1, <1>3, <1>5, <2>1
  <2> QED BY <1>1, <1>5, <2>1, <2>2, RankGrows, TimeTotal
<1>8. ASSUME NEW p \in 1..N
      PROVE  p < m <=> at[s[p]] <= more[x]
  <2>1. s[p] \in DOMAIN at /\ Rank(at, s[p]) = p - 1
    BY <1>2, <1>3, <1>4
  <2> QED BY <1>1, <1>2, <1>5, <1>6, <2>1
<1>9. ASSUME NEW p \in 1..(N + 1), p # m
      PROVE  t[p] = IF p < m THEN s[p] ELSE s[p - 1]
  <2> DEFINE i == t[p]
  <2>1. i \in DOMAIN more /\ Rank(more, i) = p - 1
    BY <1>2, <1>3, <1>5
  <2>2. i # x
    BY <1>1, <1>2, <1>5, <1>9, <2>1
  <2>3. i \in DOMAIN at
    BY <2>1, <2>2
  <2> HIDE DEF i
  <2>4. ASSUME NEW q \in 1..N, Rank(at, i) = q - 1 PROVE s[q] = i
    <3>1. s[q] \in DOMAIN at /\ Rank(at, s[q]) = Rank(at, i) /\ Rank(at, i) \in Nat
      BY <1>2, <1>3, <1>4, <2>3, <2>4
    <3> QED BY <2>3, <3>1, RankGrows, TimeTotal
  <2>5. CASE p < m
    <3>1. Rank(more, i) < Rank(more, x)
      BY <1>1, <1>2, <1>5, <2>1, <2>5
    <3>2. Rank(at, i) = p - 1
      BY <1>1, <1>5, <1>6, <2>1, <2>3, <3>1
    <3>3. p \in 1..N
      BY <1>2, <1>4, <2>3, <3>2
    <3> QED BY <2>4, <2>5, <3>2, <3>3 DEF i
  <2>6. CASE ~(p < m)
    <3>1. ~(Rank(more, i) < Rank(more, x))
      BY <1>1, <1>2, <1>5, <2>1, <2>6
    <3>2. Rank(at, i) = p - 2
      BY <1>1, <1>2, <1>4, <1>5, <1>6, <2>1, <2>3, <3>1
    <3>3. p - 1 \in 1..N /\ Rank(at, i) = (p - 1) - 1
      BY <1>2, <1>4, <2>3, <3>2
    <3> QED BY <2>4, <2>6, <3>3 DEF i
  <2> QED BY <2>5, <2>6
<1>10. DOMAIN s = 1..N /\ DOMAIN t = 1..(N + 1) /\ m \in Nat
  BY <1>3, <1>7
<1> HIDE DEF s, t, m, N
<1>11. PutIn(s, t, x, m)
  BY <1>2, <1>7, <1>9, <1>10 DEF PutIn
<1> QED BY <1>8, <1>10, <1>11 DEF s, t

(***************************************************************************)
(* Sums of functions on finite sets.                                       *)
(***************************************************************************)
Some(T) == CHOOSE x \in T : TRUE

Parts(S, n) == {T \in SUBSET S : Cardinality(T) <= n}

\* The function that the fold of a sum goes through.
IsSum(f, P, g) == g = [T \in P |-> IF T = {} THEN 0 ELSE f[Some(T)] + g[T \ {Some(T)}]]

LEMMA PartSmaller ==
  ASSUME NEW S, IsFiniteSet(S), NEW T \in SUBSET S, T # {}
  PROVE  /\ Some(T) \in T /\ T \ {Some(T)} \in SUBSET S
         /\ Cardinality(T) \in Nat /\ Cardinality(T \ {Some(T)}) = Cardinality(T) - 1
<1>1. IsFiniteSet(T)
  BY FS_Subset
<1>2. Some(T) \in T
  BY DEF Some
<1> QED BY <1>1, <1>2, FS_RemoveElement, FS_CardinalityType

LEMMA SumExists ==
  ASSUME NEW f, NEW S, IsFiniteSet(S), NEW N \in Nat
  PROVE  \E g : IsSum(f, Parts(S, N), g)
<1> DEFINE Bad == {n \in Nat : ~\E g : IsSum(f, Parts(S, n), g)}
<1> SUFFICES ASSUME Bad # {} PROVE FALSE
  OBVIOUS
<1>1. PICK m \in Bad : \A n \in Bad : m <= n
  BY LeastNatural
<1>2. CASE m = 0
  <2> DEFINE g == [T \in Parts(S, 0) |-> 0]
  <2>1. ASSUME NEW T \in Parts(S, 0) PROVE T = {}
    <3>1. T \in SUBSET S /\ Cardinality(T) <= 0
      BY DEF Parts
    <3>2. CASE T # {}
      <4>1. Cardinality(T) \in Nat /\ T \ {Some(T)} \in SUBSET S
            /\ Cardinality(T \ {Some(T)}) = Cardinality(T) - 1
        BY <3>1, <3>2, PartSmaller
      <4>2. Cardinality(T \ {Some(T)}) \in Nat
        BY <4>1, FS_Subset, FS_CardinalityType
      <4> QED BY <3>1, <4>1, <4>2
    <3> QED BY <3>2
  <2>2. IsSum(f, Parts(S, 0), g)
    BY <2>1 DEF IsSum
  <2> QED BY <1>1, <1>2, <2>2
<1>3. CASE m # 0
  <2>1. m - 1 \in Nat /\ m - 1 \notin Bad
    BY <1>1, <1>3
  <2>2. PICK h : IsSum(f, Parts(S, m - 1), h)
    BY <2>1
  <2> DEFINE g == [T \in Parts(S, m) |-> IF T = {} THEN 0 ELSE f[Some(T)] + h[T \ {Some(T)}]]
  <2>3. ASSUME NEW U \in Parts(S, m - 1) PROVE U \in Parts(S, m) /\ g[U] = h[U]
    <3>1. IsFiniteSet(U) /\ U \in SUBSET S /\ Cardinality(U) <= m - 1
      BY FS_Subset DEF Parts
    <3>2. U \in Parts(S, m)
      BY <1>1, <3>1, FS_CardinalityType DEF Parts
    <3> QED BY <2>2, <3>2 DEF IsSum
  <2>4. ASSUME NEW T \in Parts(S, m), T # {}
        PROVE  g[T \ {Some(T)}] = h[T \ {Some(T)}]
    <3>1. T \in SUBSET S /\ Cardinality(T) <= m
      BY DEF Parts
    <3>2. T \ {Some(T)} \in Parts(S, m - 1)
      BY <1>1, <2>4, <3>1, PartSmaller DEF Parts
    <3> QED BY <2>3, <3>2
  <2>5. IsSum(f, Parts(S, m), g)
    <3>1. \A T \in Parts(S, m) :
            g[T] = IF T = {} THEN 0 ELSE f[Some(T)] + g[T \ {Some(T)}]
      BY <2>4
    <3>2. g = [T \in Parts(S, m) |-> g[T]]
      OBVIOUS
    <3> HIDE DEF g
    <3>3. g = [T \in Parts(S, m) |-> IF T = {} THEN 0 ELSE f[Some(T)] + g[T \ {Some(T)}]]
      BY <3>1, <3>2
    <3> QED BY <3>3 DEF IsSum
  <2> QED BY <1>1, <2>5
<1> QED BY <1>2, <1>3

\* The sum of a function is what its fold finds.
LEMMA SumFound ==
  ASSUME NEW f, NEW S, IsFiniteSet(S)
  PROVE  \E g : IsSum(f, SUBSET S, g) /\ SumFunctionOnSet(f, S) = g[S]
<1> DEFINE iter == CHOOSE g : IsSum(f, SUBSET S, g)
<1>1. Parts(S, Cardinality(S)) = SUBSET S
  BY FS_Subset, FS_CardinalityType DEF Parts
<1>2. \E g : IsSum(f, SUBSET S, g)
  <2>1. Cardinality(S) \in Nat
    BY FS_CardinalityType
  <2>2. \E g : IsSum(f, Parts(S, Cardinality(S)), g)
    BY ONLY IsFiniteSet(S), <2>1, SumExists
  <2> QED BY ONLY <1>1, <2>2
<1>3. SumFunctionOnSet(f, S) = iter[S]
  BY DEF SumFunctionOnSet, FoldFunctionOnSet, MapThenFoldSet, IsSum, Some
<1> QED BY <1>2, <1>3

\* Function h is the sum of f and g.
Adding(S, f, g, h) ==
  /\ IsFiniteSet(S) /\ f \in [S -> Int] /\ g \in [S -> Int] /\ h \in [S -> Int]
  /\ \A x \in S : h[x] = f[x] + g[x]

LEMMA SumAdds ==
  ASSUME NEW S, NEW f, NEW g, NEW h, Adding(S, f, g, h)
  PROVE  SumFunction(f) + SumFunction(g) = SumFunction(h)
<1>0. /\ IsFiniteSet(S) /\ f \in [S -> Int] /\ g \in [S -> Int] /\ h \in [S -> Int]
      /\ \A x \in S : h[x] = f[x] + g[x]
  BY DEF Adding
<1>1. PICK u : IsSum(f, SUBSET S, u) /\ SumFunctionOnSet(f, S) = u[S]
  BY <1>0, SumFound
<1>2. PICK v : IsSum(g, SUBSET S, v) /\ SumFunctionOnSet(g, S) = v[S]
  BY <1>0, SumFound
<1>3. PICK w : IsSum(h, SUBSET S, w) /\ SumFunctionOnSet(h, S) = w[S]
  BY <1>0, SumFound
<1> DEFINE Adds(T) == u[T] \in Int /\ v[T] \in Int /\ u[T] + v[T] = w[T]
           Bad == {n \in Nat : \E T \in SUBSET S : Cardinality(T) = n /\ ~Adds(T)}
<1>4. Bad = {}
  <2> SUFFICES ASSUME Bad # {} PROVE FALSE
    OBVIOUS
  <2>1. PICK m \in Bad : \A n \in Bad : m <= n
    BY LeastNatural
  <2>2. PICK T \in SUBSET S : Cardinality(T) = m /\ ~Adds(T)
    BY <2>1
  <2>3. CASE T = {}
    <3>1. u[T] = 0 /\ v[T] = 0 /\ w[T] = 0
      BY <1>1, <1>2, <1>3, <2>3 DEF IsSum
    <3> QED BY <2>2, <3>1
  <2>4. CASE T # {}
    <3> DEFINE x == Some(T)
               R == T \ {x}
    <3>1. x \in S /\ R \in SUBSET S /\ Cardinality(R) = m - 1 /\ m \in Nat
      BY <1>0, <2>2, <2>4, PartSmaller
    <3>2. Cardinality(R) \in Nat
      BY <1>0, <3>1, FS_Subset, FS_CardinalityType
    <3>3. u[T] = f[x] + u[R] /\ v[T] = g[x] + v[R] /\ w[T] = h[x] + w[R]
      BY <1>1, <1>2, <1>3, <2>4 DEF IsSum
    <3> HIDE DEF x, R
    <3>4. Adds(R)
      <4>1. m - 1 \notin Bad
        BY <2>1, <3>1, <3>2
      <4> QED BY <3>1, <3>2, <4>1
    <3>5. f[x] \in Int /\ g[x] \in Int /\ h[x] = f[x] + g[x]
      BY <1>0, <3>1
    <3> QED BY <2>2, <3>3, <3>4, <3>5
  <2> QED BY <2>3, <2>4
<1>5. Adds(S)
  <2>1. Cardinality(S) \in Nat
    BY <1>0, FS_CardinalityType
  <2>2. Cardinality(S) \notin Bad
    BY <1>4
  <2> HIDE DEF Adds
  <2> QED BY <2>1, <2>2
<1> QED BY <1>0, <1>1, <1>2, <1>3, <1>5 DEF SumFunction

===============================================================================
