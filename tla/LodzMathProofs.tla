--------------------------- MODULE LodzMathProofs ---------------------------
(***************************************************************************)
(* Lemmas about the operators of LodzMath and the sums over sets: what     *)
(* flooring division bounds, and how a sum changes when one summand does.  *)
(***************************************************************************)
EXTENDS LodzMath, Functions, FiniteSetTheorems, TLAPS

(***************************************************************************)
(* Induction on the naturals, for sets: a non-empty set of naturals has a  *)
(* least element.                                                          *)
(***************************************************************************)
LEMMA LeastNat ==
    ASSUME NEW T \in SUBSET Nat, T # {}
    PROVE  \E m \in T : \A n \in T : m <= n
<1>1. \E m \in T : \A n \in T : ~ (<<n, m>> \in OpToRel(<, Nat))
  <2> HIDE DEF OpToRel
  <2> QED BY NatLessThanWellFounded, WFMin
<1>2. \A m, n \in Nat : n < m => <<n, m>> \in OpToRel(<, Nat)
  BY DEF OpToRel
<1>3. \E m \in T : \A n \in T : ~ (n < m)
  BY <1>1, <1>2, Zenon
<1> QED
  BY <1>3, SMT

(***************************************************************************)
(* The form the sums use: a set of naturals that holds 0 and, with every   *)
(* number below N, its successor, holds all of 0..N.                       *)
(***************************************************************************)
LEMMA UpTo ==
    ASSUME NEW N \in Nat, NEW T, 0 \in T,
           \A n \in 0..(N - 1) : n \in T => n + 1 \in T
    PROVE  0..N \subseteq T
<1>1. SUFFICES ASSUME (0..N) \ T # {} PROVE FALSE
  OBVIOUS
<1>2. PICK m \in (0..N) \ T : \A n \in (0..N) \ T : m <= n
  <2> DEFINE C == (0..N) \ T
  <2>1. C \in SUBSET Nat /\ C # {}
    BY <1>1
  <2> HIDE DEF C
  <2>2. \E m \in C : \A n \in C : m <= n
    BY <2>1, LeastNat
  <2> QED BY <2>2 DEF C
<1>3. m - 1 \in 0..(N - 1)
  BY <1>2
<1>4. m - 1 \in T
  BY <1>2, <1>3
<1>5. (m - 1) + 1 \in T
  BY <1>3, <1>4
<1> QED
  BY <1>2, <1>5

-----------------------------------------------------------------------------
(***************************************************************************)
(* PrefixSum satisfies its recursion.                                      *)
(***************************************************************************)
IsPrefixSum(p, f, N) ==
    p = [i \in 0..N |-> IF i = 0 THEN 0 ELSE p[i - 1] + f[i]]

LEMMA PrefixSumExists ==
    ASSUME NEW N \in Nat, NEW f \in [1..N -> Nat]
    PROVE  \E p : IsPrefixSum(p, f, N)
<1> DEFINE T == {n \in 0..N : \E p : IsPrefixSum(p, f, n)}
<1>1. 0 \in T
  <2>1. IsPrefixSum([i \in 0..0 |-> 0], f, 0)
    BY DEF IsPrefixSum
  <2> QED BY <2>1
<1>2. ASSUME NEW n \in 0..(N - 1), n \in T PROVE n + 1 \in T
  <2>1. PICK p : IsPrefixSum(p, f, n)
    BY <1>2
  <2> DEFINE q == [i \in 0..(n + 1) |-> IF i = n + 1 THEN p[n] + f[n + 1]
                                                     ELSE p[i]]
  <2>2. IsPrefixSum(q, f, n + 1)
    BY <2>1 DEF IsPrefixSum
  <2>3. n + 1 \in 0..N
    OBVIOUS
  <2> QED BY <2>2, <2>3
<1>3. 0..N \subseteq T
  <2> HIDE DEF T
  <2> QED BY <1>1, <1>2, UpTo
<1> QED
  BY <1>3

LEMMA PrefixSumDef ==
    ASSUME NEW N \in Nat, NEW f \in [1..N -> Nat]
    PROVE  IsPrefixSum(PrefixSum(f, N), f, N)
<1>1. PrefixSum(f, N) = CHOOSE p : IsPrefixSum(p, f, N)
  BY Zenon DEF PrefixSum, IsPrefixSum
<1> QED
  BY <1>1, PrefixSumExists, Zenon

LEMMA PrefixSumType ==
    ASSUME NEW N \in Nat, NEW f \in [1..N -> Nat]
    PROVE  /\ PrefixSum(f, N) \in [0..N -> Nat]
           /\ PrefixSum(f, N)[0] = 0
           /\ \A i \in 1..N : PrefixSum(f, N)[i] = PrefixSum(f, N)[i - 1] + f[i]
<1> DEFINE p == PrefixSum(f, N)
           T == {i \in 0..N : p[i] \in Nat}
<1>1. p = [i \in 0..N |-> IF i = 0 THEN 0 ELSE p[i - 1] + f[i]]
  BY PrefixSumDef DEF IsPrefixSum
<1> HIDE DEF p
<1>2. p[0] = 0 /\ \A i \in 1..N : p[i] = p[i - 1] + f[i]
  BY <1>1
<1>3. 0 \in T
  BY <1>2
<1>4. ASSUME NEW n \in 0..(N - 1), n \in T PROVE n + 1 \in T
  <2>1. p[n + 1] = p[n] + f[n + 1]
    BY <1>2
  <2> QED BY <1>4, <2>1
<1>5. 0..N \subseteq T
  <2> HIDE DEF T
  <2> QED BY <1>3, <1>4, UpTo
<1>6. p \in [0..N -> Nat]
  <2>1. \A i \in 0..N : p[i] \in Nat
    BY <1>5
  <2>2. p = [i \in 0..N |-> p[i]]
    BY <1>1
  <2> QED BY <2>1, <2>2
<1> QED
  BY <1>2, <1>6 DEF p

-----------------------------------------------------------------------------
LEMMA TotalType ==
    ASSUME NEW N \in Nat, NEW f \in [1..N -> Nat]
    PROVE  Total(f, N) \in Nat
BY PrefixSumType DEF Total

(***************************************************************************)
(* The sum of nothing but zeros.                                           *)
(***************************************************************************)
LEMMA TotalOfZeros ==
    ASSUME NEW N \in Nat, NEW f \in [1..N -> Nat], \A i \in 1..N : f[i] = 0
    PROVE  Total(f, N) = 0
<1> DEFINE p == PrefixSum(f, N)
           T == {i \in 0..N : p[i] = 0}
<1>1. p[0] = 0 /\ \A i \in 1..N : p[i] = p[i - 1] + f[i]
  BY PrefixSumType
<1> HIDE DEF p
<1>2. 0 \in T
  BY <1>1
<1>3. ASSUME NEW n \in 0..(N - 1), n \in T PROVE n + 1 \in T
  <2>1. p[n + 1] = p[n] + f[n + 1]
    BY <1>1
  <2> QED BY <1>3, <2>1
<1>4. 0..N \subseteq T
  <2> HIDE DEF T
  <2> QED BY <1>2, <1>3, UpTo
<1> QED
  BY <1>4 DEF Total, p

(***************************************************************************)
(* Changing the summand at u changes the total by the same difference.     *)
(***************************************************************************)
LEMMA TotalOfUpdate ==
    ASSUME NEW N \in Nat, NEW f \in [1..N -> Nat], NEW g \in [1..N -> Nat],
           NEW u \in 1..N, \A i \in 1..N : i # u => g[i] = f[i]
    PROVE  Total(g, N) = Total(f, N) + g[u] - f[u]
<1> DEFINE p == PrefixSum(f, N)
           q == PrefixSum(g, N)
           T == {i \in 0..N : q[i] = p[i] + (IF i < u THEN 0 ELSE g[u] - f[u])}
<1>1. /\ p \in [0..N -> Nat] /\ p[0] = 0
      /\ \A i \in 1..N : p[i] = p[i - 1] + f[i]
  BY PrefixSumType
<1>2. /\ q \in [0..N -> Nat] /\ q[0] = 0
      /\ \A i \in 1..N : q[i] = q[i - 1] + g[i]
  BY PrefixSumType
<1> HIDE DEF p, q
<1>3. 0 \in T
  BY <1>1, <1>2
<1>4. ASSUME NEW n \in 0..(N - 1), n \in T PROVE n + 1 \in T
  <2>1. /\ p[n + 1] = p[n] + f[n + 1] /\ q[n + 1] = q[n] + g[n + 1]
        /\ p[n] \in Nat /\ q[n] \in Nat
    BY <1>1, <1>2
  <2>2. f[n + 1] \in Nat /\ g[n + 1] \in Nat /\ f[u] \in Nat /\ g[u] \in Nat
    OBVIOUS
  <2>3. q[n + 1] = p[n + 1] + (IF n + 1 < u THEN 0 ELSE g[u] - f[u])
    <3>1. q[n] = p[n] + (IF n < u THEN 0 ELSE g[u] - f[u])
      BY <1>4
    <3>2. CASE n + 1 = u
      <4>1. q[n] = p[n] /\ f[n + 1] = f[u] /\ g[n + 1] = g[u]
        BY <2>1, <3>1, <3>2
      <4> HIDE DEF T
      <4> QED BY <2>1, <2>2, <3>2, <4>1
    <3>3. CASE n + 1 # u
      <4>1. g[n + 1] = f[n + 1]
        BY <3>3
      <4> QED BY SMTT(30), <2>1, <2>2, <3>1, <3>3, <4>1
    <3> QED BY <3>2, <3>3
  <2> QED BY <2>3
<1>5. 0..N \subseteq T
  <2> HIDE DEF T
  <2> QED BY <1>3, <1>4, UpTo
<1>6. q[N] = p[N] + (IF N < u THEN 0 ELSE g[u] - f[u])
  BY <1>5
<1> QED
  BY <1>1, <1>2, <1>6 DEF Total, p, q

LEMMA TotalGrows ==
    ASSUME NEW N \in Nat, NEW f \in [1..N -> Nat], NEW g \in [1..N -> Nat],
           NEW u \in 1..N, NEW n \in Int, g[u] = f[u] + n,
           \A i \in 1..N : i # u => g[i] = f[i]
    PROVE  Total(g, N) = Total(f, N) + n
<1>1. Total(g, N) = Total(f, N) + g[u] - f[u]
  BY TotalOfUpdate, Zenon
<1>2. Total(f, N) \in Nat /\ f[u] \in Nat /\ g[u] \in Nat
  BY TotalType
<1> DEFINE t == Total(f, N)
           x == f[u]
           y == g[u]
<1>3. t + y - x = t + n
  <2> HIDE DEF t, x, y
  <2> QED BY <1>2 DEF t, x, y
<1> QED
  BY <1>1, <1>3, Zenon

(***************************************************************************)
(* One summand is at most the total.                                       *)
(***************************************************************************)
LEMMA SummandAtMostTotal ==
    ASSUME NEW N \in Nat, NEW f \in [1..N -> Nat], NEW u \in 1..N
    PROVE  f[u] <= Total(f, N)
<1> DEFINE g == [f EXCEPT ![u] = 0]
<1>1. g \in [1..N -> Nat] /\ g[u] = 0 /\ \A i \in 1..N : i # u => g[i] = f[i]
  OBVIOUS
<1>2. Total(g, N) = Total(f, N) + g[u] - f[u]
  <2> HIDE DEF g
  <2> QED BY <1>1, TotalOfUpdate
<1>3. Total(g, N) \in Nat /\ Total(f, N) \in Nat
  <2> HIDE DEF g
  <2> QED BY <1>1, TotalType
<1> QED
  BY <1>1, <1>2, <1>3

LEMMA AddInequalities ==
    ASSUME NEW a \in Nat, NEW c \in Nat, NEW p \in Nat, NEW f \in Nat,
           NEW q \in Nat, NEW g \in Nat, NEW r \in Nat, NEW h \in Nat,
           a * p <= q + c * r, a * f <= g + c * h
    PROVE  a * (p + f) <= (q + g) + c * (r + h)
BY SMT

(***************************************************************************)
(* An inequality between summands holds between totals, with factors.      *)
(***************************************************************************)
LEMMA TotalsInequality ==
    ASSUME NEW N \in Nat, NEW f \in [1..N -> Nat], NEW g \in [1..N -> Nat],
           NEW h \in [1..N -> Nat], NEW a \in Nat, NEW c \in Nat,
           \A i \in 1..N : a * f[i] <= g[i] + c * h[i]
    PROVE  a * Total(f, N) <= Total(g, N) + c * Total(h, N)
<1> DEFINE p == PrefixSum(f, N)
           q == PrefixSum(g, N)
           r == PrefixSum(h, N)
           T == {i \in 0..N : a * p[i] <= q[i] + c * r[i]}
<1>1. /\ p \in [0..N -> Nat] /\ p[0] = 0
      /\ \A i \in 1..N : p[i] = p[i - 1] + f[i]
  BY PrefixSumType
<1>2. /\ q \in [0..N -> Nat] /\ q[0] = 0
      /\ \A i \in 1..N : q[i] = q[i - 1] + g[i]
  BY PrefixSumType
<1>3. /\ r \in [0..N -> Nat] /\ r[0] = 0
      /\ \A i \in 1..N : r[i] = r[i - 1] + h[i]
  BY PrefixSumType
<1> HIDE DEF p, q, r
<1>4. 0 \in T
  BY <1>1, <1>2, <1>3
<1>5. ASSUME NEW n \in 0..(N - 1), n \in T PROVE n + 1 \in T
  <2>1. /\ p[n + 1] = p[n] + f[n + 1] /\ p[n] \in Nat /\ f[n + 1] \in Nat
        /\ q[n + 1] = q[n] + g[n + 1] /\ q[n] \in Nat /\ g[n + 1] \in Nat
        /\ r[n + 1] = r[n] + h[n + 1] /\ r[n] \in Nat /\ h[n + 1] \in Nat
    <3>1. n \in 0..N /\ n + 1 \in 1..N /\ (n + 1) - 1 = n
      OBVIOUS
    <3>2. p[n + 1] = p[n] + f[n + 1] /\ p[n] \in Nat /\ f[n + 1] \in Nat
      BY <1>1, <3>1
    <3>3. q[n + 1] = q[n] + g[n + 1] /\ q[n] \in Nat /\ g[n + 1] \in Nat
      BY <1>2, <3>1
    <3>4. r[n + 1] = r[n] + h[n + 1] /\ r[n] \in Nat /\ h[n + 1] \in Nat
      BY <1>3, <3>1
    <3> QED BY <3>2, <3>3, <3>4
  <2>2. /\ a * p[n] <= q[n] + c * r[n]
        /\ a * f[n + 1] <= g[n + 1] + c * h[n + 1]
    BY <1>5
  <2>3. a * (p[n] + f[n + 1]) <= (q[n] + g[n + 1]) + c * (r[n] + h[n + 1])
    BY <2>1, <2>2, AddInequalities, Zenon
  <2>4. a * p[n + 1] <= q[n + 1] + c * r[n + 1]
    BY <2>1, <2>3, Zenon
  <2> QED BY <2>4
<1>6. 0..N \subseteq T
  <2> HIDE DEF T
  <2> QED BY <1>4, <1>5, UpTo
<1>7. a * p[N] <= q[N] + c * r[N]
  BY <1>6
<1> QED
  BY <1>7 DEF Total, p, q, r

-----------------------------------------------------------------------------
(***************************************************************************)
(* Flooring division, and what follows for mul_div_floor.                  *)
(***************************************************************************)
LEMMA DivBounds ==
    ASSUME NEW a \in Nat, NEW c \in Nat, c > 0
    PROVE  /\ a \div c \in Nat
           /\ c * (a \div c) <= a
           /\ a < c * (a \div c) + c
BY SMT

LEMMA MulDivFloorBounds ==
    ASSUME NEW a \in Nat, NEW b \in Nat, NEW c \in Nat, c > 0
    PROVE  /\ MulDivFloor(a, b, c) \in Nat
           /\ c * MulDivFloor(a, b, c) <= a * b
           /\ a * b < c * MulDivFloor(a, b, c) + c
<1>1. a * b \in Nat
  BY SMT
<1> QED
  BY <1>1, DivBounds DEF MulDivFloor

LEMMA QuotientMonotone ==
    ASSUME NEW x \in Nat, NEW y \in Nat, NEW c \in Nat, c > 0, x <= y
    PROVE  x \div c <= y \div c
<1>1. /\ x \div c \in Nat /\ c * (x \div c) <= x
      /\ y \div c \in Nat /\ y < c * (y \div c) + c
  BY DivBounds
<1> DEFINE p == x \div c
           q == y \div c
<1> HIDE DEF p, q
<1>2. p \in Nat /\ q \in Nat /\ c * p < c * q + c
  BY <1>1 DEF p, q
<1>3. p < q + 1
  <2>1. SUFFICES ASSUME q + 1 <= p PROVE FALSE
    BY <1>2
  <2>2. c * (q + 1) <= c * p
    BY <1>2, <2>1
  <2>3. c * (q + 1) = c * q + c
    BY <1>2
  <2> QED BY <1>2, <2>2, <2>3
<1>4. p <= q
  BY <1>2, <1>3
<1> QED BY <1>4 DEF p, q

-----------------------------------------------------------------------------
(***************************************************************************)
(* Sums and products over finite sets, k being "sum" or "product".  A fold *)
(* takes the values in an order that CHOOSE fixes; these lemmas show that  *)
(* the order does not matter, and so what one element more adds.           *)
(***************************************************************************)
Some(s) == CHOOSE x \in s : TRUE

Unit(k)     == IF k = "sum" THEN 0 ELSE 1
Op(k, x, y) == IF k = "sum" THEN x + y ELSE x * y

FoldStep(k, it, f, s) ==
    IF s = {} THEN Unit(k) ELSE Op(k, f[Some(s)], it[s \ {Some(s)}])

IsSetFold(k, it, f, D) == it = [s \in D |-> FoldStep(k, it, f, s)]

SetFold(k, f, S) == CHOOSE it : IsSetFold(k, it, f, SUBSET S)

LEMMA OpCommutes ==
    ASSUME NEW k, NEW x \in Nat, NEW y \in Nat, NEW z \in Nat
    PROVE  Op(k, x, Op(k, y, z)) = Op(k, y, Op(k, x, z))
<1>1. x * (y * z) = y * (x * z)
  OBVIOUS
<1>2. x + (y + z) = y + (x + z)
  OBVIOUS
<1> QED BY <1>1, <1>2 DEF Op

LEMMA OpType ==
    ASSUME NEW k, NEW x \in Nat, NEW y \in Nat
    PROVE  Op(k, x, y) \in Nat /\ Unit(k) \in Nat
<1>1. x * y \in Nat /\ x + y \in Nat
  OBVIOUS
<1> QED BY <1>1 DEF Op, Unit

Product(f, S) == FoldFunctionOnSet(LAMBDA x, y : x * y, 1, f, S)

LEMMA SetFoldDef ==
    ASSUME NEW f, NEW S
    PROVE  /\ SumFunctionOnSet(f, S) = SetFold("sum", f, S)[S]
           /\ Product(f, S) = SetFold("product", f, S)[S]
<1>1. SetFold("sum", f, S) =
        CHOOSE it : it = [s \in SUBSET S |->
            IF s = {} THEN 0 ELSE f[Some(s)] + it[s \ {Some(s)}]]
  BY Zenon DEF SetFold, IsSetFold, FoldStep, Op, Unit
<1>2. SetFold("product", f, S) =
        CHOOSE it : it = [s \in SUBSET S |->
            IF s = {} THEN 1 ELSE f[Some(s)] * it[s \ {Some(s)}]]
  BY Zenon DEF SetFold, IsSetFold, FoldStep, Op, Unit
<1>3. SumFunctionOnSet(f, S) = SetFold("sum", f, S)[S]
  BY <1>1, Zenon DEF SumFunctionOnSet, FoldFunctionOnSet, MapThenFoldSet, Some
<1> QED
  BY <1>2, <1>3, Zenon DEF Product, FoldFunctionOnSet, MapThenFoldSet, Some

(***************************************************************************)
(* The induction is on the size of the subsets of S.                       *)
(***************************************************************************)
Small(S, n) == {s \in SUBSET S : Cardinality(s) <= n}

LEMMA SmallSets ==
    ASSUME NEW S, IsFiniteSet(S)
    PROVE  /\ Small(S, 0) = {{}}
           /\ Small(S, Cardinality(S)) = SUBSET S
           /\ Cardinality(S) \in Nat
           /\ \A n \in Nat, s \in SUBSET S : \A x \in s :
                s \in Small(S, n + 1) => s \ {x} \in Small(S, n)
<1>1. \A s \in SUBSET S : /\ IsFiniteSet(s) /\ Cardinality(s) \in Nat
                          /\ Cardinality(s) <= Cardinality(S)
  BY FS_Subset, FS_CardinalityType
<1>2. \A s \in SUBSET S : Cardinality(s) = 0 <=> s = {}
  BY <1>1, FS_EmptySet
<1>3. \A s \in SUBSET S : \A x \in s : Cardinality(s \ {x}) = Cardinality(s) - 1
  BY <1>1, FS_RemoveElement
<1>4. Small(S, 0) = {{}}
  BY <1>1, <1>2 DEF Small
<1>5. ASSUME NEW n \in Nat, NEW s \in SUBSET S, NEW x \in s, s \in Small(S, n + 1)
      PROVE  s \ {x} \in Small(S, n)
  BY <1>1, <1>3, <1>5 DEF Small
<1> QED BY <1>1, <1>4, <1>5 DEF Small

LEMMA SetFoldExists ==
    ASSUME NEW k, NEW S, IsFiniteSet(S), NEW f
    PROVE  \E it : IsSetFold(k, it, f, SUBSET S)
<1> DEFINE N == Cardinality(S)
           T == {n \in 0..N : \E it : IsSetFold(k, it, f, Small(S, n))}
<1>0. N \in Nat /\ Small(S, N) = SUBSET S /\ Small(S, 0) = {{}}
  BY SmallSets
<1>1. 0 \in T
  <2>1. IsSetFold(k, [s \in {{}} |-> Unit(k)], f, {{}})
    BY DEF IsSetFold, FoldStep
  <2>2. \E it : IsSetFold(k, it, f, Small(S, 0))
    BY <1>0, <2>1
  <2> QED BY <1>0, <2>2
<1>2. ASSUME NEW n \in 0..(N - 1), n \in T PROVE n + 1 \in T
  <2>1. PICK it : IsSetFold(k, it, f, Small(S, n))
    BY <1>2
  <2> DEFINE next == [s \in Small(S, n + 1) |-> FoldStep(k, it, f, s)]
  <2>2. ASSUME NEW s \in Small(S, n) PROVE s \in Small(S, n + 1) /\ next[s] = it[s]
    <3>1. s \in Small(S, n + 1)
      <4>1. Cardinality(s) \in Nat /\ Cardinality(s) <= n /\ s \in SUBSET S
        BY FS_Subset, FS_CardinalityType DEF Small
      <4> QED BY <4>1 DEF Small
    <3>2. next[s] = FoldStep(k, it, f, s)
      BY <3>1
    <3>3. it[s] = FoldStep(k, it, f, s)
      BY <2>1 DEF IsSetFold
    <3> QED BY <3>1, <3>2, <3>3
  <2>3. ASSUME NEW s \in Small(S, n + 1) PROVE FoldStep(k, it, f, s) = FoldStep(k, next, f, s)
    <3>1. CASE s = {}
      BY <3>1 DEF FoldStep
    <3>2. CASE s # {}
      <4>1. Some(s) \in s /\ s \in SUBSET S
        BY <3>2 DEF Some, Small
      <4>2. s \ {Some(s)} \in Small(S, n)
        BY <4>1, SmallSets
      <4>3. next[s \ {Some(s)}] = it[s \ {Some(s)}]
        BY <4>2, <2>2
      <4> HIDE DEF next
      <4> QED BY <4>3 DEF FoldStep
    <3> QED BY <3>1, <3>2
  <2>4. IsSetFold(k, next, f, Small(S, n + 1))
    <3>1. next = [s \in Small(S, n + 1) |-> FoldStep(k, next, f, s)]
      BY <2>3, Zenon
    <3> QED BY <3>1 DEF IsSetFold
  <2>5. n + 1 \in 0..N
    BY <1>0
  <2> QED BY <2>4, <2>5
<1>4. 0..N \subseteq T
  <2> HIDE DEF T, N
  <2> QED BY <1>0, <1>1, <1>2, UpTo
<1>5. N \in T
  BY <1>0, <1>4
<1> QED
  BY <1>0, <1>5

LEMMA SetFoldStep ==
    ASSUME NEW k, NEW S, IsFiniteSet(S), NEW f, NEW s \in SUBSET S
    PROVE  SetFold(k, f, S)[s] = FoldStep(k, SetFold(k, f, S), f, s)
<1>1. IsSetFold(k, SetFold(k, f, S), f, SUBSET S)
  BY SetFoldExists, Zenon DEF SetFold
<1> QED BY <1>1, Zenon DEF IsSetFold

(***************************************************************************)
(* A fold stays in every set that is closed under its operation.           *)
(***************************************************************************)
LEMMA SetFoldType ==
    ASSUME NEW k, NEW Type, Unit(k) \in Type, \A x, y \in Type : Op(k, x, y) \in Type,
           NEW S, IsFiniteSet(S), NEW f \in [S -> Type], NEW s \in SUBSET S
    PROVE  SetFold(k, f, S)[s] \in Type
<1> DEFINE N == Cardinality(S)
           it == SetFold(k, f, S)
           T == {n \in 0..N : \A r \in Small(S, n) : it[r] \in Type}
<1>1. N \in Nat /\ Small(S, N) = SUBSET S /\ Small(S, 0) = {{}}
  BY SmallSets
<1>2. \A r \in SUBSET S : it[r] = FoldStep(k, it, f, r)
  BY SetFoldStep, Zenon
<1> HIDE DEF it
<1>3. 0 \in T
  <2>1. it[{}] = FoldStep(k, it, f, {})
    BY <1>2
  <2>2. it[{}] \in Type
    BY <2>1 DEF FoldStep
  <2>3. \A r \in Small(S, 0) : it[r] \in Type
    BY <1>1, <2>2
  <2>4. 0 \in 0..N
    BY <1>1
  <2> QED BY <2>3, <2>4, Zenon
<1>4. ASSUME NEW n \in 0..(N - 1), n \in T PROVE n + 1 \in T
  <2>1. ASSUME NEW r \in Small(S, n + 1) PROVE it[r] \in Type
    <3>1. it[r] = FoldStep(k, it, f, r)
      BY <1>2 DEF Small
    <3>2. CASE r = {}
      BY <3>1, <3>2 DEF FoldStep
    <3>3. CASE r # {}
      <4>1. Some(r) \in r /\ r \in SUBSET S
        BY <3>3 DEF Some, Small
      <4>2. r \ {Some(r)} \in Small(S, n)
        BY <4>1, SmallSets
      <4>3. it[r \ {Some(r)}] \in Type /\ f[Some(r)] \in Type
        BY <4>1, <4>2, <1>4
      <4>4. it[r] = Op(k, f[Some(r)], it[r \ {Some(r)}])
        BY <3>1, <3>3 DEF FoldStep
      <4> QED BY <4>3, <4>4, Zenon
    <3> QED BY <3>2, <3>3
  <2>2. n + 1 \in 0..N
    BY <1>1
  <2> QED BY <2>1, <2>2
<1>5. 0..N \subseteq T
  <2> HIDE DEF T, N
  <2> QED BY <1>1, <1>3, <1>4, UpTo
<1>6. N \in T
  BY <1>1, <1>5
<1> QED
  BY <1>1, <1>6 DEF it

LEMMA SetFoldNat ==
    ASSUME NEW k, NEW S, IsFiniteSet(S), NEW f \in [S -> Nat], NEW s \in SUBSET S
    PROVE  SetFold(k, f, S)[s] \in Nat
<1>1. Unit(k) \in Nat /\ \A x, y \in Nat : Op(k, x, y) \in Nat
  BY OpType, Zenon
<1> QED BY <1>1, SetFoldType, Zenon

(***************************************************************************)
(* Any element may come first.                                             *)
(***************************************************************************)
LEMMA SetFoldAnyOrder ==
    ASSUME NEW k, NEW S, IsFiniteSet(S), NEW f \in [S -> Nat], NEW s \in SUBSET S, NEW a \in s
    PROVE  SetFold(k, f, S)[s] = Op(k, f[a], SetFold(k, f, S)[s \ {a}])
<1> DEFINE N == Cardinality(S)
           it == SetFold(k, f, S)
           T == {n \in 0..N : \A r \in Small(S, n) : \A b \in r :
                                it[r] = Op(k, f[b], it[r \ {b}])}
<1>1. N \in Nat /\ Small(S, N) = SUBSET S /\ Small(S, 0) = {{}}
  BY SmallSets
<1>2. \A r \in SUBSET S : it[r] = FoldStep(k, it, f, r)
  BY SetFoldStep, Zenon
<1>3. \A r \in SUBSET S : it[r] \in Nat
  BY SetFoldNat, Zenon
<1> HIDE DEF it
<1>4. 0 \in T
  BY <1>1
<1>5. ASSUME NEW n \in 0..(N - 1), n \in T PROVE n + 1 \in T
  <2>1. ASSUME NEW r \in Small(S, n + 1), NEW b \in r
        PROVE  it[r] = Op(k, f[b], it[r \ {b}])
    <3> DEFINE x == Some(r)
    <3>1. x \in r /\ r \in SUBSET S /\ r # {}
      BY DEF Some, Small
    <3>2. it[r] = Op(k, f[x], it[r \ {x}])
      BY <1>2, <3>1 DEF FoldStep
    <3> HIDE DEF x
    <3>3. r \ {x} \in Small(S, n) /\ r \ {b} \in Small(S, n)
      BY <3>1, SmallSets
    <3>4. CASE x = b
      BY <3>2, <3>4
    <3>5. CASE x # b
      <4>1. it[r \ {x}] = Op(k, f[b], it[(r \ {x}) \ {b}])
        BY <1>5, <3>3, <3>5
      <4>2. it[r \ {b}] = Op(k, f[x], it[(r \ {b}) \ {x}])
        BY <1>5, <3>1, <3>3, <3>5
      <4>3. (r \ {b}) \ {x} = (r \ {x}) \ {b}
        OBVIOUS
      <4>4. f[b] \in Nat /\ f[x] \in Nat /\ it[(r \ {x}) \ {b}] \in Nat
        BY <1>3, <3>1
      <4> DEFINE rest == it[(r \ {x}) \ {b}]
      <4>5. it[r] = Op(k, f[x], Op(k, f[b], rest))
        BY <3>2, <4>1, Zenon
      <4>6. it[r \ {b}] = Op(k, f[x], rest)
        BY <4>2, <4>3, Zenon
      <4> HIDE DEF rest
      <4>7. Op(k, f[x], Op(k, f[b], rest)) = Op(k, f[b], Op(k, f[x], rest))
        <5>1. rest \in Nat
          BY <4>4 DEF rest
        <5> QED BY <4>4, <5>1, OpCommutes, Zenon
      <4> QED BY <4>5, <4>6, <4>7, Zenon
    <3> QED BY <3>4, <3>5
  <2>2. n + 1 \in 0..N
    BY <1>1
  <2> QED BY <2>1, <2>2
<1>6. 0..N \subseteq T
  <2> HIDE DEF T, N
  <2> QED BY <1>1, <1>4, <1>5, UpTo
<1>7. N \in T
  BY <1>1, <1>6
<1> QED
  BY <1>1, <1>7 DEF it

(***************************************************************************)
(* Only the summands of the set itself count.                              *)
(***************************************************************************)
LEMMA SetFoldAnyDomain ==
    ASSUME NEW k, NEW S, IsFiniteSet(S), NEW f, NEW R, IsFiniteSet(R), NEW g,
           S \subseteq R, \A x \in S : f[x] = g[x]
    PROVE  SetFold(k, f, S)[S] = SetFold(k, g, R)[S]
<1> DEFINE N == Cardinality(S)
           it == SetFold(k, f, S)
           other == SetFold(k, g, R)
           T == {n \in 0..N : \A r \in Small(S, n) : it[r] = other[r]}
<1>1. N \in Nat /\ Small(S, N) = SUBSET S /\ Small(S, 0) = {{}}
  BY SmallSets
<1>2. \A r \in SUBSET S : it[r] = FoldStep(k, it, f, r)
  BY SetFoldStep, Zenon
<1>3. \A r \in SUBSET R : other[r] = FoldStep(k, other, g, r)
  BY SetFoldStep, Zenon
<1> HIDE DEF it, other
<1>4. 0 \in T
  <2>1. it[{}] = FoldStep(k, it, f, {}) /\ other[{}] = FoldStep(k, other, g, {})
    BY <1>2, <1>3
  <2>2. it[{}] = other[{}]
    BY <2>1 DEF FoldStep
  <2>3. \A r \in Small(S, 0) : it[r] = other[r]
    BY <1>1, <2>2
  <2> QED BY <1>1, <2>3
<1>5. ASSUME NEW n \in 0..(N - 1), n \in T PROVE n + 1 \in T
  <2>1. ASSUME NEW r \in Small(S, n + 1) PROVE it[r] = other[r]
    <3>1. r \in SUBSET S /\ r \in SUBSET R
      BY DEF Small
    <3>2. CASE r = {}
      BY <1>2, <1>3, <3>1, <3>2 DEF FoldStep
    <3>3. CASE r # {}
      <4>1. Some(r) \in r
        BY <3>3 DEF Some
      <4>2. r \ {Some(r)} \in Small(S, n)
        BY <3>1, <4>1, SmallSets
      <4>3. it[r \ {Some(r)}] = other[r \ {Some(r)}]
        BY <4>2, <1>5
      <4>4. f[Some(r)] = g[Some(r)]
        BY <3>1, <4>1
      <4> QED BY <1>2, <1>3, <3>1, <3>3, <4>3, <4>4 DEF FoldStep
    <3> QED BY <3>2, <3>3
  <2>2. n + 1 \in 0..N
    BY <1>1
  <2> QED BY <2>1, <2>2
<1>6. 0..N \subseteq T
  <2> HIDE DEF T, N
  <2> QED BY <1>1, <1>4, <1>5, UpTo
<1>7. N \in T
  BY <1>1, <1>6
<1> QED
  BY <1>1, <1>7 DEF it, other

(***************************************************************************)
(* What the rest uses.                                                     *)
(***************************************************************************)
LEMMA SumType ==
    ASSUME NEW S, IsFiniteSet(S), NEW f \in [S -> Nat]
    PROVE  SumFunctionOnSet(f, S) \in Nat
BY SetFoldDef, SetFoldNat

LEMMA SumOfNone ==
    ASSUME NEW f
    PROVE  SumFunctionOnSet(f, {}) = 0
<1>1. IsFiniteSet({})
  BY FS_EmptySet
<1>2. SetFold("sum", f, {})[{}] = FoldStep("sum", SetFold("sum", f, {}), f, {})
  BY <1>1, SetFoldStep
<1> QED BY <1>2, SetFoldDef DEF FoldStep, Unit

LEMMA SumPlusOne ==
    ASSUME NEW S, IsFiniteSet(S), NEW a, a \notin S,
           NEW g \in [S \cup {a} -> Nat], NEW f \in [S -> Nat],
           \A x \in S : f[x] = g[x]
    PROVE  SumFunctionOnSet(g, S \cup {a}) = SumFunctionOnSet(f, S) + g[a]
<1> DEFINE R == S \cup {a}
<1>1. IsFiniteSet(R) /\ S \subseteq R /\ R \ {a} = S /\ a \in R /\ R \in SUBSET R
  BY FS_AddElement
<1>2. g \in [R -> Nat]
  OBVIOUS
<1> HIDE DEF R
<1>3. SetFold("sum", g, R)[R] = g[a] + SetFold("sum", g, R)[R \ {a}]
  <2>1. SetFold("sum", g, R)[R] = Op("sum", g[a], SetFold("sum", g, R)[R \ {a}])
    BY ONLY <1>1, <1>2, SetFoldAnyOrder
  <2> QED BY <2>1, Zenon DEF Op
<1>4. SetFold("sum", f, S)[S] = SetFold("sum", g, R)[S]
  BY <1>1, SetFoldAnyDomain
<1>5. /\ SumFunctionOnSet(g, R) = SetFold("sum", g, R)[R]
      /\ SumFunctionOnSet(f, S) = SetFold("sum", f, S)[S]
  BY SetFoldDef
<1>6. SumFunctionOnSet(f, S) \in Nat /\ g[a] \in Nat
  BY <1>1, <1>2, SumType
<1>7. SumFunctionOnSet(g, R) = g[a] + SumFunctionOnSet(f, S)
  BY <1>1, <1>3, <1>4, <1>5, Zenon
<1>8. SumFunctionOnSet(g, R) = SumFunctionOnSet(f, S) + g[a]
  BY <1>6, <1>7
<1> QED BY <1>8 DEF R

LEMMA SumOfEquals ==
    ASSUME NEW S, IsFiniteSet(S), NEW f, NEW g, \A x \in S : f[x] = g[x]
    PROVE  SumFunctionOnSet(f, S) = SumFunctionOnSet(g, S)
BY SetFoldDef, SetFoldAnyDomain

(***************************************************************************)
(* One value taken out of a sum; and one that grows by n, and the sum with *)
(* it.                                                                     *)
(***************************************************************************)
LEMMA SumWithout ==
    ASSUME NEW S, IsFiniteSet(S), NEW a \in S, NEW f \in [S -> Nat]
    PROVE  /\ SumFunctionOnSet(f, S)
                = SumFunctionOnSet([x \in S \ {a} |-> f[x]], S \ {a}) + f[a]
           /\ SumFunctionOnSet([x \in S \ {a} |-> f[x]], S \ {a}) \in Nat
<1> DEFINE R == S \ {a}
           h == [x \in R |-> f[x]]
<1>1. IsFiniteSet(R) /\ a \notin R /\ R \cup {a} = S
  BY FS_RemoveElement
<1>2. h \in [R -> Nat] /\ \A x \in R : h[x] = f[x]
  OBVIOUS
<1> HIDE DEF R, h
<1>3. f \in [R \cup {a} -> Nat]
  BY <1>1
<1>4. SumFunctionOnSet(f, R \cup {a}) = SumFunctionOnSet(h, R) + f[a]
  BY <1>1, <1>2, <1>3, SumPlusOne
<1>5. SumFunctionOnSet(h, R) \in Nat
  BY <1>1, <1>2, SumType
<1> QED
  BY <1>1, <1>4, <1>5, Zenon DEF R, h

LEMMA SumGrows ==
    ASSUME NEW S, IsFiniteSet(S), NEW a \in S, NEW n \in Nat,
           NEW f \in [S -> Nat], NEW g \in [S -> Nat],
           g[a] = f[a] + n, \A x \in S : x # a => g[x] = f[x]
    PROVE  SumFunctionOnSet(g, S) = SumFunctionOnSet(f, S) + n
<1> DEFINE h == [x \in S \ {a} |-> f[x]]
           t == SumFunctionOnSet(h, S \ {a})
           x == f[a]
<1>1. h = [y \in S \ {a} |-> g[y]] /\ x \in Nat
  OBVIOUS
<1> HIDE DEF h, x
<1>2. SumFunctionOnSet(f, S) = t + x /\ t \in Nat
  BY SumWithout DEF h, x
<1>3. SumFunctionOnSet(g, S) = t + (x + n)
  <2>1. SumFunctionOnSet(g, S) = t + g[a]
    BY <1>1, SumWithout
  <2> QED BY <2>1 DEF x
<1> HIDE DEF t
<1> QED
  BY <1>1, <1>2, <1>3

(***************************************************************************)
(* A sum is at most any sum of larger values over a larger set.            *)
(***************************************************************************)
LEMMA PartialSumsGrow ==
    ASSUME NEW S, IsFiniteSet(S), NEW f \in [S -> Nat], NEW g \in [S -> Nat],
           NEW R \in SUBSET S, \A x \in R : f[x] <= g[x]
    PROVE  SetFold("sum", f, S)[R] <= SetFold("sum", g, S)[S]
<1> DEFINE N == Cardinality(S)
           p == SetFold("sum", f, S)
           q == SetFold("sum", g, S)
           T == {n \in 0..N : \A r \in Small(S, n) : p[R \cap r] <= q[r]}
<1>1. N \in Nat /\ Small(S, N) = SUBSET S /\ Small(S, 0) = {{}}
  BY SmallSets
<1>2. \A r \in SUBSET S : p[r] \in Nat /\ q[r] \in Nat
  BY SetFoldNat
<1>3. p[{}] = 0 /\ q[{}] = 0
  <2>1. p[{}] = FoldStep("sum", p, f, {}) /\ q[{}] = FoldStep("sum", q, g, {})
    BY SetFoldStep
  <2> HIDE DEF p, q
  <2> QED BY <2>1 DEF FoldStep, Unit
<1>4. ASSUME NEW r \in SUBSET S, NEW a \in r
      PROVE  p[r] = f[a] + p[r \ {a}] /\ q[r] = g[a] + q[r \ {a}]
  <2>1. p[r] = Op("sum", f[a], p[r \ {a}])
    BY SetFoldAnyOrder
  <2>2. q[r] = Op("sum", g[a], q[r \ {a}])
    BY SetFoldAnyOrder
  <2> HIDE DEF p, q
  <2> QED BY <2>1, <2>2 DEF Op
<1> HIDE DEF p, q
<1>5. 0 \in T
  <2>1. ASSUME NEW r \in Small(S, 0) PROVE p[R \cap r] <= q[r]
    <3>1. r = {} /\ R \cap r = {}
      BY <1>1
    <3>2. p[R \cap r] = 0 /\ q[r] = 0
      BY <1>3, <3>1
    <3> QED BY <3>2
  <2>2. 0 \in 0..N
    BY <1>1
  <2> QED BY <2>1, <2>2
<1>6. ASSUME NEW n \in 0..(N - 1), n \in T PROVE n + 1 \in T
  <2>1. ASSUME NEW r \in Small(S, n + 1) PROVE p[R \cap r] <= q[r]
    <3>1. r \in SUBSET S
      BY DEF Small
    <3>2. CASE r = {}
      <4>1. R \cap r = {}
        BY <3>2
      <4> QED BY <1>3, <3>2, <4>1
    <3>3. ASSUME NEW a \in r PROVE p[R \cap r] <= q[r]
      <4> DEFINE rest == r \ {a}
      <4>1. rest \in Small(S, n) /\ rest \in SUBSET S /\ R \cap rest \in SUBSET S
        BY <3>1, SmallSets
      <4>2. q[r] = g[a] + q[rest]
        BY <1>4, <3>1
      <4>3. a \in R => p[R \cap r] = f[a] + p[R \cap rest] /\ f[a] <= g[a]
        <5>1. (R \cap r) \ {a} = R \cap rest /\ R \cap r \in SUBSET S
          BY <3>1
        <5> QED BY <1>4, <5>1
      <4>4. a \notin R => R \cap r = R \cap rest
        OBVIOUS
      <4>5. f[a] \in Nat /\ g[a] \in Nat
        BY <3>1
      <4> HIDE DEF rest
      <4>6. p[R \cap rest] <= q[rest] /\ p[R \cap rest] \in Nat /\ q[rest] \in Nat
        BY <1>2, <1>6, <4>1
      <4>7. CASE a \in R
        BY <4>2, <4>3, <4>5, <4>6, <4>7
      <4>8. CASE a \notin R
        <5>1. p[R \cap r] = p[R \cap rest]
          BY <4>4, <4>8
        <5> QED BY <4>2, <4>5, <4>6, <5>1
      <4> QED BY <4>7, <4>8
    <3> QED BY <3>2, <3>3
  <2>2. n + 1 \in 0..N
    BY <1>1
  <2> QED BY <2>1, <2>2
<1>7. 0..N \subseteq T
  <2> HIDE DEF T, N
  <2> QED BY <1>1, <1>5, <1>6, UpTo
<1>8. N \in T
  BY <1>1, <1>7
<1>9. S \in Small(S, N) /\ R \cap S = R
  BY <1>1
<1>10. p[R] <= q[S]
  BY <1>8, <1>9
<1> QED
  BY <1>10 DEF p, q

LEMMA SumBounded ==
    ASSUME NEW S, IsFiniteSet(S), NEW R \in SUBSET S, NEW f \in [R -> Nat],
           NEW g \in [S -> Nat], \A x \in R : f[x] <= g[x]
    PROVE  SumFunctionOnSet(f, R) <= SumFunctionOnSet(g, S)
<1> DEFINE h == [x \in S |-> IF x \in R THEN f[x] ELSE 0]
<1>1. IsFiniteSet(R)
  BY FS_Subset
<1>2. h \in [S -> Nat] /\ (\A x \in R : h[x] <= g[x]) /\ \A x \in R : f[x] = h[x]
  OBVIOUS
<1> HIDE DEF h
<1>3. SetFold("sum", f, R)[R] = SetFold("sum", h, S)[R]
  BY <1>1, <1>2, SetFoldAnyDomain
<1>4. SetFold("sum", h, S)[R] <= SetFold("sum", g, S)[S]
  BY <1>2, PartialSumsGrow
<1>5. SetFold("sum", f, R)[R] <= SetFold("sum", g, S)[S]
  BY <1>3, <1>4
<1> QED
  BY <1>5, SetFoldDef

LEMMA SumOfOne ==
    ASSUME NEW a, NEW f \in [{a} -> Nat]
    PROVE  SumFunctionOnSet(f, {a}) = f[a]
<1> DEFINE g == [x \in {a} \ {a} |-> f[x]]
<1>1. IsFiniteSet({a}) /\ a \in {a} /\ {a} \ {a} = {}
  BY FS_Singleton
<1>2. SumFunctionOnSet(f, {a}) = SumFunctionOnSet(g, {a} \ {a}) + f[a]
  BY <1>1, SumWithout
<1>3. SumFunctionOnSet(g, {}) = 0
  BY SumOfNone
<1>4. f[a] \in Nat
  OBVIOUS
<1> HIDE DEF g
<1> QED BY <1>1, <1>2, <1>3, <1>4

(***************************************************************************)
(* Products of positive numbers: what one factor more does, and that each  *)
(* factor divides the product.                                             *)
(***************************************************************************)
LEMMA ProductType ==
    ASSUME NEW S, IsFiniteSet(S), NEW f \in [S -> Nat \ {0}]
    PROVE  Product(f, S) \in Nat \ {0}
<1>1. PICK k : k = "product"
  OBVIOUS
<1>2. PICK Type : Type = Nat \ {0}
  OBVIOUS
<1>3. Unit(k) \in Type /\ \A x, y \in Type : Op(k, x, y) \in Type
  <2>1. \A x, y \in Nat \ {0} : x * y \in Nat \ {0}
    OBVIOUS
  <2> QED BY <1>1, <1>2, <2>1 DEF Unit, Op
<1>4. f \in [S -> Type] /\ S \in SUBSET S
  BY <1>2
<1>5. SetFold(k, f, S)[S] \in Type
  BY ONLY <1>3, <1>4, IsFiniteSet(S), SetFoldType, Zenon
<1> QED BY <1>1, <1>2, <1>5, SetFoldDef

LEMMA ProductOfNone ==
    ASSUME NEW f
    PROVE  Product(f, {}) = 1
<1>1. IsFiniteSet({})
  BY FS_EmptySet
<1>2. SetFold("product", f, {})[{}] = FoldStep("product", SetFold("product", f, {}), f, {})
  BY <1>1, SetFoldStep
<1> QED BY <1>2, SetFoldDef DEF FoldStep, Unit

LEMMA ProductTakesOne ==
    ASSUME NEW S, IsFiniteSet(S), NEW a \in S, NEW f \in [S -> Nat],
           NEW g, \A x \in S \ {a} : f[x] = g[x]
    PROVE  Product(f, S) = f[a] * Product(g, S \ {a})
<1> DEFINE R == S \ {a}
<1>1. IsFiniteSet(R) /\ R \subseteq S /\ S \in SUBSET S /\ R \in SUBSET R
  BY FS_RemoveElement
<1>2. \A x \in R : g[x] = f[x]
  OBVIOUS
<1>3. SetFold("product", f, S)[S] = f[a] * SetFold("product", f, S)[R]
  <2>1. SetFold("product", f, S)[S] = Op("product", f[a], SetFold("product", f, S)[R])
    BY <1>1, SetFoldAnyOrder
  <2> QED BY <2>1, Zenon DEF Op
<1> HIDE DEF R
<1>4. SetFold("product", g, R)[R] = SetFold("product", f, S)[R]
  BY <1>1, <1>2, SetFoldAnyDomain
<1> QED BY <1>3, <1>4, SetFoldDef, Zenon DEF R

(***************************************************************************)
(* A common factor of all summands.                                        *)
(***************************************************************************)
LEMMA SumScaled ==
    ASSUME NEW S, IsFiniteSet(S), NEW c \in Nat,
           NEW f \in [S -> Nat], NEW g \in [S -> Nat], \A x \in S : g[x] = c * f[x]
    PROVE  SumFunctionOnSet(g, S) = c * SumFunctionOnSet(f, S)
<1>0. PICK k : k = "sum"
  OBVIOUS
<1> DEFINE N == Cardinality(S)
           it == SetFold(k, f, S)
           other == SetFold(k, g, S)
           T == {n \in 0..N : \A r \in Small(S, n) : other[r] = c * it[r]}
<1>1. N \in Nat /\ Small(S, N) = SUBSET S /\ Small(S, 0) = {{}}
  BY SmallSets
<1>2. /\ \A r \in SUBSET S : it[r] = FoldStep(k, it, f, r)
      /\ \A r \in SUBSET S : other[r] = FoldStep(k, other, g, r)
  <2>1. \A e : \A r \in SUBSET S : SetFold(k, e, S)[r] = FoldStep(k, SetFold(k, e, S), e, r)
    BY SetFoldStep
  <2> QED BY <2>1
<1>3. \A r \in SUBSET S : it[r] \in Nat /\ other[r] \in Nat
  <2>1. \A r \in SUBSET S : it[r] \in Nat
    BY SetFoldNat, Zenon
  <2>2. \A r \in SUBSET S : other[r] \in Nat
    BY SetFoldNat, Zenon
  <2> QED BY <2>1, <2>2
<1>4. SumFunctionOnSet(f, S) = it[S] /\ SumFunctionOnSet(g, S) = other[S]
  BY <1>0, SetFoldDef
<1> HIDE DEF it, other
<1>5. 0 \in T
  <2>1. it[{}] = FoldStep(k, it, f, {}) /\ other[{}] = FoldStep(k, other, g, {})
    BY <1>2
  <2>2. it[{}] = 0 /\ other[{}] = 0
    BY <1>0, <2>1 DEF FoldStep, Unit
  <2>3. c * 0 = 0
    OBVIOUS
  <2>4. \A r \in Small(S, 0) : other[r] = c * it[r]
    BY <1>1, <2>2, <2>3
  <2>5. 0 \in 0..N
    BY <1>1
  <2> QED BY <2>4, <2>5
<1>6. ASSUME NEW n \in 0..(N - 1), n \in T PROVE n + 1 \in T
  <2>1. ASSUME NEW r \in Small(S, n + 1) PROVE other[r] = c * it[r]
    <3>1. r \in SUBSET S
      BY DEF Small
    <3>2. CASE r = {}
      <4>1. it[r] = 0 /\ other[r] = 0
        BY <1>0, <1>2, <3>1, <3>2 DEF FoldStep, Unit
      <4> QED BY <4>1
    <3>3. CASE r # {}
      <4> DEFINE x == Some(r)
                 rest == r \ {x}
      <4>1. x \in r /\ x \in S
        BY <3>1, <3>3 DEF Some
      <4>2. it[r] = f[x] + it[rest] /\ other[r] = g[x] + other[rest]
        BY <1>0, <1>2, <3>1, <3>3 DEF FoldStep, Op
      <4>3. rest \in Small(S, n) /\ rest \in SUBSET S
        BY <3>1, <4>1, SmallSets
      <4> HIDE DEF x, rest
      <4>4. other[rest] = c * it[rest] /\ g[x] = c * f[x]
        BY <1>6, <4>1, <4>3
      <4>5. f[x] \in Nat /\ it[rest] \in Nat
        BY <1>3, <4>1, <4>3
      <4>6. c * f[x] + c * it[rest] = c * (f[x] + it[rest])
        BY <4>5
      <4> QED BY <4>2, <4>4, <4>6
    <3> QED BY <3>2, <3>3
  <2>2. n + 1 \in 0..N
    BY <1>1
  <2> QED BY <2>1, <2>2
<1>7. 0..N \subseteq T
  <2> HIDE DEF T, N
  <2> QED BY <1>1, <1>5, <1>6, UpTo
<1>8. N \in T
  BY <1>1, <1>7
<1> QED
  BY <1>1, <1>4, <1>8

-----------------------------------------------------------------------------
(***************************************************************************)
(* Amounts of assets, h[a] units of each asset a worth num[a] / den[a]     *)
(* apiece, valued in units of 1 / Product(den, A).                         *)
(***************************************************************************)
UnitValue(num, den, A, a) == num[a] * (Product(den, A) \div den[a])

ValueHeld(h, num, den, A) ==
    SumFunctionOnSet([a \in A |-> h[a] * num[a] * (Product(den, A) \div den[a])], A)

(***************************************************************************)
(* n units at the common denominator D against x of a unit of num / den,   *)
(* which is w at that denominator.                                         *)
(***************************************************************************)
LEMMA CrossMultiply ==
    ASSUME NEW n \in Nat, NEW x \in Nat, NEW num \in Nat, NEW den \in Nat \ {0},
           NEW D \in Nat, NEW w \in Nat, w * den = num * D
    PROVE  /\ n * den <= x * num => n * D <= x * w
           /\ x * num <= n * den => x * w <= n * D
<1>1. (n * D) * den = (n * den) * D /\ (x * w) * den = (x * num) * D
  <2>1. (n * D) * den = (n * den) * D
    BY SMT
  <2>2. (x * w) * den = x * (w * den)
    BY SMT
  <2>3. x * (num * D) = (x * num) * D
    BY SMT
  <2> QED BY <2>1, <2>2, <2>3
<1>2. \A a, b, c \in Nat : a <= b => a * c <= b * c
  BY SMT
<1>3. \A a, b \in Nat : a * den <= b * den => a <= b
  BY SMT
<1>4. /\ n * den \in Nat /\ x * num \in Nat /\ n * D \in Nat /\ x * w \in Nat
  BY SMT
<1>5. ASSUME n * den <= x * num PROVE n * D <= x * w
  <2>1. (n * den) * D <= (x * num) * D
    BY <1>2, <1>4, <1>5
  <2> QED BY <1>1, <1>3, <1>4, <2>1
<1>6. ASSUME x * num <= n * den PROVE x * w <= n * D
  <2>1. (x * num) * D <= (n * den) * D
    BY <1>2, <1>4, <1>6
  <2> QED BY <1>1, <1>3, <1>4, <2>1
<1> QED BY <1>5, <1>6

Ratios(num, den, A) ==
    IsFiniteSet(A) /\ num \in [A -> Nat] /\ den \in [A -> Nat \ {0}]

UnitFacts(num, den, A, a) ==
    /\ UnitValue(num, den, A, a) \in Nat
    /\ UnitValue(num, den, A, a) * den[a] = num[a] * Product(den, A)
    /\ Product(den, A) \in Nat \ {0}
    /\ \A n \in Nat : n * num[a] * (Product(den, A) \div den[a])
                         = n * UnitValue(num, den, A, a)

LEMMA UnitValues ==
    ASSUME NEW A, NEW num, NEW den, Ratios(num, den, A), NEW a \in A
    PROVE  UnitFacts(num, den, A, a)
<1>0. IsFiniteSet(A) /\ num \in [A -> Nat] /\ den \in [A -> Nat \ {0}]
  BY DEF Ratios
<1> DEFINE R == A \ {a}
           rest == [b \in R |-> den[b]]
           P == Product(rest, R)
           D == Product(den, A)
<1>1. D \in Nat \ {0}
  BY <1>0, ProductType
<1>2. P \in Nat \ {0}
  <2>1. IsFiniteSet(R) /\ rest \in [R -> Nat \ {0}]
    BY <1>0, FS_RemoveElement
  <2> QED BY <2>1, ProductType
<1>3. D = den[a] * P
  <2>1. \A x \in A \ {a} : den[x] = rest[x]
    OBVIOUS
  <2>2. den \in [A -> Nat]
    BY <1>0
  <2> HIDE DEF rest
  <2> QED BY <1>0, <2>1, <2>2, ProductTakesOne
<1>4. den[a] \in Nat \ {0} /\ num[a] \in Nat
  BY <1>0
<1> HIDE DEF P, D
<1>5. D \div den[a] = P
  <2>1. \A d, p \in Nat \ {0} : (d * p) \div d = p
    BY SMT
  <2> QED BY <1>2, <1>3, <1>4, <2>1
<1>6. UnitValue(num, den, A, a) = num[a] * P
  BY <1>5 DEF UnitValue, D
<1>7. /\ num[a] * P \in Nat /\ (num[a] * P) * den[a] = num[a] * D
      /\ \A n \in Nat : n * num[a] * P = n * (num[a] * P)
  BY <1>2, <1>3, <1>4
<1> QED BY <1>1, <1>5, <1>6, <1>7 DEF UnitFacts, D

HeldFacts(h, num, den, A) ==
    /\ ValueHeld(h, num, den, A) \in Nat
    /\ ValueHeld(h, num, den, A)
          = SumFunctionOnSet([b \in A |-> h[b] * UnitValue(num, den, A, b)], A)
    /\ \A b \in A : h[b] * UnitValue(num, den, A, b) \in Nat

LEMMA ValueHeldType ==
    ASSUME NEW A, NEW num, NEW den, Ratios(num, den, A), NEW h, h \in [A -> Nat]
    PROVE  HeldFacts(h, num, den, A)
<1> DEFINE D == Product(den, A)
           f == [b \in A |-> h[b] * num[b] * (D \div den[b])]
<1>1. \A b \in A : /\ h[b] * UnitValue(num, den, A, b) \in Nat
                   /\ h[b] * num[b] * (D \div den[b]) = h[b] * UnitValue(num, den, A, b)
  <2> TAKE b \in A
  <2>1. UnitFacts(num, den, A, b)
    BY UnitValues
  <2> QED BY <2>1 DEF UnitFacts
<1>2. f = [b \in A |-> h[b] * UnitValue(num, den, A, b)] /\ f \in [A -> Nat]
  BY <1>1
<1> HIDE DEF f
<1>3. SumFunctionOnSet(f, A) \in Nat
  BY <1>2, SumType DEF Ratios
<1>4. ValueHeld(h, num, den, A) = SumFunctionOnSet(f, A)
  BY Zenon DEF ValueHeld, f
<1> QED BY <1>1, <1>2, <1>3, <1>4 DEF HeldFacts

LEMMA OneHoldingGrows ==
    ASSUME NEW A, NEW num, NEW den, Ratios(num, den, A),
           NEW h \in [A -> Nat], NEW k \in [A -> Nat], NEW a \in A, NEW x \in Nat,
           k[a] = h[a] + x, \A b \in A : b # a => k[b] = h[b]
    PROVE  ValueHeld(k, num, den, A)
             = ValueHeld(h, num, den, A) + x * UnitValue(num, den, A, a)
<1> DEFINE w(b) == UnitValue(num, den, A, b)
           f == [b \in A |-> h[b] * w(b)]
           g == [b \in A |-> k[b] * w(b)]
<1>1. /\ ValueHeld(h, num, den, A) = SumFunctionOnSet(f, A)
      /\ ValueHeld(k, num, den, A) = SumFunctionOnSet(g, A)
      /\ \A b \in A : h[b] * w(b) \in Nat /\ k[b] * w(b) \in Nat
  <2>1. HeldFacts(h, num, den, A) /\ HeldFacts(k, num, den, A)
    BY ValueHeldType
  <2> QED BY <2>1 DEF HeldFacts
<1>2. f \in [A -> Nat] /\ g \in [A -> Nat]
  BY <1>1
<1>3. w(a) \in Nat
  <2>1. UnitFacts(num, den, A, a)
    BY UnitValues
  <2> QED BY <2>1 DEF UnitFacts
<1>4. g[a] = f[a] + x * w(a) /\ x * w(a) \in Nat
  <2> HIDE DEF w
  <2>1. (h[a] + x) * w(a) = h[a] * w(a) + x * w(a) /\ x * w(a) \in Nat
    BY <1>3
  <2> QED BY <2>1
<1>5. \A b \in A : b # a => g[b] = f[b]
  OBVIOUS
<1> DEFINE n == x * w(a)
<1> HIDE DEF f, g, n
<1>6. SumFunctionOnSet(g, A) = SumFunctionOnSet(f, A) + n
  BY <1>2, <1>4, <1>5, SumGrows DEF n, Ratios
<1> QED BY <1>1, <1>6 DEF n

(***************************************************************************)
(* One asset more: the denominator is scaled by its own, and so is the     *)
(* value of all others.                                                    *)
(***************************************************************************)
LEMMA OneAssetMore ==
    ASSUME NEW A, NEW a, a \notin A,
           NEW num, NEW den, Ratios(num, den, A), NEW h \in [A -> Nat],
           NEW num2, NEW den2, Ratios(num2, den2, A \cup {a}),
           NEW h2 \in [A \cup {a} -> Nat],
           \A b \in A : num2[b] = num[b] /\ den2[b] = den[b] /\ h2[b] = h[b]
    PROVE  /\ Product(den2, A \cup {a}) = den2[a] * Product(den, A)
           /\ ValueHeld(h2, num2, den2, A \cup {a}) >= den2[a] * ValueHeld(h, num, den, A)
<1> DEFINE B == A \cup {a}
           c == den2[a]
           v(b) == h[b] * UnitValue(num, den, A, b)
           u(b) == h2[b] * UnitValue(num2, den2, B, b)
           f == [b \in A |-> v(b)]
           g == [b \in B |-> u(b)]
           r == [b \in A |-> u(b)]
<1>0. /\ IsFiniteSet(A) /\ num \in [A -> Nat] /\ den \in [A -> Nat \ {0}]
      /\ num2 \in [B -> Nat] /\ den2 \in [B -> Nat \ {0}]
  BY DEF Ratios
<1>1. IsFiniteSet(B) /\ a \in B /\ B \ {a} = A
  BY DEF Ratios
<1>2. Product(den2, B) = c * Product(den, A)
  <2>1. den2 \in [B -> Nat] /\ \A x \in B \ {a} : den2[x] = den[x]
    BY <1>0, <1>1
  <2>2. Product(den2, B) = den2[a] * Product(den, B \ {a})
    <3> HIDE DEF B
    <3> QED BY <1>1, <2>1, ProductTakesOne
  <2> QED BY <1>1, <2>2
<1>3. /\ ValueHeld(h, num, den, A) = SumFunctionOnSet(f, A)
      /\ ValueHeld(h2, num2, den2, B) = SumFunctionOnSet(g, B)
      /\ \A b \in A : v(b) \in Nat
      /\ \A b \in B : u(b) \in Nat
  <2>1. HeldFacts(h, num, den, A) /\ HeldFacts(h2, num2, den2, B)
    BY ValueHeldType
  <2> QED BY <2>1 DEF HeldFacts
<1>4. c \in Nat \ {0}
  BY <1>0, <1>1
<1>5. \A b \in A : u(b) = c * v(b)
  <2> TAKE b \in A
  <2> DEFINE w == UnitValue(num, den, A, b)
             w2 == UnitValue(num2, den2, B, b)
             D == Product(den, A)
             d == den[b]
  <2>1. w \in Nat /\ w * d = num[b] * D /\ D \in Nat \ {0}
    <3>1. UnitFacts(num, den, A, b)
      BY UnitValues
    <3> QED BY <3>1 DEF UnitFacts
  <2>2. w2 \in Nat /\ w2 * d = num[b] * (c * D)
    <3>1. w2 \in Nat /\ w2 * den2[b] = num2[b] * Product(den2, B)
      <4>1. UnitFacts(num2, den2, B, b)
        BY UnitValues
      <4> QED BY <4>1 DEF UnitFacts
    <3> QED BY <1>2, <3>1
  <2>3. d \in Nat \ {0} /\ num[b] \in Nat /\ h[b] \in Nat
    BY <1>0
  <2> HIDE DEF w, w2, D, d, c
  <2>4. w2 * d = (c * w) * d
    <3>1. num[b] * (c * D) = c * (num[b] * D)
      BY <1>4, <2>1, <2>3
    <3>2. c * (w * d) = (c * w) * d
      BY <1>4, <2>1, <2>3
    <3> QED BY <2>1, <2>2, <3>1, <3>2
  <2>5. w2 = c * w
    <3>1. \A x, y \in Nat : x * d = y * d => x = y
      BY <2>3, SMT
    <3>2. c * w \in Nat
      BY <1>4, <2>1
    <3> QED BY <2>2, <2>4, <3>1, <3>2
  <2>6. h[b] * (c * w) = c * (h[b] * w)
    BY <1>4, <2>1, <2>3
  <2> QED BY <2>5, <2>6 DEF w, w2
<1>6. /\ f \in [A -> Nat] /\ r \in [A -> Nat] /\ g \in [B -> Nat]
      /\ \A b \in A : r[b] = c * f[b]
      /\ \A b \in A : r[b] = g[b]
  BY <1>3, <1>5
<1> HIDE DEF f, g, r, c, B
<1>7. SumFunctionOnSet(r, A) = c * SumFunctionOnSet(f, A)
  BY <1>0, <1>4, <1>6, SumScaled
<1>8. SumFunctionOnSet(g, B) = SumFunctionOnSet(r, A) + g[a] /\ g[a] \in Nat
  <2>1. g[a] \in Nat /\ g \in [A \cup {a} -> Nat]
    BY <1>1, <1>6 DEF B
  <2>2. SumFunctionOnSet(g, A \cup {a}) = SumFunctionOnSet(r, A) + g[a]
    BY ONLY <1>0, <1>6, <2>1, a \notin A, SumPlusOne, ZenonT(60)
  <2> QED BY <2>1, <2>2 DEF B
<1>9. SumFunctionOnSet(r, A) \in Nat
  BY <1>0, <1>6, SumType
<1>10. SumFunctionOnSet(g, B) >= c * SumFunctionOnSet(f, A)
  BY <1>7, <1>8, <1>9
<1> QED BY <1>2, <1>3, <1>10 DEF c, B
=============================================================================
