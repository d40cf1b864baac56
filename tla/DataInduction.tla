---------------------------- MODULE DataInduction ----------------------------
(***************************************************************************)
(* Induction over natural numbers, stated for sets and functions rather    *)
(* than for operators, and what follows for a function that is defined by  *)
(* recursion over an interval, as the sums and the big-endian numbers of   *)
(* the specifications are.                                                 *)
(***************************************************************************)
EXTENDS Integers, FiniteSets, FiniteSetTheorems, WellFoundedInduction, TLAPS

(* A set of natural numbers that is not empty has a least element. *)
LEMMA LeastNumber ==
  ASSUME NEW T \in SUBSET Nat, T # {}
  PROVE  \E n \in T : \A m \in T : n <= m
  <1>1. PICK n \in T : \A m \in T : <<m, n>> \notin OpToRel(<, Nat)
    BY NatLessThanWellFounded, WFMin
  <1>2. \A m \in T : ~(m < n)
    BY <1>1 DEF OpToRel
  <1> QED
    BY <1>2

(* A set that holds 0, and with i also i + 1, holds every number up to n. *)
LEMMA UpTo ==
  ASSUME NEW n \in Nat, NEW T, 0 \in T, \A i \in 0 .. n - 1 : i \in T => i + 1 \in T
  PROVE  \A i \in 0 .. n : i \in T
  <1> DEFINE Out == {i \in 0 .. n : i \notin T}
  <1>1. SUFFICES ASSUME Out # {} PROVE FALSE
    OBVIOUS
  <1>2. PICK i \in Out : \A j \in Out : i <= j
    <2>1. Out \in SUBSET Nat
      OBVIOUS
    <2> HIDE DEF Out
    <2> QED
      BY <1>1, <2>1, LeastNumber
  <1>3. i # 0 /\ i \in 1 .. n
    BY <1>2
  <1>4. i - 1 \in T
    BY <1>2, <1>3
  <1>5. i - 1 \in 0 .. n - 1 /\ (i - 1) + 1 = i
    BY <1>3
  <1> QED
    BY <1>2, <1>4, <1>5

(* g starts with base, and its value at i is made by step[i] of the one before. *)
Follows(g, n, base, step) == g[0] = base /\ \A i \in 1 .. n : g[i] = step[i][g[i - 1]]

(* Such a function exists, for every n. *)
LEMMA RecursionExists ==
  ASSUME NEW n \in Nat, NEW V, NEW base \in V, NEW step \in [1 .. n -> [V -> V]]
  PROVE  \E g \in [0 .. n -> V] : Follows(g, n, base, step)
  <1> DEFINE Good(g, k) == \A i \in 0 .. k : g[i] = IF i = 0 THEN base ELSE step[i][g[i - 1]]
             T == {k \in 0 .. n : \E g \in [0 .. k -> V] : Good(g, k)}
  <1>1. 0 \in T
    <2> DEFINE g == [i \in 0 .. 0 |-> base]
    <2>1. g \in [0 .. 0 -> V] /\ Good(g, 0)
      OBVIOUS
    <2> HIDE DEF g, Good
    <2> QED
      BY <2>1
  <1>2. ASSUME NEW k \in 0 .. n - 1, k \in T
        PROVE  k + 1 \in T
    <2>1. PICK g \in [0 .. k -> V] : Good(g, k)
      BY <1>2
    <2> DEFINE h == [i \in 0 .. k + 1 |-> IF i = k + 1 THEN step[k + 1][g[k]] ELSE g[i]]
    <2>2. h \in [0 .. k + 1 -> V]
      <3>1. g[k] \in V /\ step[k + 1] \in [V -> V]
        OBVIOUS
      <3> QED
        BY <3>1
    <2>3. ASSUME NEW i \in 0 .. k + 1
          PROVE  h[i] = IF i = 0 THEN base ELSE step[i][h[i - 1]]
      <3>1. CASE i = k + 1
        BY <3>1
      <3>2. CASE i # k + 1
        <4>1. i \in 0 .. k /\ h[i] = g[i] /\ (i # 0 => h[i - 1] = g[i - 1])
          BY <3>2
        <4> QED
          BY <2>1, <4>1
      <3> QED
        BY <3>1, <3>2
    <2>4. Good(h, k + 1)
      BY <2>3
    <2>5. k + 1 \in 0 .. n
      OBVIOUS
    <2> HIDE DEF h, Good
    <2> QED
      BY <2>2, <2>4, <2>5
  <1>3. \A k \in 0 .. n - 1 : k \in T => k + 1 \in T
    BY <1>2
  <1> HIDE DEF T
  <1>4. n \in T
    <2>1. \A i \in 0 .. n : i \in T
      BY <1>1, <1>3, UpTo, Zenon
    <2> QED
      BY <2>1
  <1>5. PICK g \in [0 .. n -> V] : Good(g, n)
    BY <1>4 DEF T
  <1>6. Follows(g, n, base, step)
    BY <1>5 DEF Follows
  <1> QED
    BY <1>6

-----------------------------------------------------------------------------
(* Sums over finite sets, as MapThenSumSet takes them *)

(* The element a sum takes from a set first, and what it makes of the rest. *)
First(s) == CHOOSE x \in s : TRUE

SumStep(g, F, s) == IF s = {} THEN 0 ELSE F[First(s)] + g[s \ {First(s)}]

(* g gives every subset of S the sum of F over it.                          *)
IsSetSum(g, F, S) == \A s \in SUBSET S : g[s] = SumStep(g, F, s)

(* What is left of a finite set without one of its elements. *)
LEMMA Smaller ==
  ASSUME NEW S, IsFiniteSet(S), NEW s \in SUBSET S, NEW x \in s
  PROVE  /\ Cardinality(s) \in Nat
         /\ s \ {x} \in SUBSET S
         /\ Cardinality(s \ {x}) = Cardinality(s) - 1
  BY FS_Subset, FS_RemoveElement, FS_CardinalityType

(* The sums over the subsets of a finite set exist. *)
LEMMA SetSumExists ==
  ASSUME NEW S, IsFiniteSet(S), NEW F, \A x \in S : F[x] \in Nat
  PROVE  \E g \in [SUBSET S -> Nat] : IsSetSum(g, F, S)
  <1> DEFINE n == Cardinality(S)
             Good(g, k) == \A s \in SUBSET S : Cardinality(s) <= k => g[s] = SumStep(g, F, s)
             T == {k \in 0 .. n : \E g \in [SUBSET S -> Nat] : Good(g, k)}
  <1>1. n \in Nat
    BY FS_CardinalityType
  <1>2. \A s \in SUBSET S : IsFiniteSet(s) /\ Cardinality(s) \in Nat /\ Cardinality(s) <= n
    BY FS_Subset, FS_CardinalityType
  <1>3. ASSUME NEW s \in SUBSET S, s # {}
        PROVE  First(s) \in s
    BY <1>3 DEF First
  <1>4. 0 \in T
    <2> DEFINE g == [s \in SUBSET S |-> 0]
    <2>1. g \in [SUBSET S -> Nat]
      OBVIOUS
    <2>2. Good(g, 0)
      <3>1. SUFFICES ASSUME NEW s \in SUBSET S, Cardinality(s) <= 0
                     PROVE  g[s] = SumStep(g, F, s)
        OBVIOUS
      <3>2. Cardinality(s) = 0
        BY <1>2, <3>1
      <3>3. s = {}
        BY <1>2, <3>2, FS_EmptySet
      <3> QED
        BY <3>3 DEF SumStep
    <2> HIDE DEF g, Good
    <2> QED
      BY <1>1, <2>1, <2>2
  <1>5. ASSUME NEW k \in 0 .. n - 1, k \in T
        PROVE  k + 1 \in T
    <2>1. PICK g \in [SUBSET S -> Nat] : Good(g, k)
      BY <1>5
    <2> DEFINE h == [s \in SUBSET S |-> IF Cardinality(s) = k + 1 THEN SumStep(g, F, s) ELSE g[s]]
    <2>2. ASSUME NEW s \in SUBSET S, s # {}
          PROVE  /\ F[First(s)] \in Nat
                 /\ s \ {First(s)} \in SUBSET S
                 /\ g[s \ {First(s)}] \in Nat
                 /\ Cardinality(s \ {First(s)}) = Cardinality(s) - 1
      BY <1>3, <2>2, Smaller
    <2>3. ASSUME NEW s \in SUBSET S PROVE SumStep(g, F, s) \in Nat
      <3>1. CASE s = {}
        BY <3>1 DEF SumStep
      <3>2. CASE s # {}
        <4>1. F[First(s)] \in Nat /\ g[s \ {First(s)}] \in Nat
          BY <2>2, <3>2
        <4>2. F[First(s)] + g[s \ {First(s)}] \in Nat
          BY <4>1
        <4> QED
          BY <3>2, <4>2 DEF SumStep
      <3> QED
        BY <3>1, <3>2
    <2>4. h \in [SUBSET S -> Nat]
      BY <2>3
    <2>5. ASSUME NEW s \in SUBSET S, Cardinality(s) <= k + 1
          PROVE  h[s] = SumStep(h, F, s)
      <3>1. SumStep(h, F, s) = SumStep(g, F, s)
        <4>1. CASE s = {}
          BY <4>1 DEF SumStep
        <4>2. CASE s # {}
          <5>1. Cardinality(s \ {First(s)}) # k + 1 /\ s \ {First(s)} \in SUBSET S
            BY <1>2, <2>2, <2>5, <4>2
          <5>2. h[s \ {First(s)}] = g[s \ {First(s)}]
            BY <5>1
          <5> QED
            BY <4>2, <5>2 DEF SumStep
        <4> QED
          BY <4>1, <4>2
      <3>2. CASE Cardinality(s) = k + 1
        BY <3>1, <3>2
      <3>3. CASE Cardinality(s) # k + 1
        <4>1. Cardinality(s) <= k
          BY <1>2, <2>5, <3>3
        <4>2. g[s] = SumStep(g, F, s)
          BY <2>1, <4>1
        <4> QED
          BY <3>1, <3>3, <4>2
      <3> QED
        BY <3>2, <3>3
    <2>6. Good(h, k + 1)
      BY <2>5
    <2>7. k + 1 \in 0 .. n
      BY <1>1
    <2> HIDE DEF h, Good
    <2> QED
      BY <2>4, <2>6, <2>7
  <1>6. \A k \in 0 .. n - 1 : k \in T => k + 1 \in T
    BY <1>5
  <1>7. n \in T
    <2> HIDE DEF T, n
    <2>1. \A k \in 0 .. n : k \in T
      BY <1>1, <1>4, <1>6, UpTo, Zenon
    <2> QED
      BY <1>1, <2>1
  <1>8. PICK g \in [SUBSET S -> Nat] : Good(g, n)
    BY <1>7
  <1>9. IsSetSum(g, F, S)
    BY <1>2, <1>8 DEF IsSetSum
  <1> QED
    BY <1>9

(* Whichever element is taken first, the sum is the same. *)
LEMMA SetSumTake ==
  ASSUME NEW S, IsFiniteSet(S), NEW F, \A x \in S : F[x] \in Nat,
         NEW g, IsSetSum(g, F, S)
  PROVE  /\ g[{}] = 0
         /\ \A s \in SUBSET S : g[s] \in Nat /\ \A x \in s : g[s] = F[x] + g[s \ {x}]
  <1> DEFINE n == Cardinality(S)
             Good(s) == g[s] \in Nat /\ \A x \in s : g[s] = F[x] + g[s \ {x}]
             T == {k \in 0 .. n : \A s \in SUBSET S : Cardinality(s) <= k => Good(s)}
  <1>1. n \in Nat
    BY FS_CardinalityType
  <1>2. \A s \in SUBSET S : IsFiniteSet(s) /\ Cardinality(s) \in Nat /\ Cardinality(s) <= n
    BY FS_Subset, FS_CardinalityType
  <1>3. g[{}] = 0
    BY DEF IsSetSum, SumStep
  <1>4. 0 \in T
    <2>1. ASSUME NEW s \in SUBSET S, Cardinality(s) <= 0
          PROVE  Good(s)
      <3>1. Cardinality(s) = 0
        BY <1>2, <2>1
      <3>2. s = {}
        BY <1>2, <3>1, FS_EmptySet
      <3> QED
        BY <1>3, <3>2
    <2> HIDE DEF Good
    <2> QED
      BY <1>1, <2>1
  <1>5. ASSUME NEW k \in 0 .. n - 1, k \in T
        PROVE  k + 1 \in T
    <2>1. \A s \in SUBSET S : Cardinality(s) <= k => Good(s)
      BY <1>5
    <2>2. ASSUME NEW s \in SUBSET S, Cardinality(s) <= k + 1, s # {}
          PROVE  Good(s)
      <3> DEFINE p == First(s)
      <3>1. p \in s
        BY <2>2 DEF First
      <3>2. g[s] = F[p] + g[s \ {p}]
        BY <2>2 DEF IsSetSum, SumStep
      <3> HIDE DEF p
      <3>3. \A x \in s : s \ {x} \in SUBSET S /\ Cardinality(s \ {x}) <= k
        BY <1>2, <2>2, Smaller
      <3>4. \A x \in s : Good(s \ {x}) /\ F[x] \in Nat
        BY <2>1, <3>3
      <3>5. g[s] \in Nat
        <4>1. g[s \ {p}] \in Nat /\ F[p] \in Nat
          BY <3>1, <3>4
        <4> QED
          BY <3>2, <4>1
      <3>6. ASSUME NEW x \in s, x # p
            PROVE  g[s] = F[x] + g[s \ {x}]
        <4>1. x \in s \ {p} /\ p \in s \ {x} /\ (s \ {p}) \ {x} = (s \ {x}) \ {p}
          BY <3>1, <3>6
        <4>2. g[s \ {p}] = F[x] + g[(s \ {p}) \ {x}] /\ g[s \ {x}] = F[p] + g[(s \ {x}) \ {p}]
          BY <3>1, <3>4, <4>1
        <4>3. g[(s \ {x}) \ {p}] \in Nat
          <5>1. (s \ {x}) \ {p} \in SUBSET S /\ Cardinality((s \ {x}) \ {p}) <= k
            <6>1. s \ {x} \in SUBSET S /\ Cardinality(s \ {x}) <= k /\ Cardinality(s \ {x}) \in Nat
              BY <1>2, <3>3
            <6>2. /\ (s \ {x}) \ {p} \in SUBSET S
                  /\ Cardinality((s \ {x}) \ {p}) = Cardinality(s \ {x}) - 1
              BY <4>1, <6>1, Smaller
            <6> QED
              BY <1>5, <6>1, <6>2
          <5> QED
            BY <2>1, <5>1
        <4>4. F[x] \in Nat /\ F[p] \in Nat
          BY <3>1, <3>4
        <4> DEFINE rest == g[(s \ {x}) \ {p}]
        <4>5. g[s \ {p}] = F[x] + rest /\ g[s \ {x}] = F[p] + rest /\ rest \in Nat
          BY <4>1, <4>2, <4>3
        <4> HIDE DEF rest
        <4>6. F[p] + (F[x] + rest) = F[x] + (F[p] + rest)
          BY <4>4, <4>5
        <4> QED
          BY <3>2, <4>5, <4>6
      <3> QED
        BY <3>2, <3>5, <3>6
    <2>3. Good({})
      BY <1>3
    <2>4. k + 1 \in 0 .. n
      BY <1>1
    <2> HIDE DEF Good
    <2>5. \A s \in SUBSET S : Cardinality(s) <= k + 1 => Good(s)
      BY <2>2, <2>3
    <2> QED
      BY <2>4, <2>5
  <1>6. \A k \in 0 .. n - 1 : k \in T => k + 1 \in T
    BY <1>5
  <1>7. n \in T
    <2> HIDE DEF T, n
    <2>1. \A k \in 0 .. n : k \in T
      BY <1>1, <1>4, <1>6, UpTo, Zenon
    <2> QED
      BY <1>1, <2>1
  <1>8. \A s \in SUBSET S : Good(s)
    BY <1>2, <1>7
  <1> QED
    BY <1>3, <1>8

-----------------------------------------------------------------------------
(* Extremes of finite sets *)

(* A sum is no less than any of its terms. *)
LEMMA SetSumBounds ==
  ASSUME NEW S, IsFiniteSet(S), NEW F, \A x \in S : F[x] \in Nat,
         NEW g, IsSetSum(g, F, S), NEW x \in S
  PROVE  F[x] <= g[S]
  <1>1. \A s \in SUBSET S : g[s] \in Nat /\ \A y \in s : g[s] = F[y] + g[s \ {y}]
    BY SetSumTake
  <1>2. S \in SUBSET S /\ S \ {x} \in SUBSET S
    OBVIOUS
  <1>3. g[S] = F[x] + g[S \ {x}] /\ g[S \ {x}] \in Nat
    BY <1>1, <1>2
  <1> QED
    BY <1>3

(* A finite set of natural numbers that is not empty has a greatest element. *)
LEMMA GreatestNumber ==
  ASSUME NEW S \in SUBSET Nat, IsFiniteSet(S), S # {}
  PROVE  \E n \in S : \A m \in S : n >= m
  <1> DEFINE F == [x \in S |-> x]
             Bounds == {n \in Nat : \A m \in S : m <= n}
  <1>1. \A x \in S : F[x] \in Nat
    OBVIOUS
  <1>2. PICK g \in [SUBSET S -> Nat] : IsSetSum(g, F, S)
    <2> HIDE DEF F
    <2> QED
      BY <1>1, SetSumExists
  <1>3. ASSUME NEW m \in S PROVE m <= g[S]
    <2>1. F[m] <= g[S]
      <3> HIDE DEF F
      <3> QED
        BY <1>1, <1>2, SetSumBounds
    <2> QED
      BY <2>1
  <1>4. Bounds # {} /\ Bounds \in SUBSET Nat
    <2>1. g[S] \in Nat
      OBVIOUS
    <2> QED
      BY <1>3, <2>1
  <1>5. PICK n \in Bounds : \A k \in Bounds : n <= k
    <2> HIDE DEF Bounds
    <2> QED
      BY <1>4, LeastNumber
  <1>6. n \in S
    <2>1. SUFFICES ASSUME n \notin S PROVE FALSE
      OBVIOUS
    <2>2. PICK x \in S : TRUE
      OBVIOUS
    <2>3. \A m \in S : m <= n - 1
      BY <1>5, <2>1
    <2>4. n - 1 \in Bounds
      BY <1>5, <2>2, <2>3
    <2> QED
      BY <1>5, <2>4
  <1> QED
    BY <1>5, <1>6

-----------------------------------------------------------------------------
(* Numbers written with the most significant digit first *)

(* v[i] is the number that the first i digits of d make.                    *)
IsNumber(v, n, base, d) ==
  /\ v \in [0 .. n -> Nat]
  /\ v[0] = 0
  /\ \A i \in 1 .. n : v[i] = v[i - 1] * base + d[i]

(* The first k digits agree; a is smaller at the first where they differ.   *)
SameUpTo(a, b, k) == \A j \in 1 .. k : a[j] = b[j]
LessWithin(a, b, k) == \E m \in 1 .. k : a[m] < b[m] /\ SameUpTo(a, b, m - 1)

(* A smaller number stays smaller, whatever digits follow. *)
LEMMA DigitsFollow ==
  ASSUME NEW base \in Nat, NEW v \in Nat, NEW w \in Nat, v < w,
         NEW x \in 0 .. base - 1, NEW y \in Nat
  PROVE  v * base + x < w * base + y
  <1> DEFINE more == w - v - 1
  <1>1. more \in Nat /\ w = (v + 1) + more
    OBVIOUS
  <1> HIDE DEF more
  <1>2. w * base = v * base + base + more * base
    BY <1>1
  <1>3. more * base \in Nat /\ v * base \in Nat
    BY <1>1
  <1> QED
    BY <1>2, <1>3

(* Two numbers' digits cannot be ordered in two ways. *)
LEMMA OrderedOnce ==
  ASSUME NEW n \in Nat, NEW a, NEW b,
         \A i \in 1 .. n : a[i] \in Nat /\ b[i] \in Nat, LessWithin(b, a, n)
  PROVE  ~SameUpTo(a, b, n) /\ ~LessWithin(a, b, n)
  <1>1. PICK m \in 1 .. n : b[m] < a[m] /\ SameUpTo(b, a, m - 1)
    BY DEF LessWithin
  <1>2. ~SameUpTo(a, b, n)
    BY <1>1 DEF SameUpTo
  <1>3. ASSUME NEW k \in 1 .. n, a[k] < b[k], SameUpTo(a, b, k - 1) PROVE FALSE
    <2>1. CASE k < m
      BY <1>1, <1>3, <2>1 DEF SameUpTo
    <2>2. CASE m < k
      BY <1>1, <1>3, <2>2 DEF SameUpTo
    <2>3. CASE k = m
      BY <1>1, <1>3, <2>3
    <2> QED
      BY <2>1, <2>2, <2>3
  <1> QED
    BY <1>2, <1>3 DEF LessWithin

(* Such numbers compare digit by digit. *)
LEMMA DigitsOrder ==
  ASSUME NEW n \in Nat, NEW base \in Nat, NEW a, NEW b,
         \A i \in 1 .. n : a[i] \in 0 .. base - 1 /\ b[i] \in 0 .. base - 1,
         NEW v, IsNumber(v, n, base, a), NEW w, IsNumber(w, n, base, b)
  PROVE  v[n] <= w[n] <=> SameUpTo(a, b, n) \/ LessWithin(a, b, n)
  <1> DEFINE Same(k) == SameUpTo(a, b, k) /\ v[k] = w[k]
             Less(k) == LessWithin(a, b, k) /\ v[k] < w[k]
             More(k) == LessWithin(b, a, k) /\ w[k] < v[k]
             T == {k \in 0 .. n : Same(k) \/ Less(k) \/ More(k)}
  <1>1. /\ v \in [0 .. n -> Nat] /\ v[0] = 0
        /\ \A i \in 1 .. n : v[i] = v[i - 1] * base + a[i]
        /\ w \in [0 .. n -> Nat] /\ w[0] = 0
        /\ \A i \in 1 .. n : w[i] = w[i - 1] * base + b[i]
    BY DEF IsNumber
  <1>2. 0 \in T
    <2>1. Same(0)
      BY <1>1 DEF SameUpTo
    <2> QED
      BY <2>1
  <1>3. ASSUME NEW k \in 0 .. n - 1, k \in T PROVE k + 1 \in T
    <2>1. k + 1 \in 1 .. n /\ k + 1 \in 0 .. n /\ k \in 0 .. n /\ k \in Nat
      OBVIOUS
    <2> DEFINE x == a[k + 1]
               y == b[k + 1]
    <2>2. v[k + 1] = v[k] * base + x /\ w[k + 1] = w[k] * base + y
      <3>1. (k + 1) - 1 = k
        OBVIOUS
      <3> QED
        BY <1>1, <2>1, <3>1
    <2>3. v[k] \in Nat /\ w[k] \in Nat /\ x \in 0 .. base - 1 /\ y \in 0 .. base - 1
      BY <1>1, <2>1
    <2>4. v[k] * base \in Nat
      BY <2>3
    <2>5. \A j \in 1 .. k + 1 : j \in 1 .. k \/ j = k + 1
      BY <2>1
    <2> HIDE DEF x, y
    <2>6. CASE Same(k)
      <3>1. w[k] * base = v[k] * base
        BY <2>6
      <3>2. CASE x = y
        <4>1. SameUpTo(a, b, k + 1)
          BY <2>5, <2>6, <3>2 DEF SameUpTo, x, y
        <4>2. v[k + 1] = w[k + 1]
          BY <2>2, <3>1, <3>2
        <4> QED
          BY <2>1, <4>1, <4>2
      <3>3. CASE x < y
        <4>1. LessWithin(a, b, k + 1)
          <5>1. k + 1 \in 1 .. k + 1 /\ (k + 1) - 1 = k
            BY <2>1
          <5> QED
            BY <2>6, <3>3, <5>1 DEF LessWithin, x, y
        <4>2. v[k + 1] < w[k + 1]
          BY <2>2, <2>3, <2>4, <3>1, <3>3
        <4> QED
          BY <2>1, <4>1, <4>2
      <3>4. CASE y < x
        <4>1. LessWithin(b, a, k + 1)
          <5>1. k + 1 \in 1 .. k + 1 /\ (k + 1) - 1 = k /\ SameUpTo(b, a, k)
            BY <2>1, <2>6 DEF SameUpTo
          <5> QED
            BY <3>4, <5>1 DEF LessWithin, x, y
        <4>2. w[k + 1] < v[k + 1]
          BY <2>2, <2>3, <2>4, <3>1, <3>4
        <4> QED
          BY <2>1, <4>1, <4>2
      <3> QED
        BY <2>3, <3>2, <3>3, <3>4
    <2>7. CASE Less(k)
      <3>1. LessWithin(a, b, k + 1)
        BY <2>1, <2>7 DEF LessWithin
      <3>2. v[k] * base + x < w[k] * base + y
        <4>1. y \in Nat /\ v[k] < w[k]
          BY <2>3, <2>7
        <4> QED
          BY <2>3, <4>1, DigitsFollow
      <3> QED
        BY <2>1, <2>2, <3>1, <3>2
    <2>8. CASE More(k)
      <3>1. LessWithin(b, a, k + 1)
        BY <2>1, <2>8 DEF LessWithin
      <3>2. w[k] * base + y < v[k] * base + x
        <4>1. x \in Nat /\ w[k] < v[k]
          BY <2>3, <2>8
        <4> QED
          BY <2>3, <4>1, DigitsFollow
      <3> QED
        BY <2>1, <2>2, <3>1, <3>2
    <2> QED
      BY <1>3, <2>6, <2>7, <2>8
  <1>4. \A k \in 0 .. n - 1 : k \in T => k + 1 \in T
    BY <1>3
  <1>5. n \in T
    <2> HIDE DEF T
    <2>1. \A k \in 0 .. n : k \in T
      BY <1>2, <1>4, UpTo, Zenon
    <2> QED
      BY <2>1
  <1>6. v[n] \in Nat /\ w[n] \in Nat
    BY <1>1
  <1>7. LessWithin(b, a, n) => ~SameUpTo(a, b, n) /\ ~LessWithin(a, b, n)
    <2>1. \A i \in 1 .. n : a[i] \in Nat /\ b[i] \in Nat
      OBVIOUS
    <2> QED
      BY <2>1, OrderedOnce
  <1> QED
    BY <1>5, <1>6, <1>7
=============================================================================
