--------------------------- MODULE OrderBookProofs ---------------------------
(***************************************************************************)
(* What holds of OrderBook after any sequence of messages, for every set   *)
(* of references, prices, locates and addresses, every integer width, and  *)
(* builds with and without asserts; and what check_rep says of any book.   *)
(***************************************************************************)
EXTENDS MCCheckRep, DataInduction, SequenceTheorems, TLAPS

-----------------------------------------------------------------------------
(* Containers *)

(* levels[price] = level adds or changes one entry of a map. *)
LEMMA PutFacts ==
  ASSUME NEW K, NEW V, NEW f, IsMapOf(f, K, V), NEW k \in K, NEW v \in V
  PROVE  /\ IsMapOf(MapPut(f, k, v), K, V)
         /\ DOMAIN MapPut(f, k, v) = DOMAIN f \cup {k}
         /\ MapPut(f, k, v)[k] = v
         /\ \A x \in DOMAIN f \ {k} : MapPut(f, k, v)[x] = f[x]
  BY DEF MapPut, IsMapOf

(* orders_.emplace adds an entry only where there is none. *)
LEMMA EmplaceFacts ==
  ASSUME NEW K, NEW V, NEW f, IsMapOf(f, K, V), NEW k \in K, NEW v \in V
  PROVE  /\ IsMapOf(Emplace(f, k, v), K, V)
         /\ DOMAIN Emplace(f, k, v) = DOMAIN f \cup {k}
         /\ \A x \in DOMAIN f : Emplace(f, k, v)[x] = f[x]
         /\ k \notin DOMAIN f => Emplace(f, k, v)[k] = v
  <1>1. CASE k \in DOMAIN f
    BY <1>1 DEF Emplace, IsMapOf
  <1>2. CASE k \notin DOMAIN f
    BY <1>2, PutFacts DEF Emplace
  <1> QED
    BY <1>1, <1>2

(* list::erase moves what followed the erased node up by one place. *)
LEMMA RemoveAtFacts ==
  ASSUME NEW S, NEW q \in Seq(S), NEW k \in 1 .. Len(q)
  PROVE  /\ RemoveAt(q, k) \in Seq(S)
         /\ Len(RemoveAt(q, k)) = Len(q) - 1
         /\ \A i \in 1 .. Len(q) - 1 : RemoveAt(q, k)[i] = IF i < k THEN q[i] ELSE q[i + 1]
  <1>1. \A i \in 1 .. Len(q) : q[i] \in S
    OBVIOUS
  <1> DEFINE front == SubSeq(q, 1, k - 1)
             back  == SubSeq(q, k + 1, Len(q))
  <1>2. /\ front \in Seq(S)
        /\ Len(front) = k - 1
        /\ \A i \in 1 .. k - 1 : front[i] = q[i]
    BY <1>1, SubSeqProperties
  <1>3. /\ back \in Seq(S)
        /\ Len(back) = Len(q) - k
        /\ \A i \in 1 .. Len(q) - k : back[i] = q[k + i]
    BY <1>1, SubSeqProperties
  <1> DEFINE joined == front \o back
  <1> HIDE DEF front, back
  <1>4. /\ joined \in Seq(S)
        /\ Len(joined) = Len(front) + Len(back)
        /\ \A i \in 1 .. Len(front) + Len(back) :
             joined[i] = IF i <= Len(front) THEN front[i] ELSE back[i - Len(front)]
    BY <1>2, <1>3, ConcatProperties
  <1> HIDE DEF joined
  <1>5. Len(q) \in Nat /\ k \in Nat /\ Len(front) + Len(back) = Len(q) - 1
    BY <1>2, <1>3
  <1>6. ASSUME NEW i \in 1 .. Len(q) - 1
        PROVE  joined[i] = IF i < k THEN q[i] ELSE q[i + 1]
    <2>1. CASE i < k
      <3>1. /\ i \in 1 .. Len(front) + Len(back)
            /\ i <= Len(front)
            /\ i \in 1 .. k - 1
        BY <1>2, <1>5, <2>1
      <3>2. joined[i] = front[i]
        BY <1>4, <3>1
      <3> QED
        BY <1>2, <2>1, <3>1, <3>2
    <2>2. CASE ~(i < k)
      <3>1. i - (k - 1) \in 1 .. Len(q) - k /\ k + (i - (k - 1)) = i + 1
        BY <1>5, <2>2
      <3>2. joined[i] = back[i - (k - 1)]
        BY <1>2, <1>4, <1>5, <2>2
      <3>3. back[i - (k - 1)] = q[k + (i - (k - 1))]
        BY <1>3, <3>1
      <3> QED
        BY <2>2, <3>1, <3>2, <3>3
    <2> QED
      BY <2>1, <2>2
  <1>7. RemoveAt(q, k) = joined
    BY DEF RemoveAt, joined, front, back
  <1> QED
    BY <1>4, <1>5, <1>6, <1>7

(* Unsigned arithmetic stays within its width. *)
LEMMA ModFacts ==
  ASSUME NEW m \in Nat \ {0}, NEW a \in Int
  PROVE  a % m \in 0 .. m - 1
  OBVIOUS

(* Division leaves a remainder within the width. *)
LEMMA DivMod ==
  ASSUME NEW m \in Nat \ {0}, NEW a \in Int
  PROVE  a \div m \in Int /\ a % m \in 0 .. m - 1 /\ a = m * (a \div m) + (a % m)
  <1>1. a \div m \in Int
    OBVIOUS
  <1>2. a % m \in 0 .. m - 1
    OBVIOUS
  <1>3. a = m * (a \div m) + (a % m)
    OBVIOUS
  <1> QED
    BY <1>1, <1>2, <1>3

(* A multiple of a width is at least the width. *)
LEMMA ProductBound ==
  ASSUME NEW m \in Nat \ {0}, NEW d \in Int, d >= 1
  PROVE  m * d >= m
  OBVIOUS

(* There is only one such remainder. *)
LEMMA RemainderUnique ==
  ASSUME NEW m \in Nat \ {0}, NEW q \in Int, NEW p \in Int, NEW r \in 0 .. m - 1, NEW s \in 0 .. m - 1,
         m * q + r = m * p + s
  PROVE  r = s
  <1>1. m * (q - p) = s - r /\ m * (p - q) = r - s
    OBVIOUS
  <1>2. CASE q > p
    BY <1>1, <1>2, ProductBound
  <1>3. CASE q < p
    BY <1>1, <1>3, ProductBound
  <1> QED
    BY <1>2, <1>3

(* Wrapping before an addition changes nothing that wraps after it. *)
LEMMA ModShift ==
  ASSUME NEW m \in Nat \ {0}, NEW a \in Int, NEW b \in Int
  PROVE  ((a % m) + b) % m = (a + b) % m
  <1> DEFINE q == a \div m
             r == a % m
             x == r + b
             y == a + b
  <1>1. q \in Int /\ r \in 0 .. m - 1 /\ a = m * q + r
    BY DivMod
  <1>2. x \in Int /\ y \in Int
    BY <1>1
  <1>3. y = m * q + x
    BY <1>1
  <1> HIDE DEF q, r, x, y
  <1>4. /\ x \div m \in Int /\ x % m \in 0 .. m - 1 /\ x = m * (x \div m) + (x % m)
        /\ y \div m \in Int /\ y % m \in 0 .. m - 1 /\ y = m * (y \div m) + (y % m)
    BY <1>2, DivMod
  <1> DEFINE u == x \div m
             v == y \div m
             e == x % m
             f == y % m
  <1>5. u \in Int /\ v \in Int /\ e \in 0 .. m - 1 /\ f \in 0 .. m - 1
    BY <1>4
  <1>6. m * v + f = m * q + (m * u + e)
    <2>1. x = m * u + e /\ y = m * v + f
      BY <1>4
    <2> HIDE DEF u, v, e, f
    <2> QED
      BY <1>3, <2>1
  <1> HIDE DEF u, v, e, f
  <1>7. m * (q + u) = m * q + m * u
    BY <1>1, <1>5
  <1>8. m * v + f = m * (q + u) + e
    BY <1>1, <1>5, <1>6, <1>7
  <1>9. q + u \in Int
    BY <1>1, <1>5
  <1>10. e = f
    BY <1>5, <1>8, <1>9, RemainderUnique
  <1> QED
    BY <1>10 DEF e, f, x, y, r

-----------------------------------------------------------------------------
(* Sums of shares *)

(* The running totals of check_rep's walk over a queue.                     *)
IsWalk(g, q) ==
  /\ g \in [0 .. Len(q) -> Nat]
  /\ g[0] = 0
  /\ \A i \in 1 .. Len(q) : g[i] = g[i - 1] + q[i].shares

(* The recursion of SumShares has a solution: the walk exists, and ends in it. *)
LEMMA WalkExists ==
  ASSUME NEW q \in Seq(RestingOrder)
  PROVE  \E g : IsWalk(g, q) /\ SumShares(q) = g[Len(q)]
  <1> DEFINE n == Len(q)
             Eq(f) == f = [i \in 0 .. n |-> IF i = 0 THEN 0 ELSE f[i - 1] + q[i].shares]
             step == [i \in 1 .. n |-> [v \in Nat |-> v + q[i].shares]]
  <1>1. n \in Nat /\ \A i \in 1 .. n : q[i].shares \in Nat
    <2>1. \A i \in 1 .. n : q[i] \in RestingOrder
      OBVIOUS
    <2> QED
      BY <2>1 DEF RestingOrder, Shares
  <1> HIDE DEF n
  <1>2. step \in [1 .. n -> [Nat -> Nat]]
    BY <1>1
  <1>3. \A i \in 1 .. n, v \in Nat : step[i][v] = v + q[i].shares
    OBVIOUS
  <1> HIDE DEF step
  <1>4. PICK h \in [0 .. n -> Nat] : Follows(h, n, 0, step)
    BY <1>1, <1>2, RecursionExists
  <1>5. Eq(h)
    <2>1. \A i \in 0 .. n : h[i] = IF i = 0 THEN 0 ELSE h[i - 1] + q[i].shares
      <3>1. SUFFICES ASSUME NEW i \in 0 .. n PROVE h[i] = IF i = 0 THEN 0 ELSE h[i - 1] + q[i].shares
        OBVIOUS
      <3>2. CASE i = 0
        BY <1>4, <3>2 DEF Follows
      <3>3. CASE i # 0
        <4>1. i \in 1 .. n /\ i - 1 \in 0 .. n
          BY <1>1, <3>3
        <4>2. h[i] = step[i][h[i - 1]]
          BY <1>4, <4>1 DEF Follows
        <4> QED
          BY <1>3, <3>3, <4>1, <4>2
      <3> QED
        BY <3>2, <3>3
    <2> QED
      BY <2>1
  <1> DEFINE g == CHOOSE f : Eq(f)
  <1>6. Eq(g)
    <2> HIDE DEF Eq
    <2> QED
      BY <1>5
  <1>7. SumShares(q) = g[n]
    BY DEF SumShares, n
  <1> HIDE DEF g
  <1>8. /\ g = [i \in 0 .. n |-> g[i]]
        /\ g[0] = 0
        /\ \A i \in 1 .. n : g[i] = g[i - 1] + q[i].shares
    <2>1. DOMAIN g = 0 .. n /\ \A i \in 0 .. n : g[i] = IF i = 0 THEN 0 ELSE g[i - 1] + q[i].shares
      BY <1>6
    <2>2. g = [i \in 0 .. n |-> g[i]]
      BY <1>6
    <2> HIDE DEF Eq
    <2> QED
      BY <1>1, <2>1, <2>2
  <1> HIDE DEF Eq
  <1>9. \A i \in 0 .. n : g[i] \in Nat
    <2> DEFINE T == {i \in 0 .. n : g[i] \in Nat}
    <2>1. 0 \in T
      BY <1>1, <1>8
    <2>2. ASSUME NEW i \in 0 .. n - 1, i \in T PROVE i + 1 \in T
      <3>1. i + 1 \in 1 .. n /\ (i + 1) - 1 = i
        BY <1>1
      <3>2. g[i + 1] = g[i] + q[i + 1].shares
        BY <1>8, <3>1
      <3> QED
        BY <1>1, <2>2, <3>1, <3>2
    <2> HIDE DEF T
    <2>3. \A i \in 0 .. n : i \in T
      BY <1>1, <2>1, <2>2, UpTo, Zenon
    <2> QED
      BY <2>3 DEF T
  <1>10. g \in [0 .. n -> Nat]
    BY <1>8, <1>9
  <1> QED
    BY <1>7, <1>8, <1>10 DEF IsWalk, n

(* push_back adds the new order's shares to the sum. *)
LEMMA SumAppend ==
  ASSUME NEW q \in Seq(RestingOrder), NEW o \in RestingOrder
  PROVE  SumShares(q) \in Nat /\ SumShares(Append(q, o)) = SumShares(q) + o.shares
  <1> DEFINE n == Len(q)
             nq == Append(q, o)
  <1>1. PICK g : IsWalk(g, q) /\ SumShares(q) = g[n]
    BY WalkExists
  <1>2. /\ nq \in Seq(RestingOrder)
        /\ Len(nq) = n + 1
        /\ \A i \in 1 .. n : nq[i] = q[i]
        /\ nq[n + 1] = o
        /\ n \in Nat
    BY AppendProperties
  <1> HIDE DEF nq, n
  <1>3. PICK h : IsWalk(h, nq) /\ SumShares(nq) = h[n + 1]
    BY <1>2, WalkExists
  <1>4. \A i \in 0 .. n : h[i] = g[i]
    <2> DEFINE T == {i \in 0 .. n : h[i] = g[i]}
    <2>1. 0 \in T
      BY <1>1, <1>2, <1>3 DEF IsWalk
    <2>2. ASSUME NEW i \in 0 .. n - 1, i \in T PROVE i + 1 \in T
      <3>1. i + 1 \in 1 .. n /\ i + 1 \in 1 .. n + 1 /\ (i + 1) - 1 = i
        BY <1>2
      <3>2. h[i + 1] = h[i] + nq[i + 1].shares
        BY <1>2, <1>3, <3>1 DEF IsWalk
      <3>3. g[i + 1] = g[i] + q[i + 1].shares
        BY <1>1, <3>1 DEF IsWalk, n
      <3> QED
        BY <1>2, <2>2, <3>1, <3>2, <3>3
    <2> HIDE DEF T
    <2>3. \A i \in 0 .. n : i \in T
      BY <1>2, <2>1, <2>2, UpTo, Zenon
    <2> QED
      BY <2>3 DEF T
  <1>5. h[n + 1] = h[n] + o.shares
    BY <1>2, <1>3 DEF IsWalk
  <1>6. g[n] \in Nat
    BY <1>1, <1>2 DEF IsWalk, n
  <1> QED
    BY <1>1, <1>2, <1>3, <1>4, <1>5, <1>6 DEF nq

(* An order that loses shares in place takes them from the sum. *)
LEMMA SumReplace ==
  ASSUME NEW q \in Seq(RestingOrder), NEW k \in 1 .. Len(q), NEW nq \in Seq(RestingOrder),
         Len(nq) = Len(q), \A i \in 1 .. Len(q) : i # k => nq[i] = q[i]
  PROVE  SumShares(nq) = SumShares(q) - q[k].shares + nq[k].shares
  <1> DEFINE n == Len(q)
             d == nq[k].shares - q[k].shares
  <1>1. PICK g : IsWalk(g, q) /\ SumShares(q) = g[n]
    BY WalkExists
  <1>2. PICK h : IsWalk(h, nq) /\ SumShares(nq) = h[n]
    BY WalkExists
  <1>3. n \in Nat /\ k \in 1 .. n
    OBVIOUS
  <1>4. q[k].shares \in Nat /\ nq[k].shares \in Nat
    <2>1. q[k] \in RestingOrder /\ nq[k] \in RestingOrder
      OBVIOUS
    <2> QED
      BY <2>1 DEF RestingOrder, Shares
  <1>5. d \in Int
    BY <1>4
  <1>6. /\ \A i \in 0 .. n : g[i] \in Nat /\ h[i] \in Nat
        /\ g[0] = 0 /\ h[0] = 0
        /\ \A i \in 1 .. n : g[i] = g[i - 1] + q[i].shares /\ h[i] = h[i - 1] + nq[i].shares
    BY <1>1, <1>2 DEF IsWalk
  <1> DEFINE T == {i \in 0 .. n : h[i] = g[i] + (IF i >= k THEN d ELSE 0)}
  <1>7. 0 \in T
    BY <1>3, <1>6
  <1>8. ASSUME NEW i \in 0 .. n - 1, i \in T PROVE i + 1 \in T
    <2>1. i + 1 \in 1 .. n /\ (i + 1) - 1 = i /\ i \in 0 .. n
      BY <1>3
    <2>2. h[i + 1] = h[i] + nq[i + 1].shares /\ g[i + 1] = g[i] + q[i + 1].shares
      BY <1>6, <2>1
    <2>3. q[i + 1].shares \in Nat
      <3>1. q[i + 1] \in RestingOrder
        BY <2>1
      <3> QED
        BY <3>1 DEF RestingOrder, Shares
    <2>4. CASE i + 1 = k
      <3>1. h[i] = g[i]
        <4>1. ~(i >= k) /\ g[i] \in Nat
          BY <1>3, <1>6, <2>1, <2>4
        <4> QED
          BY <1>8, <4>1
      <3> QED
        BY <1>3, <1>4, <1>6, <2>1, <2>2, <2>4, <3>1
    <2>5. CASE i + 1 # k
      <3>1. nq[i + 1] = q[i + 1] /\ (i + 1 >= k <=> i >= k)
        BY <1>3, <2>1, <2>5
      <3>2. h[i] = g[i] + (IF i >= k THEN d ELSE 0)
        BY <1>8
      <3>3. g[i] \in Nat /\ g[i + 1] \in Nat
        BY <1>6, <2>1
      <3> HIDE DEF d
      <3>4. h[i + 1] = g[i + 1] + (IF i + 1 >= k THEN d ELSE 0)
        BY <1>5, <2>2, <2>3, <3>1, <3>2, <3>3
      <3> QED
        BY <2>1, <3>4
    <2> QED
      BY <2>4, <2>5
  <1>9. \A i \in 0 .. n : i \in T
    <2> HIDE DEF T, n
    <2> QED
      BY <1>3, <1>7, <1>8, UpTo, Zenon
  <1>10. h[n] = g[n] + d
    BY <1>3, <1>9
  <1> QED
    BY <1>1, <1>2, <1>3, <1>4, <1>6, <1>10

(* An order that is erased takes its shares from the sum, and the sum is at *)
(* least those. *)
LEMMA SumRemove ==
  ASSUME NEW q \in Seq(RestingOrder), NEW k \in 1 .. Len(q)
  PROVE  SumShares(RemoveAt(q, k)) = SumShares(q) - q[k].shares
  <1> DEFINE n == Len(q)
             nq == RemoveAt(q, k)
             x  == q[k].shares
  <1>1. PICK g : IsWalk(g, q) /\ SumShares(q) = g[n]
    BY WalkExists
  <1>2. /\ nq \in Seq(RestingOrder)
        /\ Len(nq) = n - 1
        /\ \A i \in 1 .. n - 1 : nq[i] = IF i < k THEN q[i] ELSE q[i + 1]
    BY RemoveAtFacts
  <1>3. n \in Nat /\ k \in 1 .. n /\ n - 1 \in Nat
    OBVIOUS
  <1>4. \A i \in 1 .. n : q[i].shares \in Nat
    <2>1. \A i \in 1 .. n : q[i] \in RestingOrder
      OBVIOUS
    <2> QED
      BY <2>1 DEF RestingOrder, Shares
  <1> HIDE DEF nq
  <1>5. PICK h : IsWalk(h, nq) /\ SumShares(nq) = h[n - 1]
    BY <1>2, WalkExists
  <1>6. /\ \A i \in 0 .. n : g[i] \in Nat
        /\ \A i \in 0 .. n - 1 : h[i] \in Nat
        /\ g[0] = 0 /\ h[0] = 0
        /\ \A i \in 1 .. n : g[i] = g[i - 1] + q[i].shares
        /\ \A i \in 1 .. n - 1 : h[i] = h[i - 1] + nq[i].shares
    BY <1>1, <1>2, <1>5 DEF IsWalk
  <1> HIDE DEF n
  <1> DEFINE T == {i \in 0 .. n - 1 : IF i < k THEN h[i] = g[i] ELSE h[i] = g[i + 1] - x}
  <1>7. 0 \in T
    BY <1>3, <1>6
  <1>8. ASSUME NEW i \in 0 .. (n - 1) - 1, i \in T PROVE i + 1 \in T
    <2>1. /\ i + 1 \in 1 .. n - 1 /\ (i + 1) - 1 = i /\ i \in 0 .. n - 1
          /\ i + 1 \in 1 .. n /\ i + 2 \in 1 .. n /\ (i + 1) + 1 = i + 2 /\ (i + 2) - 1 = i + 1
          /\ i \in 0 .. n
      BY <1>3
    <2>2. /\ h[i + 1] = h[i] + nq[i + 1].shares
          /\ g[i + 1] = g[i] + q[i + 1].shares
          /\ g[i + 2] = g[i + 1] + q[i + 2].shares
      BY <1>6, <2>1
    <2>3. q[i + 1].shares \in Nat /\ q[i + 2].shares \in Nat /\ x \in Nat
      BY <1>3, <1>4, <2>1
    <2>4. CASE i + 1 < k
      <3>1. nq[i + 1] = q[i + 1] /\ h[i] = g[i]
        BY <1>2, <1>3, <1>8, <2>1, <2>4
      <3> QED
        BY <2>1, <2>2, <2>4, <3>1
    <2>5. CASE i + 1 = k
      <3>1. nq[i + 1] = q[i + 2] /\ h[i] = g[i] /\ x = q[i + 1].shares
        BY <1>2, <1>3, <1>8, <2>1, <2>5
      <3>2. h[i + 1] = g[i + 2] - x
        <4> HIDE DEF x
        <4>1. g[i] \in Nat
          BY <1>6, <2>1
        <4> QED
          BY <2>2, <2>3, <3>1, <4>1
      <3> QED
        BY <1>3, <2>1, <2>5, <3>2
    <2>6. CASE i + 1 > k
      <3>1. ~(i + 1 < k) /\ ~(i < k)
        BY <1>3, <2>1, <2>6
      <3>2. nq[i + 1] = q[i + 2]
        BY <1>2, <2>1, <3>1
      <3>3. h[i] = g[i + 1] - x
        BY <1>8, <3>1
      <3>4. g[i + 1] \in Nat
        BY <1>6, <2>1
      <3>5. h[i + 1] = g[i + 2] - x
        <4> HIDE DEF x
        <4> QED
          BY <2>2, <2>3, <3>2, <3>3, <3>4
      <3> QED
        BY <2>1, <3>1, <3>5
    <2> QED
      BY <1>3, <2>1, <2>4, <2>5, <2>6
  <1>9. \A i \in 0 .. n - 1 : i \in T
    <2> DEFINE m == n - 1
    <2>1. m \in Nat /\ \A i \in 0 .. m - 1 : i \in T => i + 1 \in T
      BY <1>3, <1>8
    <2> HIDE DEF T, m
    <2>2. \A i \in 0 .. m : i \in T
      BY <1>7, <2>1, UpTo, Zenon
    <2> QED
      BY <2>2 DEF m
  <1>10. n - 1 \in T
    BY <1>3, <1>9
  <1>11. h[n - 1] = g[n] - x
    <2>1. (n - 1) + 1 = n /\ n \in 1 .. n /\ n - 1 \in 0 .. n
      BY <1>3
    <2>2a. g[n] = g[n - 1] + q[n].shares /\ g[n - 1] \in Nat
      BY <1>6, <2>1
    <2>2. CASE n = k
      BY <1>3, <1>4, <1>10, <2>1, <2>2a, <2>2
    <2>3. CASE n # k
      BY <1>3, <1>10, <2>1, <2>2a, <2>3
    <2> QED
      BY <2>2, <2>3
  <1> QED
    BY <1>1, <1>5, <1>11 DEF nq

-----------------------------------------------------------------------------
(* The inductive invariant *)

(* What every mutator keeps, of a book.                                     *)
BookInv(b) ==
  /\ IsBook(b)
  /\ NoEmptyLevel(b)
  /\ NodesUnique(b)
  /\ PositionsLive(b)

(* The i-th order of the queue at price p on side s.                        *)
Slot(b, s, p, i) == p \in DOMAIN b.levels[s] /\ i \in DOMAIN b.levels[s][p].orders
OrderAt(b, s, p, i) == b.levels[s][p].orders[i]

(* The type of a level that is in a price map. *)
LEMMA LevelFacts ==
  ASSUME NEW b, IsBook(b), NEW s \in Side, NEW p \in DOMAIN b.levels[s]
  PROVE  /\ p \in Price
         /\ b.levels[s][p] = [orders       |-> b.levels[s][p].orders,
                              total_shares |-> b.levels[s][p].total_shares]
         /\ b.levels[s][p].orders \in Seq(RestingOrder)
         /\ b.levels[s][p].total_shares \in Total
         /\ DOMAIN b.levels[s][p].orders = 1 .. Len(b.levels[s][p].orders)
  BY DEF IsBook, IsMapOf, PriceLevel

(* operator[] on a price map gives the level, or an empty one. *)
LEMMA LevelAtFacts ==
  ASSUME NEW b, IsBook(b), NEW s \in Side, NEW p \in Price
  PROVE  /\ LevelAt(b, s, p).orders \in Seq(RestingOrder)
         /\ LevelAt(b, s, p).total_shares \in Total
         /\ p \in DOMAIN b.levels[s] => LevelAt(b, s, p) = b.levels[s][p]
         /\ p \notin DOMAIN b.levels[s] => LevelAt(b, s, p).orders = <<>>
  <1>1. CASE p \in DOMAIN b.levels[s]
    BY <1>1, LevelFacts DEF LevelAt
  <1>2. CASE p \notin DOMAIN b.levels[s]
    BY <1>2, WidthAssumption DEF LevelAt, NoLevel, Total
  <1> QED
    BY <1>1, <1>2

(* NodesUnique, with a place in the book as one notion. *)
LEMMA UniqueSlots ==
  ASSUME NEW b
  PROVE  NodesUnique(b) <=>
           \A s, t \in Side : \A p, q, i, j :
             /\ Slot(b, s, p, i)
             /\ Slot(b, t, q, j)
             /\ OrderAt(b, s, p, i).node = OrderAt(b, t, q, j).node
             => s = t /\ p = q /\ i = j
  <1>1. ASSUME NodesUnique(b),
               NEW s \in Side, NEW t \in Side, NEW p, NEW q, NEW i, NEW j,
               Slot(b, s, p, i), Slot(b, t, q, j),
               OrderAt(b, s, p, i).node = OrderAt(b, t, q, j).node
        PROVE  s = t /\ p = q /\ i = j
    BY <1>1 DEF NodesUnique, Slot, OrderAt
  <1>2. ASSUME \A s, t \in Side : \A p, q, i, j :
                 /\ Slot(b, s, p, i)
                 /\ Slot(b, t, q, j)
                 /\ OrderAt(b, s, p, i).node = OrderAt(b, t, q, j).node
                 => s = t /\ p = q /\ i = j,
               NEW s \in Side, NEW t \in Side,
               NEW p \in DOMAIN b.levels[s], NEW q \in DOMAIN b.levels[t],
               NEW i \in DOMAIN b.levels[s][p].orders,
               NEW j \in DOMAIN b.levels[t][q].orders,
               b.levels[s][p].orders[i].node = b.levels[t][q].orders[j].node
        PROVE  s = t /\ p = q /\ i = j
    <2>1. Slot(b, s, p, i) /\ Slot(b, t, q, j)
      BY DEF Slot
    <2>2. OrderAt(b, s, p, i).node = OrderAt(b, t, q, j).node
      BY <1>2 DEF OrderAt
    <2> QED
      BY <1>2, <2>1, <2>2
  <1> QED
    BY <1>1, <1>2 DEF NodesUnique

(* Within one queue, an address names one place. *)
LEMMA SameSlot ==
  ASSUME NEW b, NodesUnique(b), NEW s \in Side, NEW p, NEW i, NEW j,
         Slot(b, s, p, i), Slot(b, s, p, j), OrderAt(b, s, p, i).node = OrderAt(b, s, p, j).node
  PROVE  i = j
  BY UniqueSlots

(* PositionsLive, in the same terms. *)
LEMMA LiveSlots ==
  ASSUME NEW b
  PROVE  PositionsLive(b) <=>
           \A r \in DOMAIN b.orders_ :
             \E i : /\ Slot(b, b.orders_[r].side, b.orders_[r].price, i)
                    /\ OrderAt(b, b.orders_[r].side, b.orders_[r].price, i).node
                         = b.orders_[r].position
                    /\ OrderAt(b, b.orders_[r].side, b.orders_[r].price, i).order_reference = r
  BY DEF PositionsLive, Slot, OrderAt

(* A free address is that of no node in the book. *)
LEMMA FreeSlots ==
  ASSUME NEW b, NEW node \in FreeNodes(b)
  PROVE  /\ node \in Node
         /\ \A s \in Side : \A p, i : Slot(b, s, p, i) => OrderAt(b, s, p, i).node # node
  BY DEF FreeNodes, LiveNodes, Slot, OrderAt

-----------------------------------------------------------------------------
(* insert_order *)

(* What insert_order makes of each part of the book. *)
LEMMA InsertShape ==
  ASSUME NEW b, IsBook(b),
         NEW side \in Side, NEW reference \in OrderRef, NEW price \in Price,
         NEW shares \in Shares, NEW node \in Node,
         NEW c, c = insert_order(b, side, reference, price, shares, node),
         NEW location, location = [side |-> side, price |-> price, position |-> node],
         NEW added, added = [node |-> node, order_reference |-> reference, shares |-> shares]
  PROVE  /\ IsBook(c)
         /\ DOMAIN c.levels[side] = DOMAIN b.levels[side] \cup {price}
         /\ c.levels[side][price].orders = Append(LevelAt(b, side, price).orders, added)
         /\ c.levels[side][price].total_shares
              = (LevelAt(b, side, price).total_shares + shares) % TotalMod
         /\ \A p \in DOMAIN b.levels[side] \ {price} : c.levels[side][p] = b.levels[side][p]
         /\ \A s \in Side \ {side} : c.levels[s] = b.levels[s]
         /\ c.orders_ = Emplace(b.orders_, reference, location)
  <1> DEFINE level == [orders       |-> Append(LevelAt(b, side, price).orders, added),
                       total_shares |-> (LevelAt(b, side, price).total_shares + shares) % TotalMod]
             old   == b.levels[side]
             put   == MapPut(old, price, level)
             index == b.orders_
  <1>1. level \in PriceLevel
    <2>1. added \in RestingOrder
      BY DEF RestingOrder
    <2>2. Append(LevelAt(b, side, price).orders, added) \in Seq(RestingOrder)
      BY <2>1, LevelAtFacts
    <2>3. LevelAt(b, side, price).total_shares + shares \in Int
      BY LevelAtFacts DEF Total, Shares
    <2>4. (LevelAt(b, side, price).total_shares + shares) % TotalMod \in Total
      BY <2>3, ModFacts, WidthAssumption DEF Total
    <2> QED
      BY <2>2, <2>4 DEF PriceLevel
  <1>2. location \in OrderLocation
    BY DEF OrderLocation
  <1>3. c = [levels  |-> [b.levels EXCEPT ![side] = put],
             orders_ |-> Emplace(b.orders_, reference, location)]
    BY DEF insert_order, push_back
  <1>4. IsMapOf(old, Price, PriceLevel) /\ IsMapOf(index, OrderRef, OrderLocation)
    BY DEF IsBook
  <1>5. /\ level.orders = Append(LevelAt(b, side, price).orders, added)
        /\ level.total_shares = (LevelAt(b, side, price).total_shares + shares) % TotalMod
    OBVIOUS
  <1> HIDE DEF level, old, index
  <1>6. /\ IsMapOf(put, Price, PriceLevel)
        /\ DOMAIN put = DOMAIN old \cup {price}
        /\ put[price] = level
        /\ \A p \in DOMAIN old \ {price} : put[p] = old[p]
    BY <1>1, <1>4, PutFacts
  <1>7. IsMapOf(Emplace(index, reference, location), OrderRef, OrderLocation)
    BY <1>2, <1>4, EmplaceFacts
  <1> HIDE DEF put
  <1>8. c.levels = [s \in Side |-> IF s = side THEN put ELSE b.levels[s]]
    BY <1>3 DEF IsBook
  <1>9. IsBook(c)
    <2>1. c = [levels |-> c.levels, orders_ |-> c.orders_]
      BY <1>3
    <2>2. \A s \in Side : IsMapOf(c.levels[s], Price, PriceLevel)
      BY <1>6, <1>8 DEF IsBook
    <2> QED
      BY <1>3, <1>7, <1>8, <2>1, <2>2 DEF IsBook, index
  <1> QED
    BY <1>3, <1>5, <1>6, <1>8, <1>9 DEF old

(* The places after an insertion: one is new, behind the others of its      *)
(* queue.                                                                   *)
SlotsAdded(b, c, side, price, last, added) ==
  /\ \A s \in Side : \A p, i : Slot(b, s, p, i) =>
       Slot(c, s, p, i) /\ OrderAt(c, s, p, i) = OrderAt(b, s, p, i)
  /\ Slot(c, side, price, last) /\ OrderAt(c, side, price, last) = added
  /\ \A s \in Side : \A p, i :
       Slot(c, s, p, i) /\ ~(s = side /\ p = price /\ i = last) => Slot(b, s, p, i)
  /\ \A i : Slot(b, side, price, i) => i < last

(* insert_order leaves every order where it was, and adds one. *)
LEMMA InsertSlots ==
  ASSUME NEW b, IsBook(b),
         NEW side \in Side, NEW reference \in OrderRef, NEW price \in Price,
         NEW shares \in Shares, NEW node \in Node
  PROVE  \E last : SlotsAdded(b, insert_order(b, side, reference, price, shares, node),
                              side, price, last,
                              [node |-> node, order_reference |-> reference, shares |-> shares])
  <1> DEFINE c        == insert_order(b, side, reference, price, shares, node)
             queue    == LevelAt(b, side, price).orders
             added    == [node |-> node, order_reference |-> reference, shares |-> shares]
             location == [side |-> side, price |-> price, position |-> node]
             last     == Len(queue) + 1
  <1>3. /\ IsBook(c)
        /\ DOMAIN c.levels[side] = DOMAIN b.levels[side] \cup {price}
        /\ c.levels[side][price].orders = Append(queue, added)
        /\ \A p \in DOMAIN b.levels[side] \ {price} : c.levels[side][p] = b.levels[side][p]
        /\ \A s \in Side \ {side} : c.levels[s] = b.levels[s]
        /\ c.orders_ = Emplace(b.orders_, reference, location)
    BY InsertShape
  <1>4. /\ queue \in Seq(RestingOrder)
        /\ price \in DOMAIN b.levels[side] => queue = b.levels[side][price].orders
        /\ price \notin DOMAIN b.levels[side] => queue = <<>>
    BY LevelAtFacts
  <1>5. added \in RestingOrder
    BY DEF RestingOrder
  <1> HIDE DEF c, queue
  <1>6. /\ DOMAIN Append(queue, added) = 1 .. last
        /\ DOMAIN queue = 1 .. Len(queue)
        /\ \A i \in 1 .. Len(queue) : Append(queue, added)[i] = queue[i]
        /\ Append(queue, added)[last] = added
        /\ Append(queue, added) # <<>>
        /\ Len(queue) \in Nat
    BY <1>4, <1>5, AppendProperties
  <1> HIDE DEF added, last
  \* Every order of b is where it was.
  <1>7. ASSUME NEW s \in Side, NEW p, NEW i, Slot(b, s, p, i)
        PROVE  Slot(c, s, p, i) /\ OrderAt(c, s, p, i) = OrderAt(b, s, p, i)
    <2>1. CASE s = side /\ p = price
      BY <1>3, <1>4, <1>6, <1>7, <2>1 DEF Slot, OrderAt, last
    <2>2. CASE s = side /\ p # price
      BY <1>3, <1>7, <2>2 DEF Slot, OrderAt
    <2>3. CASE s # side
      BY <1>3, <1>7, <2>3 DEF Slot, OrderAt
    <2> QED
      BY <2>1, <2>2, <2>3
  \* One order is new, at the back of its queue.
  <1>8. Slot(c, side, price, last) /\ OrderAt(c, side, price, last) = added
    BY <1>3, <1>6 DEF Slot, OrderAt, last
  \* There are no others.
  <1>9. ASSUME NEW s \in Side, NEW p, NEW i, Slot(c, s, p, i),
               ~(s = side /\ p = price /\ i = last)
        PROVE  Slot(b, s, p, i)
    <2>1. CASE s = side /\ p = price
      <3>1. i \in 1 .. Len(queue)
        BY <1>3, <1>6, <1>9, <2>1 DEF Slot, last
      <3>2. price \in DOMAIN b.levels[side]
        BY <1>4, <1>6, <3>1
      <3> QED
        BY <1>4, <1>6, <2>1, <3>1, <3>2 DEF Slot
    <2>2. CASE s = side /\ p # price
      BY <1>3, <1>9, <2>2 DEF Slot
    <2>3. CASE s # side
      BY <1>3, <1>9, <2>3 DEF Slot
    <2> QED
      BY <2>1, <2>2, <2>3
  <1>10. ASSUME NEW i, Slot(b, side, price, i) PROVE i < last
    BY <1>4, <1>6, <1>10 DEF Slot, last
  <1>11. SlotsAdded(b, c, side, price, last, added)
    BY <1>7, <1>8, <1>9, <1>10 DEF SlotsAdded
  <1> QED
    BY <1>11 DEF c, added

(* insert_order keeps the book's invariant, also when the reference repeats. *)
LEMMA InsertPreserves ==
  ASSUME NEW b, BookInv(b),
         NEW side \in Side, NEW reference \in OrderRef, NEW price \in Price,
         NEW shares \in Shares, NEW node \in FreeNodes(b)
  PROVE  BookInv(insert_order(b, side, reference, price, shares, node))
  <1> DEFINE c        == insert_order(b, side, reference, price, shares, node)
             queue    == LevelAt(b, side, price).orders
             added    == [node |-> node, order_reference |-> reference, shares |-> shares]
             location == [side |-> side, price |-> price, position |-> node]
  <1>1. IsBook(b) /\ NoEmptyLevel(b) /\ NodesUnique(b) /\ PositionsLive(b)
    BY DEF BookInv
  <1>2. node \in Node
    BY FreeSlots
  <1>3. /\ IsBook(c)
        /\ DOMAIN c.levels[side] = DOMAIN b.levels[side] \cup {price}
        /\ c.levels[side][price].orders = Append(queue, added)
        /\ \A p \in DOMAIN b.levels[side] \ {price} : c.levels[side][p] = b.levels[side][p]
        /\ \A s \in Side \ {side} : c.levels[s] = b.levels[s]
        /\ c.orders_ = Emplace(b.orders_, reference, location)
    BY <1>1, <1>2, InsertShape
  <1>4. PICK last : SlotsAdded(b, c, side, price, last, added)
    BY <1>1, <1>2, InsertSlots
  <1> HIDE DEF c, queue, added
  \* Every order of b is where it was.
  <1>7. ASSUME NEW s \in Side, NEW p, NEW i, Slot(b, s, p, i)
        PROVE  Slot(c, s, p, i) /\ OrderAt(c, s, p, i) = OrderAt(b, s, p, i)
    BY <1>4, <1>7 DEF SlotsAdded
  \* One order is new, at the back of its queue.
  <1>8. Slot(c, side, price, last) /\ OrderAt(c, side, price, last) = added
    BY <1>4 DEF SlotsAdded
  \* There are no others.
  <1>9. ASSUME NEW s \in Side, NEW p, NEW i, Slot(c, s, p, i),
               ~(s = side /\ p = price /\ i = last)
        PROVE  Slot(b, s, p, i)
    BY <1>4, <1>9 DEF SlotsAdded
  <1>10. NoEmptyLevel(c)
    <2>1. SUFFICES ASSUME NEW s \in Side, NEW p \in DOMAIN c.levels[s]
                   PROVE  c.levels[s][p].orders # <<>>
      BY DEF NoEmptyLevel
    <2>2. CASE s = side /\ p = price
      BY <1>8, <2>2 DEF Slot
    <2>3. CASE ~(s = side /\ p = price)
      BY <1>1, <1>3, <2>3 DEF NoEmptyLevel
    <2> QED
      BY <2>2, <2>3
  <1>11. added.node = node /\ added.order_reference = reference
    BY DEF added
  <1>12. \A s \in Side : \A p, i : Slot(b, s, p, i) => OrderAt(b, s, p, i).node # node
    BY FreeSlots
  <1>13. NodesUnique(c)
    <2>1. ASSUME NEW s \in Side, NEW t \in Side, NEW p, NEW q, NEW i, NEW j,
                 Slot(c, s, p, i), Slot(c, t, q, j),
                 OrderAt(c, s, p, i).node = OrderAt(c, t, q, j).node
          PROVE  s = t /\ p = q /\ i = j
      <3> DEFINE New(u, x, k) == u = side /\ x = price /\ k = last
      <3>1. CASE New(s, p, i) /\ New(t, q, j)
        BY <3>1
      <3>2. CASE New(s, p, i) /\ ~New(t, q, j)
        BY <1>7, <1>8, <1>9, <1>11, <1>12, <2>1, <3>2
      <3>3. CASE ~New(s, p, i) /\ New(t, q, j)
        BY <1>7, <1>8, <1>9, <1>11, <1>12, <2>1, <3>3
      <3>4. CASE ~New(s, p, i) /\ ~New(t, q, j)
        <4>1. Slot(b, s, p, i) /\ Slot(b, t, q, j)
          BY <1>9, <2>1, <3>4
        <4>2. OrderAt(b, s, p, i).node = OrderAt(b, t, q, j).node
          BY <1>7, <2>1, <4>1
        <4> QED
          BY <1>1, <4>1, <4>2, UniqueSlots
      <3> QED
        BY <3>1, <3>2, <3>3, <3>4
    <2> QED
      BY <2>1, UniqueSlots
  <1>14. PositionsLive(c)
    <2>1. SUFFICES ASSUME NEW r \in DOMAIN c.orders_
                   PROVE  \E i : /\ Slot(c, c.orders_[r].side, c.orders_[r].price, i)
                                 /\ OrderAt(c, c.orders_[r].side, c.orders_[r].price, i).node
                                      = c.orders_[r].position
                                 /\ OrderAt(c, c.orders_[r].side, c.orders_[r].price, i)
                                      .order_reference = r
      BY LiveSlots
    <2>2. /\ DOMAIN c.orders_ = DOMAIN b.orders_ \cup {reference}
          /\ \A x \in DOMAIN b.orders_ : c.orders_[x] = b.orders_[x]
          /\ reference \notin DOMAIN b.orders_ => c.orders_[reference] = location
      <3> DEFINE index == b.orders_
      <3>1. IsMapOf(index, OrderRef, OrderLocation)
        BY <1>1 DEF IsBook
      <3> HIDE DEF index, location
      <3>2. /\ DOMAIN Emplace(index, reference, location) = DOMAIN index \cup {reference}
            /\ \A x \in DOMAIN index : Emplace(index, reference, location)[x] = index[x]
            /\ reference \notin DOMAIN index
                 => Emplace(index, reference, location)[reference] = location
        BY <3>1 DEF Emplace, MapPut, IsMapOf
      <3> QED
        BY <1>3, <3>2 DEF index
    <2>3. CASE r \in DOMAIN b.orders_
      <3>1. b.orders_[r].side \in Side
        BY <1>1, <2>3 DEF IsBook, IsMapOf, OrderLocation
      <3>2. PICK i : /\ Slot(b, b.orders_[r].side, b.orders_[r].price, i)
                     /\ OrderAt(b, b.orders_[r].side, b.orders_[r].price, i).node
                          = b.orders_[r].position
                     /\ OrderAt(b, b.orders_[r].side, b.orders_[r].price, i)
                          .order_reference = r
        BY <1>1, <2>3, LiveSlots
      <3> QED
        BY <1>7, <2>2, <2>3, <3>1, <3>2
    <2>4. CASE r \notin DOMAIN b.orders_
      <3>1. c.orders_[r] = location /\ r = reference
        BY <2>1, <2>2, <2>4
      <3> QED
        BY <1>8, <1>11, <3>1
    <2> QED
      BY <2>3, <2>4
  <1> QED
    BY <1>3, <1>10, <1>13, <1>14 DEF BookInv, c

(* operator[] gives a level whose total is exact, also a new one. *)
LEMMA LevelAtExact ==
  ASSUME NEW b, IsBook(b), TotalsExact(b), NEW s \in Side, NEW p \in Price
  PROVE  LevelTotalExact(LevelAt(b, s, p))
  <1>1. CASE p \in DOMAIN b.levels[s]
    BY <1>1 DEF LevelAt, TotalsExact
  <1>2. CASE p \notin DOMAIN b.levels[s]
    <2>1. <<>> \in Seq(RestingOrder) /\ Len(<<>>) = 0
      OBVIOUS
    <2>2. SumShares(<<>>) = 0
      BY <2>1, WalkExists DEF IsWalk
    <2>3. 0 % TotalMod = 0
      BY WidthAssumption
    <2> QED
      BY <1>2, <2>2, <2>3 DEF LevelAt, NoLevel, LevelTotalExact
  <1> QED
    BY <1>1, <1>2

(* insert_order keeps every total exact, modulo the width of a total. *)
LEMMA InsertTotals ==
  ASSUME NEW b, IsBook(b), TotalsExact(b),
         NEW side \in Side, NEW reference \in OrderRef, NEW price \in Price,
         NEW shares \in Shares, NEW node \in Node
  PROVE  TotalsExact(insert_order(b, side, reference, price, shares, node))
  <1> DEFINE c     == insert_order(b, side, reference, price, shares, node)
             queue == LevelAt(b, side, price).orders
             total == LevelAt(b, side, price).total_shares
             added == [node |-> node, order_reference |-> reference, shares |-> shares]
             location == [side |-> side, price |-> price, position |-> node]
  <1>1. /\ IsBook(c)
        /\ DOMAIN c.levels[side] = DOMAIN b.levels[side] \cup {price}
        /\ c.levels[side][price].orders = Append(queue, added)
        /\ c.levels[side][price].total_shares = (total + shares) % TotalMod
        /\ \A p \in DOMAIN b.levels[side] \ {price} : c.levels[side][p] = b.levels[side][p]
        /\ \A s \in Side \ {side} : c.levels[s] = b.levels[s]
        /\ c.orders_ = Emplace(b.orders_, reference, location)
    <2> HIDE DEF c, added, location
    <2>1. /\ c = insert_order(b, side, reference, price, shares, node)
          /\ added = [node |-> node, order_reference |-> reference, shares |-> shares]
          /\ location = [side |-> side, price |-> price, position |-> node]
      BY DEF c, added, location
    <2> QED
      BY <2>1, InsertShape
  <1>2. queue \in Seq(RestingOrder) /\ total = SumShares(queue) % TotalMod
    BY LevelAtFacts, LevelAtExact DEF LevelTotalExact
  <1>3. added \in RestingOrder /\ added.shares = shares
    BY DEF RestingOrder
  <1> HIDE DEF c, queue, total, added
  <1>4. SumShares(queue) \in Nat /\ SumShares(Append(queue, added)) = SumShares(queue) + shares
    BY <1>2, <1>3, SumAppend
  <1>5. (total + shares) % TotalMod = (SumShares(queue) + shares) % TotalMod
    <2>1. SumShares(queue) \in Int /\ shares \in Int
      BY <1>4 DEF Shares
    <2> QED
      BY <1>2, <2>1, ModShift, WidthAssumption
  <1>6. LevelTotalExact(c.levels[side][price])
    BY <1>1, <1>4, <1>5 DEF LevelTotalExact
  <1>7. ASSUME NEW s \in Side, NEW p \in DOMAIN c.levels[s], ~(s = side /\ p = price)
        PROVE  p \in DOMAIN b.levels[s] /\ c.levels[s][p] = b.levels[s][p]
    BY <1>1, <1>7
  <1>8. TotalsExact(c)
    BY <1>6, <1>7 DEF TotalsExact
  <1> QED
    BY <1>8 DEF c

-----------------------------------------------------------------------------
(* reduce_or_remove *)

(* Which place of the queue before the j-th order after came from, when the *)
(* k-th is erased (gone) or only loses shares.                              *)
From(gone, k, j) == IF gone /\ j >= k THEN j + 1 ELSE j

ShrunkQueue(q, k, left, gone) ==
  IF gone THEN RemoveAt(q, k) ELSE ReplaceAt(q, k, [q[k] EXCEPT !.shares = left])

(* Erasing or shrinking one order leaves the others, in their order. *)
LEMMA ShrunkQueueFacts ==
  ASSUME NEW q \in Seq(RestingOrder), NEW k \in 1 .. Len(q), NEW left \in Shares,
         NEW gone \in BOOLEAN, NEW nq, nq = ShrunkQueue(q, k, left, gone)
  PROVE  /\ nq \in Seq(RestingOrder)
         /\ \A j \in DOMAIN nq :
              /\ From(gone, k, j) \in DOMAIN q
              /\ gone => From(gone, k, j) # k
              /\ nq[j].node = q[From(gone, k, j)].node
              /\ nq[j].order_reference = q[From(gone, k, j)].order_reference
              /\ nq[j].shares = IF ~gone /\ j = k THEN left ELSE q[From(gone, k, j)].shares
         /\ \A i, j \in DOMAIN nq : From(gone, k, i) = From(gone, k, j) => i = j
         /\ \A i \in DOMAIN q : ~(gone /\ i = k) =>
              \E j \in DOMAIN nq : From(gone, k, j) = i
  <1>1. DOMAIN q = 1 .. Len(q) /\ Len(q) \in Nat /\ k \in Nat
    OBVIOUS
  <1>2. CASE gone
    <2>1. nq = RemoveAt(q, k)
      BY <1>2 DEF ShrunkQueue
    <2>2. /\ nq \in Seq(RestingOrder)
          /\ Len(nq) = Len(q) - 1
          /\ \A i \in 1 .. Len(q) - 1 : nq[i] = IF i < k THEN q[i] ELSE q[i + 1]
      BY <2>1, RemoveAtFacts
    <2>3. DOMAIN nq = 1 .. Len(q) - 1
      BY <2>2
    <2>4. \A j : From(gone, k, j) = IF j >= k THEN j + 1 ELSE j
      BY <1>2, Zenon DEF From
    <2>5. ASSUME NEW i \in DOMAIN q, i # k
          PROVE  \E j \in DOMAIN nq : From(gone, k, j) = i
      <3>1. CASE i < k
        <4>1. i \in DOMAIN nq /\ From(gone, k, i) = i
          BY <1>1, <2>3, <2>4, <3>1
        <4> QED
          BY <4>1
      <3>2. CASE i > k
        <4>1. i - 1 \in DOMAIN nq /\ i - 1 >= k /\ (i - 1) + 1 = i
          BY <1>1, <2>3, <3>2
        <4> QED
          BY <2>4, <4>1
      <3> QED
        BY <1>1, <2>5, <3>1, <3>2
    <2>6. ASSUME NEW j \in DOMAIN nq
          PROVE  /\ From(gone, k, j) \in DOMAIN q
                 /\ From(gone, k, j) # k
                 /\ nq[j] = q[From(gone, k, j)]
      BY <1>1, <2>2, <2>3, <2>4
    <2>7. \A i, j \in DOMAIN nq : From(gone, k, i) = From(gone, k, j) => i = j
      BY <1>1, <2>3, <2>4
    <2>8. ASSUME NEW j \in DOMAIN nq
          PROVE  /\ nq[j].node = q[From(gone, k, j)].node
                 /\ nq[j].order_reference = q[From(gone, k, j)].order_reference
                 /\ nq[j].shares = IF ~gone /\ j = k THEN left ELSE q[From(gone, k, j)].shares
      BY <1>2, <2>6
    <2> QED
      BY <1>2, <2>2, <2>5, <2>6, <2>7, <2>8, Zenon
  <1>3. CASE ~gone
    <2> DEFINE shrunk == [q[k] EXCEPT !.shares = left]
    <2>1. nq = ReplaceAt(q, k, shrunk)
      BY <1>3 DEF ShrunkQueue
    <2>2. q[k] \in RestingOrder
      BY <1>1
    <2>3. /\ shrunk \in RestingOrder
          /\ shrunk.node = q[k].node
          /\ shrunk.order_reference = q[k].order_reference
          /\ shrunk.shares = left
      BY <2>2 DEF RestingOrder
    <2> HIDE DEF shrunk
    <2>4. /\ nq \in Seq(RestingOrder)
          /\ Len(nq) = Len(q)
          /\ nq[k] = shrunk
          /\ \A i \in 1 .. Len(q) : i # k => nq[i] = q[i]
      BY <1>1, <2>1, <2>3 DEF ReplaceAt
    <2>5. DOMAIN nq = 1 .. Len(q)
      BY <2>4
    <2>6. \A j : From(gone, k, j) = j
      BY <1>3, Zenon DEF From
    <2>7. ASSUME NEW j \in DOMAIN nq
          PROVE  /\ From(gone, k, j) \in DOMAIN q
                 /\ nq[j].node = q[From(gone, k, j)].node
                 /\ nq[j].order_reference = q[From(gone, k, j)].order_reference
                 /\ nq[j].shares = IF ~gone /\ j = k THEN left ELSE q[From(gone, k, j)].shares
      BY <1>1, <1>3, <2>3, <2>4, <2>5, <2>6
    <2>8. \A i \in DOMAIN q : \E j \in DOMAIN nq : From(gone, k, j) = i
      BY <1>1, <2>5, <2>6
    <2> QED
      BY <1>3, <2>4, <2>6, <2>7, <2>8
  <1> QED
    BY <1>2, <1>3

(* The queue a reference's record names, and the place its iterator has.    *)
QueueOf(b, r) == b.levels[b.orders_[r].side][b.orders_[r].price].orders
PlaceOf(b, r) == PositionIn(QueueOf(b, r), b.orders_[r].position)

(* The iterator recorded for a reference finds that reference's node. *)
LEMMA PositionFacts ==
  ASSUME NEW b, BookInv(b), NEW r \in DOMAIN b.orders_
  PROVE  /\ b.orders_[r].side \in Side
         /\ b.orders_[r].price \in DOMAIN b.levels[b.orders_[r].side]
         /\ PlaceOf(b, r) \in DOMAIN QueueOf(b, r)
         /\ QueueOf(b, r)[PlaceOf(b, r)].node = b.orders_[r].position
         /\ QueueOf(b, r)[PlaceOf(b, r)].order_reference = r
  <1> DEFINE at == b.orders_[r]
             q  == QueueOf(b, r)
             k  == PlaceOf(b, r)
  <1>1. at.side \in Side
    BY DEF BookInv, IsBook, IsMapOf, OrderLocation
  <1>2. at.price \in DOMAIN b.levels[at.side]
    BY DEF BookInv, PositionsLive
  <1>3. PICK i \in DOMAIN q : q[i].node = at.position /\ q[i].order_reference = r
    BY DEF BookInv, PositionsLive, QueueOf
  <1>4. k \in DOMAIN q /\ q[k].node = at.position
    BY <1>3 DEF PlaceOf, PositionIn
  <1>5. Slot(b, at.side, at.price, k) /\ Slot(b, at.side, at.price, i)
    BY <1>2, <1>3, <1>4 DEF Slot, QueueOf
  <1>6. OrderAt(b, at.side, at.price, k).node = OrderAt(b, at.side, at.price, i).node
    BY <1>3, <1>4 DEF OrderAt, QueueOf
  <1>7. k = i
    <2>1. NodesUnique(b)
      BY DEF BookInv
    <2> HIDE DEF at, k
    <2> QED
      BY <1>1, <1>5, <1>6, <2>1, SameSlot
  <1> QED
    BY <1>1, <1>2, <1>3, <1>4, <1>7

(* Unsigned subtraction stays in its width. *)
LEMMA SubtractFacts ==
  ASSUME NEW x \in Shares, NEW t \in Total, NEW removed \in Shares
  PROVE  (x - removed) % ShareMod \in Shares /\ (t - removed) % TotalMod \in Total
  <1>1. x - removed \in Int /\ t - removed \in Int
    BY DEF Shares, Total
  <1> QED
    BY <1>1, ModFacts, WidthAssumption DEF Shares, Total

(* What rests under a reference, what a message takes from it, and the      *)
(* total of its level.                                                      *)
RestingShares(b, r) == QueueOf(b, r)[PlaceOf(b, r)].shares
Removed(b, r, shares_removed, remove_all) ==
  IF remove_all THEN RestingShares(b, r) ELSE shares_removed
TotalOf(b, r) == b.levels[b.orders_[r].side][b.orders_[r].price].total_shares

(* What a reduction leaves of the book, in terms of the one shrunk queue. *)
Reduced(b, at, reference, total, gone, nq, c) ==
  /\ IsBook(c)
  /\ \A s \in Side \ {at.side} : c.levels[s] = b.levels[s]
  /\ DOMAIN c.levels[at.side] = IF nq = <<>> THEN DOMAIN b.levels[at.side] \ {at.price}
                                             ELSE DOMAIN b.levels[at.side]
  /\ nq # <<>> => c.levels[at.side][at.price] = [orders |-> nq, total_shares |-> total]
  /\ \A p \in DOMAIN b.levels[at.side] \ {at.price} :
       c.levels[at.side][p] = b.levels[at.side][p]
  /\ c.orders_ = IF gone THEN MapErase(b.orders_, reference) ELSE b.orders_

(* What reduce_or_remove_in makes of the level and the index it touches. *)
LEMMA ReduceShape ==
  ASSUME NEW b, BookInv(b), NEW r \in DOMAIN b.orders_,
         NEW shares_removed \in Shares, NEW remove_all \in BOOLEAN
  PROVE  \E left \in Shares, gone \in BOOLEAN, total \in Total :
           /\ Reduced(b, b.orders_[r], r, total, gone,
                      ShrunkQueue(QueueOf(b, r), PlaceOf(b, r), left, gone),
                      reduce_or_remove_in(b, b.orders_[r], r, shares_removed, remove_all))
           /\ gone = (remove_all \/ left = 0)
           /\ left = (RestingShares(b, r) - Removed(b, r, shares_removed, remove_all)) % ShareMod
           /\ total = (TotalOf(b, r) - Removed(b, r, shares_removed, remove_all)) % TotalMod
  <1> DEFINE at      == b.orders_[r]
             q       == QueueOf(b, r)
             k       == PlaceOf(b, r)
             old     == b.levels[at.side]
             index   == b.orders_
             x       == q[k].shares
             t       == old[at.price].total_shares
             removed == IF remove_all THEN x ELSE shares_removed
             left    == (x - removed) % ShareMod
             total   == (t - removed) % TotalMod
             gone    == remove_all \/ left = 0
             nq      == ShrunkQueue(q, k, left, gone)
             level   == [orders |-> nq, total_shares |-> total]
             side    == IF nq = <<>> THEN MapErase(old, at.price) ELSE MapPut(old, at.price, level)
             c       == reduce_or_remove_in(b, at, r, shares_removed, remove_all)
  <1>1. IsBook(b)
    BY DEF BookInv
  <1>2. at.side \in Side /\ at.price \in DOMAIN old /\ k \in DOMAIN q
    BY PositionFacts
  <1>3. q \in Seq(RestingOrder) /\ t \in Total /\ at.price \in Price
    BY <1>1, <1>2, LevelFacts DEF QueueOf
  <1>4. c = [levels  |-> [b.levels EXCEPT ![at.side] = side],
             orders_ |-> IF gone THEN MapErase(index, r) ELSE index]
    BY DEF reduce_or_remove_in, ShrunkQueue, QueueOf, PlaceOf
  <1>5. gone \in BOOLEAN
    OBVIOUS
  <1> HIDE DEF q, k, t
  <1>6. k \in 1 .. Len(q) /\ q[k] \in RestingOrder
    BY <1>2, <1>3
  <1>7. x \in Shares
    BY <1>6 DEF RestingOrder
  <1> HIDE DEF x
  <1>8. removed \in Shares
    BY <1>7
  <1> HIDE DEF removed
  <1>9. left \in Shares /\ total \in Total
    BY <1>3, <1>7, <1>8, SubtractFacts
  <1> HIDE DEF left, total, gone, c
  <1>10. nq \in Seq(RestingOrder)
    BY <1>3, <1>6, <1>9, <1>5, ShrunkQueueFacts
  <1> HIDE DEF nq
  <1>11. level \in PriceLevel /\ level.orders = nq
    BY <1>9, <1>10 DEF PriceLevel
  <1>12. IsMapOf(old, Price, PriceLevel) /\ IsMapOf(index, OrderRef, OrderLocation)
    BY <1>1, <1>2 DEF IsBook
  <1>13. at.price \in DOMAIN old
    BY <1>2
  <1> DEFINE price == at.price
  <1>14. price \in Price /\ price \in DOMAIN old
    BY <1>3, <1>13
  <1> HIDE DEF level, old, index, price
  <1>15. /\ IsMapOf(MapErase(old, price), Price, PriceLevel)
         /\ DOMAIN MapErase(old, price) = DOMAIN old \ {price}
         /\ \A p \in DOMAIN old \ {price} : MapErase(old, price)[p] = old[p]
    BY <1>12, <1>14 DEF MapErase, Restrict, IsMapOf
  <1>16. /\ IsMapOf(MapPut(old, price, level), Price, PriceLevel)
         /\ DOMAIN MapPut(old, price, level) = DOMAIN old
         /\ MapPut(old, price, level)[price] = level
         /\ \A p \in DOMAIN old \ {price} : MapPut(old, price, level)[p] = old[p]
    BY <1>11, <1>12, <1>14 DEF MapPut, IsMapOf
  <1>17. /\ IsMapOf(side, Price, PriceLevel)
         /\ DOMAIN side = IF nq = <<>> THEN DOMAIN old \ {price} ELSE DOMAIN old
         /\ nq # <<>> => side[price] = level
         /\ \A p \in DOMAIN old \ {price} : side[p] = old[p]
    BY <1>11, <1>15, <1>16 DEF price
  <1>18. IsMapOf(MapErase(index, r), OrderRef, OrderLocation)
    BY <1>12 DEF MapErase, Restrict, IsMapOf
  <1> HIDE DEF side
  <1>19. c.levels = [s \in Side |-> IF s = at.side THEN side ELSE b.levels[s]]
    BY <1>1, <1>4 DEF IsBook
  <1>20. c.orders_ = IF gone THEN MapErase(index, r) ELSE index
    BY <1>4
  <1>21. IsBook(c)
    <2>1. c = [levels |-> c.levels, orders_ |-> c.orders_]
      BY <1>4
    <2>2. \A s \in Side : IsMapOf(c.levels[s], Price, PriceLevel)
      BY <1>1, <1>17, <1>19 DEF IsBook
    <2>3. IsMapOf(c.orders_, OrderRef, OrderLocation)
      BY <1>12, <1>18, <1>20
    <2> QED
      BY <1>19, <2>1, <2>2, <2>3 DEF IsBook
  <1>22. Reduced(b, at, r, total, gone, nq, c)
    BY <1>2, <1>17, <1>19, <1>20, <1>21 DEF Reduced, old, index, price, level
  <1>23. /\ gone = (remove_all \/ left = 0)
         /\ left = (RestingShares(b, r) - Removed(b, r, shares_removed, remove_all)) % ShareMod
         /\ total = (TotalOf(b, r) - Removed(b, r, shares_removed, remove_all)) % TotalMod
    BY DEF gone, left, total, removed, x, t, q, k, old, RestingShares, Removed, TotalOf
  <1> QED
    BY <1>9, <1>5, <1>22, <1>23 DEF nq, c, q, k

(* A queue that a reduction does not touch.                                 *)
SlotsKept(b, c, s, p) ==
  \A i : /\ Slot(c, s, p, i) <=> Slot(b, s, p, i)
         /\ Slot(b, s, p, i) => OrderAt(c, s, p, i) = OrderAt(b, s, p, i)

(* The queue it shrinks, at place k.                                        *)
SlotsShrunk(b, c, s, p, gone, k, left) ==
  /\ \A i : Slot(c, s, p, i) =>
       /\ Slot(b, s, p, From(gone, k, i))
       /\ OrderAt(c, s, p, i).node = OrderAt(b, s, p, From(gone, k, i)).node
       /\ OrderAt(c, s, p, i).order_reference
            = OrderAt(b, s, p, From(gone, k, i)).order_reference
       /\ OrderAt(c, s, p, i).shares
            = IF ~gone /\ i = k THEN left ELSE OrderAt(b, s, p, From(gone, k, i)).shares
  /\ \A i, j : Slot(c, s, p, i) /\ Slot(c, s, p, j) /\ From(gone, k, i) = From(gone, k, j)
               => i = j
  /\ \A j : Slot(b, s, p, j) /\ ~(gone /\ j = k)
            => \E i : Slot(c, s, p, i) /\ From(gone, k, i) = j

(* After a reduction every place of the book comes from one before it. *)
LEMMA ReducedSlots ==
  ASSUME NEW b, BookInv(b), NEW r \in DOMAIN b.orders_,
         NEW left \in Shares, NEW gone \in BOOLEAN, NEW total, NEW c,
         Reduced(b, b.orders_[r], r, total, gone,
                 ShrunkQueue(QueueOf(b, r), PlaceOf(b, r), left, gone), c)
  PROVE  /\ SlotsShrunk(b, c, b.orders_[r].side, b.orders_[r].price, gone, PlaceOf(b, r), left)
         /\ \A s \in Side : \A p :
              ~(s = b.orders_[r].side /\ p = b.orders_[r].price) => SlotsKept(b, c, s, p)
         /\ NoEmptyLevel(c)
  <1> DEFINE at == b.orders_[r]
             q  == QueueOf(b, r)
             k  == PlaceOf(b, r)
             nq == ShrunkQueue(q, k, left, gone)
  <1>1. /\ \A u \in Side \ {at.side} : c.levels[u] = b.levels[u]
        /\ DOMAIN c.levels[at.side] = IF nq = <<>> THEN DOMAIN b.levels[at.side] \ {at.price}
                                                   ELSE DOMAIN b.levels[at.side]
        /\ nq # <<>> => c.levels[at.side][at.price].orders = nq
        /\ \A x \in DOMAIN b.levels[at.side] \ {at.price} :
             c.levels[at.side][x] = b.levels[at.side][x]
    <2>1. nq # <<>> => c.levels[at.side][at.price] = [orders |-> nq, total_shares |-> total]
      BY Zenon DEF Reduced
    <2>2. /\ \A u \in Side \ {at.side} : c.levels[u] = b.levels[u]
          /\ DOMAIN c.levels[at.side] = IF nq = <<>> THEN DOMAIN b.levels[at.side] \ {at.price}
                                                     ELSE DOMAIN b.levels[at.side]
          /\ \A x \in DOMAIN b.levels[at.side] \ {at.price} :
               c.levels[at.side][x] = b.levels[at.side][x]
      BY Zenon DEF Reduced
    <2> HIDE DEF nq, at
    <2> QED
      BY <2>1, <2>2
  <1>2. at.side \in Side /\ at.price \in DOMAIN b.levels[at.side] /\ k \in DOMAIN q
    BY PositionFacts
  <1>3. q = b.levels[at.side][at.price].orders
    BY DEF QueueOf
  <1>4. q \in Seq(RestingOrder) /\ k \in 1 .. Len(q)
    <2>1. IsBook(b)
      BY DEF BookInv
    <2>2. q \in Seq(RestingOrder)
      BY <1>2, <2>1, LevelFacts DEF QueueOf
    <2> QED
      BY <1>2, <2>2
  <1>5. NoEmptyLevel(b)
    BY DEF BookInv
  <1> DEFINE s0 == at.side
             p0 == at.price
  <1> HIDE DEF at, q, k
  <1>6. /\ nq \in Seq(RestingOrder)
        /\ \A i \in DOMAIN nq :
              /\ From(gone, k, i) \in DOMAIN q
              /\ nq[i].node = q[From(gone, k, i)].node
              /\ nq[i].order_reference = q[From(gone, k, i)].order_reference
              /\ nq[i].shares = IF ~gone /\ i = k THEN left ELSE q[From(gone, k, i)].shares
        /\ \A i, j \in DOMAIN nq : From(gone, k, i) = From(gone, k, j) => i = j
        /\ \A i \in DOMAIN q : ~(gone /\ i = k) => \E j \in DOMAIN nq : From(gone, k, j) = i
    BY <1>4, ShrunkQueueFacts
  <1> HIDE DEF nq
  <1>7. SlotsShrunk(b, c, s0, p0, gone, k, left)
    <2>1. \A i : Slot(c, s0, p0, i) <=> i \in DOMAIN nq
      <3>1. CASE nq = <<>>
        BY <1>1, <3>1 DEF Slot
      <3>2. CASE nq # <<>>
        BY <1>1, <1>2, <3>2 DEF Slot
      <3> QED
        BY <3>1, <3>2
    <2>2. \A i : i \in DOMAIN nq => OrderAt(c, s0, p0, i) = nq[i]
      BY <1>1 DEF OrderAt
    <2>3. \A i : (Slot(b, s0, p0, i) <=> i \in DOMAIN q) /\ OrderAt(b, s0, p0, i) = q[i]
      BY <1>2, <1>3 DEF Slot, OrderAt
    <2> HIDE DEF s0, p0
    <2>4. ASSUME NEW i, Slot(c, s0, p0, i)
          PROVE  /\ Slot(b, s0, p0, From(gone, k, i))
                 /\ OrderAt(c, s0, p0, i).node = OrderAt(b, s0, p0, From(gone, k, i)).node
                 /\ OrderAt(c, s0, p0, i).order_reference
                      = OrderAt(b, s0, p0, From(gone, k, i)).order_reference
                 /\ OrderAt(c, s0, p0, i).shares
                      = IF ~gone /\ i = k THEN left
                        ELSE OrderAt(b, s0, p0, From(gone, k, i)).shares
      BY <1>6, <2>1, <2>2, <2>3, <2>4
    <2>5. \A i, j : /\ Slot(c, s0, p0, i)
                    /\ Slot(c, s0, p0, j)
                    /\ From(gone, k, i) = From(gone, k, j)
                    => i = j
      BY <1>6, <2>1
    <2>6. \A j : Slot(b, s0, p0, j) /\ ~(gone /\ j = k)
                 => \E i : Slot(c, s0, p0, i) /\ From(gone, k, i) = j
      BY <1>6, <2>1, <2>3
    <2> QED
      BY <2>4, <2>5, <2>6 DEF SlotsShrunk
  <1>8. ASSUME NEW s \in Side, NEW p, ~(s = s0 /\ p = p0)
        PROVE  /\ p \in DOMAIN c.levels[s] <=> p \in DOMAIN b.levels[s]
               /\ p \in DOMAIN b.levels[s] => c.levels[s][p] = b.levels[s][p]
    <2>1. CASE s = at.side
      BY <1>1, <1>8, <2>1
    <2>2. CASE s # at.side
      BY <1>1, <2>2
    <2> QED
      BY <2>1, <2>2
  <1>9. ASSUME NEW s \in Side, NEW p, ~(s = s0 /\ p = p0)
        PROVE  SlotsKept(b, c, s, p)
    BY <1>8, <1>9 DEF SlotsKept, Slot, OrderAt
  <1>10. NoEmptyLevel(c)
    <2>1. SUFFICES ASSUME NEW s \in Side, NEW p \in DOMAIN c.levels[s]
                   PROVE  c.levels[s][p].orders # <<>>
      BY DEF NoEmptyLevel
    <2>2. CASE s = s0 /\ p = p0
      BY <1>1, <2>1, <2>2
    <2>3. CASE ~(s = s0 /\ p = p0)
      BY <1>5, <1>8, <2>1, <2>3 DEF NoEmptyLevel
    <2> QED
      BY <2>2, <2>3
  <1> QED
    BY <1>7, <1>9, <1>10 DEF at, k

(* A reduced book keeps the invariant: its other iterators still hold. *)
LEMMA ReducedPreserves ==
  ASSUME NEW b, BookInv(b), NEW r \in DOMAIN b.orders_,
         NEW left \in Shares, NEW gone \in BOOLEAN, NEW total, NEW c,
         Reduced(b, b.orders_[r], r, total, gone,
                 ShrunkQueue(QueueOf(b, r), PlaceOf(b, r), left, gone), c)
  PROVE  BookInv(c)
  <1> DEFINE k  == PlaceOf(b, r)
             s0 == b.orders_[r].side
             p0 == b.orders_[r].price
             Here(s, p) == s = s0 /\ p = p0
             \* Where an order of c was in b.
             Was(s, p, i) == IF Here(s, p) THEN From(gone, k, i) ELSE i
  <1>1. IsBook(c) /\ c.orders_ = IF gone THEN MapErase(b.orders_, r) ELSE b.orders_
    BY DEF Reduced
  <1>2. IsBook(b) /\ NodesUnique(b) /\ PositionsLive(b)
    BY DEF BookInv
  <1>3. /\ SlotsShrunk(b, c, s0, p0, gone, k, left)
        /\ \A s \in Side : \A p : ~Here(s, p) => SlotsKept(b, c, s, p)
        /\ NoEmptyLevel(c)
    BY ReducedSlots
  <1>4. OrderAt(b, s0, p0, k).order_reference = r
    BY PositionFacts DEF OrderAt, QueueOf
  <1> HIDE DEF s0, p0, k
  <1>5. ASSUME NEW s \in Side, NEW p, NEW i, Slot(c, s, p, i)
        PROVE  /\ Slot(b, s, p, Was(s, p, i))
               /\ OrderAt(c, s, p, i).node = OrderAt(b, s, p, Was(s, p, i)).node
    <2>1. CASE Here(s, p)
      BY <1>3, <1>5, <2>1 DEF SlotsShrunk
    <2>2. CASE ~Here(s, p)
      BY <1>3, <1>5, <2>2 DEF SlotsKept
    <2> QED
      BY <2>1, <2>2
  <1>6. ASSUME NEW s \in Side, NEW p, NEW i, NEW j, Slot(c, s, p, i), Slot(c, s, p, j),
               Was(s, p, i) = Was(s, p, j)
        PROVE  i = j
    <2>1. CASE Here(s, p)
      BY <1>3, <1>6, <2>1 DEF SlotsShrunk
    <2>2. CASE ~Here(s, p)
      BY <1>6, <2>2
    <2> QED
      BY <2>1, <2>2
  <1>7. NodesUnique(c)
    <2> HIDE DEF Was
    <2>1. ASSUME NEW s \in Side, NEW t \in Side, NEW p, NEW q, NEW i, NEW j,
                 Slot(c, s, p, i), Slot(c, t, q, j),
                 OrderAt(c, s, p, i).node = OrderAt(c, t, q, j).node
          PROVE  s = t /\ p = q /\ i = j
      <3>1. /\ Slot(b, s, p, Was(s, p, i))
            /\ Slot(b, t, q, Was(t, q, j))
            /\ OrderAt(b, s, p, Was(s, p, i)).node = OrderAt(b, t, q, Was(t, q, j)).node
        BY <1>5, <2>1
      <3>2. s = t /\ p = q /\ Was(s, p, i) = Was(t, q, j)
        BY <1>2, <3>1, UniqueSlots
      <3> QED
        BY <1>6, <2>1, <3>2
    <2> QED
      BY <2>1, UniqueSlots
  <1>8. PositionsLive(c)
    <2>1. SUFFICES ASSUME NEW x \in DOMAIN c.orders_
                   PROVE  \E i : /\ Slot(c, c.orders_[x].side, c.orders_[x].price, i)
                                 /\ OrderAt(c, c.orders_[x].side, c.orders_[x].price, i).node
                                      = c.orders_[x].position
                                 /\ OrderAt(c, c.orders_[x].side, c.orders_[x].price, i)
                                      .order_reference = x
      BY LiveSlots
    <2>2. x \in DOMAIN b.orders_ /\ c.orders_[x] = b.orders_[x] /\ (gone => x # r)
      <3>1. CASE gone
        BY <1>1, <2>1, <3>1 DEF MapErase, Restrict
      <3>2. CASE ~gone
        BY <1>1, <2>1, <3>2
      <3> QED
        BY <3>1, <3>2
    <2> DEFINE s == b.orders_[x].side
               p == b.orders_[x].price
    <2>3. s \in Side
      BY <1>2, <2>2 DEF IsBook, IsMapOf, OrderLocation
    <2>4. PICK j : /\ Slot(b, s, p, j)
                   /\ OrderAt(b, s, p, j).node = b.orders_[x].position
                   /\ OrderAt(b, s, p, j).order_reference = x
      BY <1>2, <2>2, LiveSlots
    <2>5. \E i : /\ Slot(c, s, p, i)
                 /\ OrderAt(c, s, p, i).node = OrderAt(b, s, p, j).node
                 /\ OrderAt(c, s, p, i).order_reference = OrderAt(b, s, p, j).order_reference
      <3> HIDE DEF s, p
      <3>1. CASE Here(s, p)
        <4>1. ~(gone /\ j = k)
          BY <1>4, <2>2, <2>4, <3>1
        <4>2. PICK i : Slot(c, s, p, i) /\ From(gone, k, i) = j
          BY <1>3, <2>4, <3>1, <4>1 DEF SlotsShrunk
        <4> QED
          BY <1>3, <3>1, <4>2 DEF SlotsShrunk
      <3>2. CASE ~Here(s, p)
        BY <1>3, <2>3, <2>4, <3>2 DEF SlotsKept
      <3> QED
        BY <3>1, <3>2
    <2> QED
      BY <2>2, <2>4, <2>5
  <1> QED
    BY <1>1, <1>3, <1>7, <1>8 DEF BookInv

(* reduce_or_remove keeps the book's invariant, for any reference. *)
LEMMA ReducePreserves ==
  ASSUME NEW b, BookInv(b), NEW r \in OrderRef,
         NEW shares_removed \in Shares, NEW remove_all \in BOOLEAN
  PROVE  BookInv(reduce_or_remove(b, r, shares_removed, remove_all))
  <1>1. CASE r \in DOMAIN b.orders_
    <2> DEFINE c == reduce_or_remove_in(b, b.orders_[r], r, shares_removed, remove_all)
    <2>1. PICK left \in Shares, gone \in BOOLEAN, total \in Total :
            Reduced(b, b.orders_[r], r, total, gone,
                    ShrunkQueue(QueueOf(b, r), PlaceOf(b, r), left, gone), c)
      BY <1>1, ReduceShape
    <2> HIDE DEF c
    <2>2. BookInv(c)
      BY <1>1, <2>1, ReducedPreserves
    <2> QED
      BY <1>1, <2>2 DEF c, reduce_or_remove
  <1>2. CASE r \notin DOMAIN b.orders_
    BY <1>2 DEF reduce_or_remove
  <1> QED
    BY <1>1, <1>2

(* What is taken from an order in a queue is taken from the sum. *)
LEMMA ShrunkSum ==
  ASSUME NEW q \in Seq(RestingOrder), NEW k \in 1 .. Len(q), NEW left \in Shares,
         NEW gone \in BOOLEAN, gone => left = 0
  PROVE  SumShares(ShrunkQueue(q, k, left, gone)) = SumShares(q) - (q[k].shares - left)
  <1>1. SumShares(q) \in Nat /\ q[k].shares \in Nat /\ left \in Nat /\ q[k] \in RestingOrder
    <2>1. q[k] \in RestingOrder
      OBVIOUS
    <2>2. SumShares(q) \in Nat
      BY <2>1, SumAppend
    <2>3. q[k].shares \in Nat /\ left \in Nat
      BY <2>1 DEF RestingOrder, Shares
    <2> QED
      BY <2>1, <2>2, <2>3
  <1>2. CASE gone
    BY <1>1, <1>2, SumRemove DEF ShrunkQueue
  <1>3. CASE ~gone
    <2> DEFINE shrunk == [q[k] EXCEPT !.shares = left]
               nq     == ReplaceAt(q, k, shrunk)
    <2>1. shrunk \in RestingOrder /\ shrunk.shares = left
      BY <1>1 DEF RestingOrder
    <2> HIDE DEF shrunk
    <2>2. /\ nq \in Seq(RestingOrder)
          /\ Len(nq) = Len(q)
          /\ nq[k] = shrunk
          /\ \A i \in 1 .. Len(q) : i # k => nq[i] = q[i]
      BY <2>1 DEF ReplaceAt
    <2>3. ShrunkQueue(q, k, left, gone) = nq
      BY <1>3 DEF ShrunkQueue, shrunk
    <2> HIDE DEF nq
    <2>4. SumShares(nq) = SumShares(q) - q[k].shares + nq[k].shares
      BY <2>2, SumReplace
    <2> QED
      BY <1>1, <2>1, <2>2, <2>3, <2>4
  <1> QED
    BY <1>2, <1>3

(* While no more is taken than rests, neither count wraps, and the totals   *)
(* stay exact. *)
LEMMA ReduceTotals ==
  ASSUME NEW b, BookInv(b), TotalsExact(b), NEW r \in OrderRef,
         NEW shares_removed \in Shares, NEW remove_all \in BOOLEAN,
         r \in DOMAIN b.orders_ /\ ~remove_all => shares_removed <= RestingShares(b, r)
  PROVE  TotalsExact(reduce_or_remove(b, r, shares_removed, remove_all))
  <1>1. SUFFICES ASSUME r \in DOMAIN b.orders_
                 PROVE  TotalsExact(reduce_or_remove(b, r, shares_removed, remove_all))
    BY DEF reduce_or_remove
  <1> DEFINE c       == reduce_or_remove_in(b, b.orders_[r], r, shares_removed, remove_all)
             at      == b.orders_[r]
             q       == QueueOf(b, r)
             k       == PlaceOf(b, r)
             x       == RestingShares(b, r)
             removed == Removed(b, r, shares_removed, remove_all)
             t       == TotalOf(b, r)
  <1>2. PICK left \in Shares, gone \in BOOLEAN, total \in Total :
          /\ Reduced(b, at, r, total, gone, ShrunkQueue(q, k, left, gone), c)
          /\ gone = (remove_all \/ left = 0)
          /\ left = (x - removed) % ShareMod
          /\ total = (t - removed) % TotalMod
    BY <1>1, ReduceShape
  <1> DEFINE nq == ShrunkQueue(q, k, left, gone)
  <1>3. /\ at.side \in Side
        /\ at.price \in DOMAIN b.levels[at.side]
        /\ q \in Seq(RestingOrder)
        /\ k \in 1 .. Len(q)
        /\ t = SumShares(q) % TotalMod
    <2>1. IsBook(b)
      BY DEF BookInv
    <2>2. at.side \in Side /\ at.price \in DOMAIN b.levels[at.side] /\ k \in DOMAIN q
      BY <1>1, PositionFacts
    <2>3. q \in Seq(RestingOrder)
      BY <2>1, <2>2, LevelFacts DEF QueueOf
    <2>4. t = SumShares(q) % TotalMod
      BY <2>2 DEF TotalsExact, LevelTotalExact, TotalOf, QueueOf
    <2> QED
      BY <2>2, <2>3, <2>4
  <1>4. x = q[k].shares /\ x \in Shares
    <2>1. x = q[k].shares
      BY DEF RestingShares
    <2>2. q[k] \in RestingOrder
      BY <1>3
    <2> QED
      BY <2>1, <2>2 DEF RestingOrder
  <1>5. /\ removed \in Shares
        /\ removed <= x
        /\ remove_all => removed = x
    <2>1. removed = IF remove_all THEN x ELSE shares_removed
      BY DEF Removed
    <2>2. ~remove_all => shares_removed <= x
      BY <1>1
    <2> HIDE DEF removed, x
    <2> QED
      BY <1>4, <2>1, <2>2 DEF Shares
  <1> HIDE DEF c, at, q, k, x, removed, t
  <1>6. left = x - removed /\ (gone => left = 0)
    <2>1. x - removed \in 0 .. ShareMod - 1
      BY <1>4, <1>5, WidthAssumption DEF Shares
    <2>2. \A a \in 0 .. ShareMod - 1 : a % ShareMod = a
      BY WidthAssumption
    <2>3. left = x - removed
      BY <1>2, <2>1, <2>2
    <2> QED
      BY <1>2, <1>4, <1>5, <2>3 DEF Shares
  <1>7. SumShares(nq) = SumShares(q) - removed /\ SumShares(q) \in Nat
    <2>1. SumShares(nq) = SumShares(q) - (x - left)
      BY <1>3, <1>4, <1>6, ShrunkSum
    <2>2. SumShares(q) \in Nat
      <3>1. q[k] \in RestingOrder
        BY <1>3
      <3> QED
        BY <1>3, <3>1, SumAppend
    <2> HIDE DEF nq
    <2> QED
      BY <1>4, <1>5, <1>6, <2>1, <2>2 DEF Shares
  <1>8. total = SumShares(nq) % TotalMod
    <2> HIDE DEF nq
    <2>1. SumShares(q) \in Int /\ -removed \in Int
      BY <1>5, <1>7 DEF Shares
    <2>2. ((SumShares(q) % TotalMod) + (-removed)) % TotalMod
            = (SumShares(q) + (-removed)) % TotalMod
      BY <2>1, ModShift, WidthAssumption
    <2>3. /\ SumShares(q) + (-removed) = SumShares(q) - removed
          /\ (SumShares(q) % TotalMod) + (-removed) = (SumShares(q) % TotalMod) - removed
      BY <1>5, <1>7, WidthAssumption DEF Shares
    <2> QED
      BY <1>2, <1>3, <1>7, <2>2, <2>3
  <1> HIDE DEF nq
  <1>9. ASSUME NEW s \in Side, NEW p \in DOMAIN c.levels[s]
        PROVE  LevelTotalExact(c.levels[s][p])
    <2>1. Reduced(b, at, r, total, gone, nq, c)
      BY <1>2 DEF nq
    <2>2. CASE s = at.side /\ p = at.price
      <3>1. nq # <<>>
        BY <2>1, <2>2, <1>9 DEF Reduced
      <3>2. c.levels[s][p] = [orders |-> nq, total_shares |-> total]
        BY <2>1, <2>2, <3>1 DEF Reduced
      <3> QED
        BY <1>8, <3>2 DEF LevelTotalExact
    <2>3. CASE s = at.side /\ p # at.price
      <3>1. p \in DOMAIN b.levels[s] /\ c.levels[s][p] = b.levels[s][p]
        BY <1>9, <2>1, <2>3 DEF Reduced
      <3> QED
        BY <3>1 DEF TotalsExact
    <2>4. CASE s # at.side
      <3>1. c.levels[s] = b.levels[s]
        BY <2>1, <2>4 DEF Reduced
      <3> QED
        BY <1>9, <3>1 DEF TotalsExact
    <2> QED
      BY <2>2, <2>3, <2>4
  <1>10. TotalsExact(c)
    BY <1>9 DEF TotalsExact
  <1> QED
    BY <1>1, <1>10 DEF reduce_or_remove, c, at

-----------------------------------------------------------------------------
(* The specification *)

IInv ==
  /\ locate_ \in Locate
  /\ BookInv(book)
  /\ stats_ \in [StatNames -> Tally]
  /\ aborted \in BOOLEAN

(* ++stats_.name stays a uint64. *)
LEMMA CountType ==
  ASSUME stats_ \in [StatNames -> Tally], NEW name \in StatNames, Count(name)
  PROVE  stats_' \in [StatNames -> Tally]
  <1>1. (stats_[name] + 1) % TallyMod \in Tally
    <2>1. stats_[name] + 1 \in Int
      BY DEF Tally
    <2> QED
      BY <2>1, ModFacts, WidthAssumption DEF Tally
  <1> QED
    BY <1>1 DEF Count

(* The share count a delete passes is a share count. *)
LEMMA ZeroShares == 0 \in Shares
  BY WidthAssumption DEF Shares

(* on(AddOrder) keeps the inductive invariant. *)
LEMMA AddPreserves ==
  ASSUME IInv, NEW m \in AddOrder, OnAddOrder(m)
  PROVE  IInv'
  <1> USE DEF IInv
  <1> DEFINE side == IF m.side = Buy THEN Buy ELSE Sell
  <1>1. /\ side \in Side
        /\ m.order_reference \in OrderRef
        /\ m.price \in Price
        /\ m.shares \in Shares
    BY DEF AddOrder, Side
  <1>2. PICK node \in FreeNodes(book) :
          book' = insert_order(book, side, m.order_reference, m.price, m.shares, node)
    BY DEF OnAddOrder
  <1> HIDE DEF side
  <1>3. BookInv(book')
    BY <1>1, <1>2, InsertPreserves
  <1>4. stats_' \in [StatNames -> Tally]
    BY CountType DEF OnAddOrder, StatNames
  <1> QED
    BY <1>3, <1>4 DEF OnAddOrder

(* on(OrderExecuted) and on(OrderCancel) keep it, with and without asserts. *)
LEMMA ReduceSharesPreserves ==
  ASSUME IInv, NEW r \in OrderRef, NEW shares_removed \in Shares,
         NEW stat \in StatNames, ReduceShares(r, shares_removed, stat)
  PROVE  IInv'
  <1> USE DEF IInv
  <1>1. CASE /\ aborted' = aborted
             /\ book' = reduce_or_remove(book, r, shares_removed, FALSE)
             /\ Count(stat)
             /\ UNCHANGED locate_
    <2>1. BookInv(book')
      BY <1>1, ReducePreserves
    <2>2. stats_' \in [StatNames -> Tally]
      BY <1>1, CountType
    <2> QED
      BY <1>1, <2>1, <2>2
  <1>2. CASE aborted' = TRUE /\ UNCHANGED <<locate_, book, stats_>>
    BY <1>2
  <1> QED
    BY <1>1, <1>2 DEF ReduceShares, AssertPasses, AssertFails

(* on(OrderDelete) keeps it. *)
LEMMA DeletePreserves ==
  ASSUME IInv, NEW m \in OrderDelete, OnOrderDelete(m)
  PROVE  IInv'
  <1> USE DEF IInv
  <1>1. m.order_reference \in OrderRef
    BY DEF OrderDelete
  <1>2. book' = reduce_or_remove(book, m.order_reference, 0, TRUE)
    BY DEF OnOrderDelete
  <1>3. BookInv(book')
    BY <1>1, <1>2, ZeroShares, ReducePreserves
  <1>4. stats_' \in [StatNames -> Tally]
    BY CountType DEF OnOrderDelete, StatNames
  <1> QED
    BY <1>3, <1>4 DEF OnOrderDelete

(* on(OrderReplace) keeps it: the node it inserts may reuse the address freed. *)
LEMMA ReplacePreserves ==
  ASSUME IInv, NEW m \in OrderReplace, OnOrderReplace(m)
  PROVE  IInv'
  <1> USE DEF IInv
  <1> DEFINE original == m.original_order_reference
             side     == book.orders_[original].side
             without  == reduce_or_remove(book, original, 0, TRUE)
  <1>1. /\ original \in OrderRef
        /\ original \in DOMAIN book.orders_
        /\ m.new_order_reference \in OrderRef
        /\ m.price \in Price
        /\ m.shares \in Shares
    BY DEF OrderReplace, OnOrderReplace
  <1>2. side \in Side
    BY <1>1, PositionFacts
  <1>3. BookInv(without)
    BY <1>1, ZeroShares, ReducePreserves
  <1>4. PICK node \in FreeNodes(without) :
          book' = insert_order(without, side, m.new_order_reference, m.price, m.shares, node)
    BY DEF OnOrderReplace
  <1> HIDE DEF side, without
  <1>5. BookInv(book')
    BY <1>1, <1>2, <1>3, <1>4, InsertPreserves
  <1>6. stats_' \in [StatNames -> Tally]
    BY CountType DEF OnOrderReplace, StatNames
  <1> QED
    BY <1>5, <1>6 DEF OnOrderReplace

(***************************************************************************)
(* The representation OrderBook relies on survives every message: each     *)
(* level is kept only while it has orders, list nodes are distinct, and    *)
(* orders_ records, for every reference, a live node of that reference.    *)
(***************************************************************************)
THEOREM Inductive == Spec => []IInv
  <1>1. Init => IInv
    <2> SUFFICES ASSUME Init PROVE IInv
      OBVIOUS
    <2>1. /\ \A s \in Side : DOMAIN book.levels[s] = {}
          /\ DOMAIN book.orders_ = {}
      BY DEF Init, EmptyBook, EmptyMap
    <2>2. IsBook(book)
      BY DEF Init, EmptyBook, EmptyMap, IsBook, IsMapOf
    <2>3. NoEmptyLevel(book) /\ NodesUnique(book) /\ PositionsLive(book)
      BY <2>1 DEF NoEmptyLevel, NodesUnique, PositionsLive
    <2>4. stats_ \in [StatNames -> Tally]
      BY WidthAssumption DEF Init, Tally
    <2> QED
      BY <2>2, <2>3, <2>4, LocateAssumption DEF Init, IInv, BookInv
  <1>2. IInv /\ [Next]_vars => IInv'
    <2> SUFFICES ASSUME IInv, [Next]_vars PROVE IInv'
      OBVIOUS
    <2>1. ASSUME NEW locate \in Locate, set_locate(locate) PROVE IInv'
      BY <2>1 DEF set_locate, AssertPasses, AssertFails, IInv
    <2>2. ASSUME NEW m \in AddOrder, OnAddOrder(m) PROVE IInv'
      BY <2>2, AddPreserves
    <2>3. ASSUME NEW m \in AddOrderWithMpid, OnAddOrderWithMpid(m) PROVE IInv'
      <3>1. m.order \in AddOrder /\ OnAddOrder(m.order)
        BY <2>3 DEF AddOrderWithMpid, OnAddOrderWithMpid
      <3> QED
        BY <3>1, AddPreserves
    <2>4. ASSUME NEW m \in OrderExecuted, OnOrderExecuted(m) PROVE IInv'
      BY <2>4, ReduceSharesPreserves DEF OrderExecuted, OnOrderExecuted, StatNames
    <2>5. ASSUME NEW m \in OrderExecutedWithPrice, OnOrderExecutedWithPrice(m) PROVE IInv'
      <3>1. m.executed \in OrderExecuted /\ OnOrderExecuted(m.executed)
        BY <2>5 DEF OrderExecutedWithPrice, OnOrderExecutedWithPrice
      <3> QED
        BY <2>4, <3>1
    <2>6. ASSUME NEW m \in OrderCancel, OnOrderCancel(m) PROVE IInv'
      BY <2>6, ReduceSharesPreserves DEF OrderCancel, OnOrderCancel, StatNames
    <2>7. ASSUME NEW m \in OrderDelete, OnOrderDelete(m) PROVE IInv'
      BY <2>7, DeletePreserves
    <2>8. ASSUME NEW m \in OrderReplace, OnOrderReplace(m) PROVE IInv'
      BY <2>8, ReplacePreserves
    <2>9. ASSUME NEW locate \in Locate, OnTradeNonCross(locate) PROVE IInv'
      <3>1. stats_' \in [StatNames -> Tally]
        BY <2>9, CountType DEF OnTradeNonCross, StatNames, IInv
      <3> QED
        BY <2>9, <3>1 DEF OnTradeNonCross, IInv
    <2>10. CASE UNCHANGED vars
      BY <2>10 DEF vars, IInv
    <2> QED
      BY <2>1, <2>2, <2>3, <2>4, <2>5, <2>6, <2>7, <2>8, <2>9, <2>10
      DEF Next, OnUnknownReplace, OnOtherLocate, OnNoBookEffect
  <1> QED
    BY <1>1, <1>2, PTL DEF Spec

(* The containers of OrderBook keep their types, whatever is fed to it. *)
THEOREM Typed == Spec => []TypeOK
  <1>1. IInv => TypeOK
    BY DEF IInv, BookInv, TypeOK
  <1> QED
    BY <1>1, Inductive, PTL

(* For every feed, the iterators that reduce_or_remove_in dereferences and *)
(* erases are live ones, of the reference the message names.               *)
THEOREM NeverDangle == Spec => []IteratorsNeverDangle
  <1>1. IInv => IteratorsNeverDangle
    BY DEF IInv, BookInv, IteratorsNeverDangle
  <1> QED
    BY <1>1, Inductive, PTL

(* For every feed, best_bid and best_ask report prices at which orders     *)
(* rest.                                                                   *)
THEOREM BestRests == Spec => []BestHasOrders
  <1>1. IInv => BestHasOrders
    BY DEF IInv, BookInv, BestHasOrders
  <1> QED
    BY <1>1, Inductive, PTL

-----------------------------------------------------------------------------
(* Totals *)

(* An execution or a cancel that passes the assert keeps the totals exact. *)
LEMMA ReduceSharesTotals ==
  ASSUME IInv, TotalsExact(book), ~NDEBUG, NEW r \in OrderRef, NEW shares_removed \in Shares,
         NEW stat, ReduceShares(r, shares_removed, stat)
  PROVE  TotalsExact(book')
  <1>1. CASE /\ ReductionAsserts(book, r, shares_removed)
             /\ book' = reduce_or_remove(book, r, shares_removed, FALSE)
    <2>1. r \in DOMAIN book.orders_ => shares_removed <= RestingShares(book, r)
      BY <1>1 DEF ReductionAsserts, RestingShares, QueueOf, PlaceOf
    <2>2. BookInv(book)
      BY DEF IInv
    <2>3. TotalsExact(reduce_or_remove(book, r, shares_removed, FALSE))
      BY <2>1, <2>2, ReduceTotals
    <2> QED
      BY <1>1, <2>3
  <1>2. CASE book' = book
    BY <1>2
  <1> QED
    BY <1>1, <1>2 DEF ReduceShares, AssertPasses, AssertFails

(* An add keeps them exact. *)
LEMMA AddTotals ==
  ASSUME IInv, TotalsExact(book), NEW m \in AddOrder, OnAddOrder(m)
  PROVE  TotalsExact(book')
  <1> DEFINE side == IF m.side = Buy THEN Buy ELSE Sell
  <1>1. /\ side \in Side
        /\ m.order_reference \in OrderRef
        /\ m.price \in Price
        /\ m.shares \in Shares
    BY DEF AddOrder, Side
  <1>2. PICK node \in FreeNodes(book) :
          book' = insert_order(book, side, m.order_reference, m.price, m.shares, node)
    BY DEF OnAddOrder
  <1> HIDE DEF side
  <1>3. IsBook(book) /\ node \in Node
    BY FreeSlots DEF IInv, BookInv
  <1> QED
    BY <1>1, <1>2, <1>3, InsertTotals

(* A delete removes what rests, so it needs no assert. *)
LEMMA DeleteTotals ==
  ASSUME IInv, TotalsExact(book), NEW r \in OrderRef
  PROVE  TotalsExact(reduce_or_remove(book, r, 0, TRUE))
  <1>1. BookInv(book)
    BY DEF IInv
  <1> QED
    BY <1>1, ZeroShares, ReduceTotals

(* A replace is a delete and an insertion. *)
LEMMA ReplaceTotals ==
  ASSUME IInv, TotalsExact(book), NEW m \in OrderReplace, OnOrderReplace(m)
  PROVE  TotalsExact(book')
  <1> DEFINE original == m.original_order_reference
             side     == book.orders_[original].side
             without  == reduce_or_remove(book, original, 0, TRUE)
  <1>1. /\ original \in OrderRef
        /\ original \in DOMAIN book.orders_
        /\ m.new_order_reference \in OrderRef
        /\ m.price \in Price
        /\ m.shares \in Shares
    BY DEF OrderReplace, OnOrderReplace
  <1>2. BookInv(book)
    BY DEF IInv
  <1>3. side \in Side
    BY <1>1, <1>2, PositionFacts
  <1>4. BookInv(without) /\ TotalsExact(without)
    BY <1>1, <1>2, ZeroShares, ReducePreserves, DeleteTotals
  <1>5. PICK node \in FreeNodes(without) :
          book' = insert_order(without, side, m.new_order_reference, m.price, m.shares, node)
    BY DEF OnOrderReplace
  <1> HIDE DEF side, without
  <1>6. IsBook(without) /\ node \in Node
    BY <1>4, FreeSlots DEF BookInv
  <1> QED
    BY <1>1, <1>3, <1>4, <1>5, <1>6, InsertTotals

(***************************************************************************)
(* In a build with asserts, after every message of every feed, the total a *)
(* level carries is the sum of its queue: the assert that no more is       *)
(* removed than rests is all that reduce_or_remove_in needs for it.        *)
(***************************************************************************)
THEOREM TotalsKept == Spec => []AssertsKeepTotals
  <1>1. Init => AssertsKeepTotals
    BY DEF Init, EmptyBook, EmptyMap, AssertsKeepTotals, TotalsExact
  <1>2. IInv /\ AssertsKeepTotals /\ [Next]_vars => AssertsKeepTotals'
    <2> SUFFICES ASSUME IInv, ~NDEBUG, TotalsExact(book), [Next]_vars
                 PROVE  TotalsExact(book')
      BY DEF AssertsKeepTotals
    <2>1. ASSUME NEW m \in AddOrder, OnAddOrder(m) PROVE TotalsExact(book')
      BY <2>1, AddTotals
    <2>2. ASSUME NEW m \in AddOrderWithMpid, OnAddOrderWithMpid(m) PROVE TotalsExact(book')
      <3>1. m.order \in AddOrder /\ OnAddOrder(m.order)
        BY <2>2 DEF AddOrderWithMpid, OnAddOrderWithMpid
      <3> QED
        BY <3>1, AddTotals
    <2>3. ASSUME NEW m \in OrderExecuted, OnOrderExecuted(m) PROVE TotalsExact(book')
      BY <2>3, ReduceSharesTotals DEF OrderExecuted, OnOrderExecuted
    <2>4. ASSUME NEW m \in OrderExecutedWithPrice, OnOrderExecutedWithPrice(m)
          PROVE  TotalsExact(book')
      <3>1. m.executed \in OrderExecuted /\ OnOrderExecuted(m.executed)
        BY <2>4 DEF OrderExecutedWithPrice, OnOrderExecutedWithPrice
      <3> QED
        BY <2>3, <3>1
    <2>5. ASSUME NEW m \in OrderCancel, OnOrderCancel(m) PROVE TotalsExact(book')
      BY <2>5, ReduceSharesTotals DEF OrderCancel, OnOrderCancel
    <2>6. ASSUME NEW m \in OrderDelete, OnOrderDelete(m) PROVE TotalsExact(book')
      BY <2>6, DeleteTotals DEF OrderDelete, OnOrderDelete
    <2>7. ASSUME NEW m \in OrderReplace, OnOrderReplace(m) PROVE TotalsExact(book')
      BY <2>7, ReplaceTotals
    <2>8. CASE book' = book
      BY <2>8
    <2>9. ASSUME NEW locate \in Locate, set_locate(locate) \/ OnTradeNonCross(locate)
          PROVE  book' = book
      BY <2>9 DEF set_locate, OnTradeNonCross, AssertFails
    <2> QED
      BY <2>1, <2>2, <2>3, <2>4, <2>5, <2>6, <2>7, <2>8, <2>9
      DEF Next, OnUnknownReplace, OnOtherLocate, OnNoBookEffect, vars
  <1> QED
    BY <1>1, <1>2, Inductive, PTL DEF Spec

-----------------------------------------------------------------------------
(***************************************************************************)
(* What OrderBook::check_rep() decides, for every book whose list nodes    *)
(* are distinct: it walks the queues and compares a count with the size of *)
(* orders_, and that is enough to know that no iterator in orders_ dangles.*)
(***************************************************************************)

(* The containers of a process hold finitely many things.                   *)
FiniteBook(b) ==
  /\ IsFiniteSet(DOMAIN b.orders_)
  /\ \A s \in Side : IsFiniteSet(DOMAIN b.levels[s])

(* Every queued order is indexed under its reference, as being where it is. *)
Indexed(b) ==
  \A s \in Side : \A p, i : Slot(b, s, p, i) =>
    /\ OrderAt(b, s, p, i).order_reference \in DOMAIN b.orders_
    /\ b.orders_[OrderAt(b, s, p, i).order_reference]
         = [side |-> s, price |-> p, position |-> OrderAt(b, s, p, i).node]

(* The references queued on one side at the prices in P.                    *)
QueuedAt(b, s, P) ==
  {r \in DOMAIN b.orders_ :
     \E p \in P : \E i : Slot(b, s, p, i) /\ OrderAt(b, s, p, i).order_reference = r}

-----------------------------------------------------------------------------
(* Where a queued reference is, its index entry says. *)
LEMMA IndexedFacts ==
  ASSUME NEW b, Indexed(b), NEW s \in Side, NEW P, NEW r \in QueuedAt(b, s, P)
  PROVE  /\ r \in DOMAIN b.orders_
         /\ b.orders_[r].side = s
         /\ b.orders_[r].price \in P
  <1>1. PICK p \in P : \E i : Slot(b, s, p, i) /\ OrderAt(b, s, p, i).order_reference = r
    BY DEF QueuedAt
  <1>2. PICK i : Slot(b, s, p, i) /\ OrderAt(b, s, p, i).order_reference = r
    BY <1>1
  <1>3. b.orders_[r] = [side |-> s, price |-> p, position |-> OrderAt(b, s, p, i).node]
    BY <1>2 DEF Indexed
  <1> QED
    BY <1>3 DEF QueuedAt

(* A queue holds as many references as it has nodes. *)
LEMMA QueueCount ==
  ASSUME NEW b, IsBook(b), Indexed(b), NodesUnique(b),
         NEW s \in Side, NEW p \in DOMAIN b.levels[s]
  PROVE  /\ IsFiniteSet(QueuedAt(b, s, {p}))
         /\ Cardinality(QueuedAt(b, s, {p})) = Len(b.levels[s][p].orders)
  <1> DEFINE q == b.levels[s][p].orders
             n == Len(q)
             A == QueuedAt(b, s, {p})
             f == [i \in 1 .. n |-> q[i].order_reference]
  <1>1. n \in Nat /\ DOMAIN q = 1 .. n
    <2>1. q \in Seq(RestingOrder)
      BY LevelFacts
    <2> HIDE DEF q
    <2> QED
      BY <2>1
  <1>2. \A i : Slot(b, s, p, i) <=> i \in 1 .. n
    BY <1>1 DEF Slot
  <1>3. \A i : OrderAt(b, s, p, i) = q[i]
    BY DEF OrderAt
  <1> HIDE DEF q, n
  <1>4. f \in [1 .. n -> A]
    <2>1. ASSUME NEW i \in 1 .. n PROVE q[i].order_reference \in A
      <3>1. Slot(b, s, p, i) /\ OrderAt(b, s, p, i).order_reference = q[i].order_reference
        BY <1>2, <1>3
      <3>2. q[i].order_reference \in DOMAIN b.orders_
        BY <3>1 DEF Indexed
      <3> QED
        BY <3>1, <3>2 DEF QueuedAt
    <2> HIDE DEF A
    <2> QED
      BY <2>1
  <1>5. ASSUME NEW i \in 1 .. n, NEW j \in 1 .. n, f[i] = f[j]
        PROVE  i = j
    <2>1. /\ b.orders_[f[i]] = [side |-> s, price |-> p, position |-> q[i].node]
          /\ b.orders_[f[j]] = [side |-> s, price |-> p, position |-> q[j].node]
      BY <1>2, <1>3 DEF Indexed
    <2>2. q[i].node = q[j].node
      <3>1. b.orders_[f[i]].position = q[i].node /\ b.orders_[f[j]].position = q[j].node
        BY <2>1
      <3> QED
        BY <1>5, <3>1
    <2> HIDE DEF f
    <2> QED
      BY <1>2, <1>3, <2>2, SameSlot
  <1>6. ASSUME NEW r \in A PROVE \E i \in 1 .. n : f[i] = r
    BY <1>2, <1>3 DEF QueuedAt
  <1>7. ExistsBijection(1 .. n, A)
    <2> HIDE DEF f, A
    <2>1. f \in Injection(1 .. n, A)
      BY <1>4, <1>5 DEF Injection, IsInjective
    <2>2. f \in Surjection(1 .. n, A)
      BY <1>4, <1>6 DEF Surjection
    <2> QED
      BY <2>1, <2>2 DEF ExistsBijection, Bijection
  <1> HIDE DEF A
  <1>8. IsFiniteSet(A)
    BY <1>1, <1>7, FS_NatBijection
  <1>9. Cardinality(A) = n
    BY <1>1, <1>7, FS_CountingElements
  <1> QED
    BY <1>8, <1>9 DEF A, n, q

(* The walk's count over any set of prices is the number of references there. *)
LEMMA SideCount ==
  ASSUME NEW b, IsBook(b), Indexed(b), NodesUnique(b), FiniteBook(b), NEW s \in Side,
         NEW F, \A p \in DOMAIN b.levels[s] : F[p] = Len(b.levels[s][p].orders),
         NEW g, IsSetSum(g, F, DOMAIN b.levels[s])
  PROVE  /\ IsFiniteSet(QueuedAt(b, s, DOMAIN b.levels[s]))
         /\ Cardinality(QueuedAt(b, s, DOMAIN b.levels[s])) = g[DOMAIN b.levels[s]]
  <1> DEFINE D == DOMAIN b.levels[s]
             n == Cardinality(D)
             Good(P) == IsFiniteSet(QueuedAt(b, s, P)) /\ Cardinality(QueuedAt(b, s, P)) = g[P]
             T == {k \in 0 .. n : \A P \in SUBSET D : Cardinality(P) = k => Good(P)}
  <1>1. IsFiniteSet(D) /\ n \in Nat
    BY FS_CardinalityType DEF FiniteBook
  <1>2. \A P \in SUBSET D : IsFiniteSet(P) /\ Cardinality(P) \in Nat
    BY <1>1, FS_Subset, FS_CardinalityType
  <1>3. \A p \in D : F[p] \in Nat
    <2>1. ASSUME NEW p \in D PROVE Len(b.levels[s][p].orders) \in Nat
      <3>1. b.levels[s][p].orders \in Seq(RestingOrder)
        BY LevelFacts
      <3> QED
        BY <3>1
    <2> QED
      BY <2>1
  <1>4. /\ g[{}] = 0
        /\ \A P \in SUBSET D : g[P] \in Nat /\ \A x \in P : g[P] = F[x] + g[P \ {x}]
    <2>1. IsSetSum(g, F, D)
      OBVIOUS
    <2> HIDE DEF D
    <2> QED
      BY <1>1, <1>3, <2>1, SetSumTake
  <1>5. QueuedAt(b, s, {}) = {}
    BY DEF QueuedAt
  <1>6. Good({})
    BY <1>4, <1>5, FS_EmptySet
  <1>7. 0 \in T
    <2>1. ASSUME NEW P \in SUBSET D, Cardinality(P) = 0 PROVE P = {}
      BY <1>2, <2>1, FS_EmptySet
    <2> HIDE DEF Good
    <2>2. \A P \in SUBSET D : Cardinality(P) = 0 => Good(P)
      BY <1>6, <2>1
    <2>3. 0 \in 0 .. n
      BY <1>1
    <2> QED
      BY <2>2, <2>3
  <1>8. ASSUME NEW k \in 0 .. n - 1, k \in T PROVE k + 1 \in T
    <2>1. SUFFICES ASSUME NEW P \in SUBSET D, Cardinality(P) = k + 1 PROVE Good(P)
      <3>1. k + 1 \in 0 .. n
        BY <1>1
      <3> HIDE DEF Good
      <3> QED
        BY <3>1
    <2>2. PICK x \in P : TRUE
      <3>1. k + 1 # 0
        BY <1>1
      <3>2. P # {}
        BY <2>1, <3>1, FS_EmptySet
      <3> QED
        BY <3>2
    <2> DEFINE A == QueuedAt(b, s, {x})
               B == QueuedAt(b, s, P \ {x})
    <2>3. /\ P \ {x} \in SUBSET D
          /\ Cardinality(P \ {x}) = k
      BY <1>1, <2>1, <2>2, Smaller
    <2>4. Good(P \ {x})
      BY <1>8, <2>3
    <2>5. IsFiniteSet(A) /\ Cardinality(A) = F[x]
      BY <2>1, <2>2, QueueCount
    <2>6. QueuedAt(b, s, P) = A \cup B
      BY <2>2 DEF QueuedAt
    <2>7. A \cap B = {}
      BY IndexedFacts
    <2>8. IsFiniteSet(B) /\ Cardinality(B) = g[P \ {x}]
      BY <2>4
    <2> HIDE DEF A, B
    <2>9. IsFiniteSet(A \cup B) /\ Cardinality(A \cup B) = F[x] + g[P \ {x}]
      <3>1. /\ IsFiniteSet(A \cup B)
            /\ Cardinality(A \cup B) = Cardinality(A) + Cardinality(B) - Cardinality(A \cap B)
        BY <2>5, <2>8, FS_Union
      <3>2. Cardinality(A \cap B) = 0
        BY <2>7, FS_EmptySet
      <3>3. F[x] \in Nat /\ g[P \ {x}] \in Nat
        BY <1>3, <1>4, <2>1, <2>2, <2>3
      <3> QED
        BY <2>5, <2>8, <3>1, <3>2, <3>3
    <2>10. g[P] = F[x] + g[P \ {x}]
      BY <1>4, <2>1, <2>2
    <2> QED
      BY <2>6, <2>9, <2>10
  <1>9. n \in T
    <2>1. \A k \in 0 .. n - 1 : k \in T => k + 1 \in T
      BY <1>8
    <2> HIDE DEF T, n
    <2>2. \A k \in 0 .. n : k \in T
      BY <1>1, <1>7, <2>1, UpTo, Zenon
    <2> QED
      BY <1>1, <2>2
  <1>10. Good(D)
    BY <1>1, <1>9
  <1> QED
    BY <1>10

(* total_orders of check_rep, side by side. *)
LEMMA WalkCount ==
  ASSUME NEW b, IsBook(b), Indexed(b), NodesUnique(b), FiniteBook(b), NEW s \in Side
  PROVE  /\ IsFiniteSet(QueuedAt(b, s, DOMAIN b.levels[s]))
         /\ Cardinality(QueuedAt(b, s, DOMAIN b.levels[s]))
              = MapThenSumSet(LAMBDA p : Len(b.levels[s][p].orders), DOMAIN b.levels[s])
  <1> DEFINE D == DOMAIN b.levels[s]
             F == [p \in D |-> Len(b.levels[s][p].orders)]
             Eq(g) == g = [P \in SUBSET D |->
                             IF P = {} THEN 0
                             ELSE Len(b.levels[s][CHOOSE x \in P : TRUE].orders)
                                    + g[P \ {CHOOSE x \in P : TRUE}]]
  <1>1. IsFiniteSet(D)
    BY DEF FiniteBook
  <1>2. \A p \in D : F[p] \in Nat
    <2>1. ASSUME NEW p \in D PROVE Len(b.levels[s][p].orders) \in Nat
      <3>1. b.levels[s][p].orders \in Seq(RestingOrder)
        BY LevelFacts
      <3> QED
        BY <3>1
    <2> QED
      BY <2>1
  <1>3. PICK h \in [SUBSET D -> Nat] : IsSetSum(h, F, D)
    <2> HIDE DEF D, F
    <2> QED
      BY <1>1, <1>2, SetSumExists
  <1>4. \A P \in SUBSET D : P # {} => (CHOOSE x \in P : TRUE) \in D
    OBVIOUS
  <1>5. ASSUME NEW g, NEW P \in SUBSET D
        PROVE  SumStep(g, F, P) = IF P = {} THEN 0
                                  ELSE Len(b.levels[s][CHOOSE x \in P : TRUE].orders)
                                         + g[P \ {CHOOSE x \in P : TRUE}]
    BY <1>4 DEF SumStep, First
  <1>6. Eq(h)
    <2> HIDE DEF F
    <2>1. \A P \in SUBSET D : h[P] = SumStep(h, F, P)
      BY <1>3 DEF IsSetSum
    <2> QED
      BY <1>5, <2>1
  <1> DEFINE g == CHOOSE g : Eq(g)
  <1>7. Eq(g)
    <2> HIDE DEF Eq
    <2> QED
      BY <1>6
  <1>8. MapThenSumSet(LAMBDA p : Len(b.levels[s][p].orders), D) = g[D]
    BY DEF MapThenSumSet, MapThenFoldSet
  <1> HIDE DEF g
  <1>9. IsSetSum(g, F, D)
    <2>1. ASSUME NEW P \in SUBSET D PROVE g[P] = SumStep(g, F, P)
      <3> HIDE DEF F
      <3>1. g[P] = IF P = {} THEN 0
                   ELSE Len(b.levels[s][CHOOSE x \in P : TRUE].orders)
                          + g[P \ {CHOOSE x \in P : TRUE}]
        BY <1>7
      <3> HIDE DEF Eq
      <3> QED
        BY <1>5, <3>1
    <2> HIDE DEF F, Eq
    <2> QED
      BY <2>1 DEF IsSetSum
  <1>10. \A p \in D : F[p] = Len(b.levels[s][p].orders)
    OBVIOUS
  <1> HIDE DEF F
  <1> QED
    BY <1>8, <1>9, <1>10, SideCount

(* What check_rep counts are the references it met. *)
LEMMA CountsQueued ==
  ASSUME NEW b, IsBook(b), Indexed(b), NodesUnique(b), FiniteBook(b)
  PROVE  QueuedOrders(b) = Cardinality(QueuedAt(b, Buy, DOMAIN b.levels[Buy])
                                         \cup QueuedAt(b, Sell, DOMAIN b.levels[Sell]))
  <1> DEFINE A == QueuedAt(b, Buy, DOMAIN b.levels[Buy])
             B == QueuedAt(b, Sell, DOMAIN b.levels[Sell])
  <1>1. Buy \in Side /\ Sell \in Side /\ Buy # Sell
    BY DEF Side, Buy, Sell
  <1>2. /\ IsFiniteSet(A)
        /\ Cardinality(A) = MapThenSumSet(LAMBDA p : Len(b.levels[Buy][p].orders),
                                          DOMAIN b.levels[Buy])
    BY <1>1, WalkCount
  <1>3. /\ IsFiniteSet(B)
        /\ Cardinality(B) = MapThenSumSet(LAMBDA p : Len(b.levels[Sell][p].orders),
                                          DOMAIN b.levels[Sell])
    BY <1>1, WalkCount
  <1>4. QueuedOrders(b) = Cardinality(A) + Cardinality(B)
    BY <1>2, <1>3 DEF QueuedOrders
  <1>5. A \cap B = {}
    BY <1>1, IndexedFacts
  <1> HIDE DEF A, B
  <1>6. Cardinality(A \cup B) = Cardinality(A) + Cardinality(B) - Cardinality(A \cap B)
    BY <1>2, <1>3, FS_Union
  <1>7. Cardinality(A) \in Nat /\ Cardinality(B) \in Nat /\ Cardinality(A \cap B) = 0
    BY <1>2, <1>3, <1>5, FS_CardinalityType, FS_EmptySet
  <1> QED
    BY <1>4, <1>6, <1>7 DEF A, B

(* CheckSide, for both sides, in terms of places. *)
LEMMA SidesChecked ==
  ASSUME NEW b
  PROVE  CheckSide(b, Buy) /\ CheckSide(b, Sell)
           <=> NoEmptyLevel(b) /\ TotalsExact(b) /\ Indexed(b)
  <1>1. CheckSide(b, Buy) /\ CheckSide(b, Sell) <=> \A s \in Side : CheckSide(b, s)
    BY DEF Side
  <1>2. ASSUME \A s \in Side : CheckSide(b, s)
        PROVE  NoEmptyLevel(b) /\ TotalsExact(b) /\ Indexed(b)
    <2>1. NoEmptyLevel(b) /\ TotalsExact(b)
      BY <1>2 DEF CheckSide, NoEmptyLevel, TotalsExact
    <2>2. Indexed(b)
      BY <1>2 DEF CheckSide, Indexed, Slot, OrderAt
    <2> QED
      BY <2>1, <2>2
  <1>3. ASSUME NoEmptyLevel(b), TotalsExact(b), Indexed(b), NEW s \in Side
        PROVE  CheckSide(b, s)
    <2>1. SUFFICES ASSUME NEW p \in DOMAIN b.levels[s]
                   PROVE  /\ b.levels[s][p].orders # <<>>
                          /\ \A i \in DOMAIN b.levels[s][p].orders :
                               /\ b.levels[s][p].orders[i].order_reference \in DOMAIN b.orders_
                               /\ b.orders_[b.levels[s][p].orders[i].order_reference] =
                                    [side |-> s, price |-> p,
                                     position |-> b.levels[s][p].orders[i].node]
                          /\ LevelTotalExact(b.levels[s][p])
      BY DEF CheckSide
    <2>2. b.levels[s][p].orders # <<>> /\ LevelTotalExact(b.levels[s][p])
      BY <1>3 DEF NoEmptyLevel, TotalsExact
    <2>3. ASSUME NEW i \in DOMAIN b.levels[s][p].orders
          PROVE  /\ b.levels[s][p].orders[i].order_reference \in DOMAIN b.orders_
                 /\ b.orders_[b.levels[s][p].orders[i].order_reference] =
                      [side |-> s, price |-> p, position |-> b.levels[s][p].orders[i].node]
      <3>1. Slot(b, s, p, i) /\ OrderAt(b, s, p, i) = b.levels[s][p].orders[i]
        BY DEF Slot, OrderAt
      <3> QED
        BY <1>3, <3>1 DEF Indexed
    <2> QED
      BY <2>2, <2>3
  <1> QED
    BY <1>1, <1>2, <1>3

(* With distinct nodes, an index that is live and complete is exact. *)
LEMMA IndexExact ==
  ASSUME NEW b, IsBook(b), NodesUnique(b), PositionsLive(b), NoOrphan(b)
  PROVE  Indexed(b)
  <1>1. SUFFICES ASSUME NEW s \in Side, NEW p, NEW i, Slot(b, s, p, i)
                 PROVE  /\ OrderAt(b, s, p, i).order_reference \in DOMAIN b.orders_
                        /\ b.orders_[OrderAt(b, s, p, i).order_reference]
                             = [side |-> s, price |-> p, position |-> OrderAt(b, s, p, i).node]
    BY DEF Indexed
  <1> DEFINE r  == OrderAt(b, s, p, i).order_reference
             at == b.orders_[r]
  <1>2. r \in DOMAIN b.orders_ /\ at.position = OrderAt(b, s, p, i).node
    BY <1>1 DEF NoOrphan, Slot, OrderAt
  <1>3. at \in OrderLocation
    BY <1>2 DEF IsBook, IsMapOf
  <1>4. at.side \in Side /\ at = [side |-> at.side, price |-> at.price, position |-> at.position]
    BY <1>3 DEF OrderLocation
  <1>5. PICK j : Slot(b, at.side, at.price, j) /\ OrderAt(b, at.side, at.price, j).node = at.position
    BY <1>2, LiveSlots
  <1> HIDE DEF at, r
  <1>6. s = at.side /\ p = at.price
    BY <1>1, <1>2, <1>4, <1>5, UniqueSlots
  <1> QED
    BY <1>2, <1>4, <1>6 DEF at, r

(* An exact index has no orphan. *)
LEMMA IndexedNoOrphan ==
  ASSUME NEW b, Indexed(b)
  PROVE  NoOrphan(b)
  <1>1. SUFFICES ASSUME NEW s \in Side, NEW p \in DOMAIN b.levels[s],
                        NEW i \in DOMAIN b.levels[s][p].orders
                 PROVE  /\ b.levels[s][p].orders[i].order_reference \in DOMAIN b.orders_
                        /\ b.orders_[b.levels[s][p].orders[i].order_reference].position
                             = b.levels[s][p].orders[i].node
    BY DEF NoOrphan
  <1>2. Slot(b, s, p, i) /\ OrderAt(b, s, p, i) = b.levels[s][p].orders[i]
    BY DEF Slot, OrderAt
  <1>3. /\ b.levels[s][p].orders[i].order_reference \in DOMAIN b.orders_
        /\ b.orders_[b.levels[s][p].orders[i].order_reference]
             = [side |-> s, price |-> p, position |-> b.levels[s][p].orders[i].node]
    BY <1>2 DEF Indexed
  <1> QED
    BY <1>3

(* In an exact index, what is live is what is queued. *)
LEMMA LiveIffQueued ==
  ASSUME NEW b, IsBook(b), Indexed(b)
  PROVE  PositionsLive(b) <=>
           DOMAIN b.orders_ = QueuedAt(b, Buy, DOMAIN b.levels[Buy])
                                \cup QueuedAt(b, Sell, DOMAIN b.levels[Sell])
  <1> DEFINE Q == QueuedAt(b, Buy, DOMAIN b.levels[Buy])
                    \cup QueuedAt(b, Sell, DOMAIN b.levels[Sell])
  <1>1. \A r : r \in Q <=> /\ r \in DOMAIN b.orders_
                          /\ \E s \in Side : \E p, i :
                               Slot(b, s, p, i) /\ OrderAt(b, s, p, i).order_reference = r
    BY DEF QueuedAt, Slot, Side
  <1>2. ASSUME PositionsLive(b), NEW r \in DOMAIN b.orders_
        PROVE  r \in Q
    <2>1. b.orders_[r].side \in Side
      BY DEF IsBook, IsMapOf, OrderLocation
    <2>2. \E i : /\ Slot(b, b.orders_[r].side, b.orders_[r].price, i)
                 /\ OrderAt(b, b.orders_[r].side, b.orders_[r].price, i).order_reference = r
      BY <1>2, LiveSlots
    <2> HIDE DEF Q
    <2> QED
      BY <1>1, <2>1, <2>2
  <1>3. ASSUME DOMAIN b.orders_ = Q
        PROVE  PositionsLive(b)
    <2>1. SUFFICES ASSUME NEW r \in DOMAIN b.orders_
                   PROVE  \E i : /\ Slot(b, b.orders_[r].side, b.orders_[r].price, i)
                                 /\ OrderAt(b, b.orders_[r].side, b.orders_[r].price, i).node
                                      = b.orders_[r].position
                                 /\ OrderAt(b, b.orders_[r].side, b.orders_[r].price, i)
                                      .order_reference = r
      BY LiveSlots
    <2>2. PICK s \in Side : \E p, i :
            Slot(b, s, p, i) /\ OrderAt(b, s, p, i).order_reference = r
      BY <1>1, <1>3, <2>1
    <2>3. PICK p, i : Slot(b, s, p, i) /\ OrderAt(b, s, p, i).order_reference = r
      BY <2>2
    <2>4. b.orders_[r] = [side |-> s, price |-> p, position |-> OrderAt(b, s, p, i).node]
      BY <2>3 DEF Indexed
    <2>5. /\ b.orders_[r].side = s
          /\ b.orders_[r].price = p
          /\ b.orders_[r].position = OrderAt(b, s, p, i).node
      BY <2>4
    <2> QED
      BY <2>3, <2>5
  <1>4. \A r \in Q : r \in DOMAIN b.orders_
    BY <1>1
  <1> QED
    BY <1>2, <1>3, <1>4

(* What check_rep's verdict says of a book. *)
LEMMA CheckRepDecides ==
  ASSUME NEW b, IsBook(b), NodesUnique(b), FiniteBook(b)
  PROVE  check_rep(b) <=>
           PositionsLive(b) /\ TotalsExact(b) /\ NoEmptyLevel(b) /\ NoOrphan(b)
  <1> DEFINE Q == QueuedAt(b, Buy, DOMAIN b.levels[Buy])
                    \cup QueuedAt(b, Sell, DOMAIN b.levels[Sell])
  <1>1. check_rep(b) <=> /\ NoEmptyLevel(b) /\ TotalsExact(b) /\ Indexed(b)
                         /\ QueuedOrders(b) = Cardinality(DOMAIN b.orders_)
    BY SidesChecked DEF check_rep, order_count
  <1>2. Q \in SUBSET DOMAIN b.orders_
    BY DEF QueuedAt
  <1>3. IsFiniteSet(DOMAIN b.orders_)
    BY DEF FiniteBook
  <1>4. Cardinality(Q) = Cardinality(DOMAIN b.orders_) <=> DOMAIN b.orders_ = Q
    <2> HIDE DEF Q
    <2> QED
      BY <1>2, <1>3, FS_Subset
  <1>5. Indexed(b) => QueuedOrders(b) = Cardinality(Q)
    BY CountsQueued
  <1>6. Indexed(b) => (PositionsLive(b) <=> DOMAIN b.orders_ = Q)
    BY LiveIffQueued
  <1>7. Indexed(b) => NoOrphan(b)
    BY IndexedNoOrphan
  <1>8. PositionsLive(b) /\ NoOrphan(b) => Indexed(b)
    BY IndexExact
  <1> HIDE DEF Q
  <1> QED
    BY <1>1, <1>4, <1>5, <1>6, <1>7, <1>8

-----------------------------------------------------------------------------
(* Damaged books *)

(* What no damage takes away.                                               *)
DamageInv == IsBook(book) /\ NodesUnique(book) /\ FiniteBook(book)

(* What putting a level makes of the book. *)
LEMMA WithLevelShape ==
  ASSUME IsBook(book), NEW side \in Side, NEW price \in Price, NEW level \in PriceLevel
  PROVE  LET c == WithLevel(side, price, level)
         IN  /\ IsBook(c)
             /\ c.orders_ = book.orders_
             /\ DOMAIN c.levels[side] = DOMAIN book.levels[side] \cup {price}
             /\ c.levels[side][price] = level
             /\ \A p \in DOMAIN book.levels[side] \ {price} :
                  c.levels[side][p] = book.levels[side][p]
             /\ \A s \in Side \ {side} : c.levels[s] = book.levels[s]
  <1> DEFINE old == book.levels[side]
             put == MapPut(old, price, level)
             c   == WithLevel(side, price, level)
  <1>1. IsMapOf(old, Price, PriceLevel)
    BY DEF IsBook
  <1> HIDE DEF old
  <1>2. /\ IsMapOf(put, Price, PriceLevel)
        /\ DOMAIN put = DOMAIN old \cup {price}
        /\ put[price] = level
        /\ \A p \in DOMAIN old \ {price} : put[p] = old[p]
    BY <1>1 DEF MapPut, IsMapOf
  <1>3. c = [levels |-> [book.levels EXCEPT ![side] = put], orders_ |-> book.orders_]
    BY DEF WithLevel, IsBook, old
  <1> HIDE DEF put
  <1>4. c.levels = [s \in Side |-> IF s = side THEN put ELSE book.levels[s]]
    BY <1>3 DEF IsBook
  <1>5. c.orders_ = book.orders_ /\ c = [levels |-> c.levels, orders_ |-> c.orders_]
    BY <1>3
  <1> HIDE DEF c
  <1>6. IsBook(c)
    <2>1. \A s \in Side : IsMapOf(c.levels[s], Price, PriceLevel)
      BY <1>2, <1>4 DEF IsBook
    <2> QED
      BY <1>4, <1>5, <2>1 DEF IsBook
  <1> QED
    BY <1>2, <1>4, <1>5, <1>6 DEF c, old

(* A level changes and the addresses in it are those it had, but for a free *)
(* one at its back. *)
LEMMA LevelDamage ==
  ASSUME DamageInv, NEW side \in Side, NEW price \in Price, NEW level \in PriceLevel,
         \/ level.orders = LevelAt(book, side, price).orders
         \/ \E o \in RestingOrder : /\ o.node \in FreeNodes(book)
                                    /\ level.orders = Append(LevelAt(book, side, price).orders, o),
         book' = WithLevel(side, price, level)
  PROVE  DamageInv'
  <1> DEFINE c == book'
             queue == LevelAt(book, side, price).orders
  <1>1. IsBook(book) /\ NodesUnique(book) /\ FiniteBook(book)
    BY DEF DamageInv
  <1>2. /\ IsBook(c)
        /\ c.orders_ = book.orders_
        /\ DOMAIN c.levels[side] = DOMAIN book.levels[side] \cup {price}
        /\ c.levels[side][price] = level
        /\ \A p \in DOMAIN book.levels[side] \ {price} : c.levels[side][p] = book.levels[side][p]
        /\ \A s \in Side \ {side} : c.levels[s] = book.levels[s]
    BY <1>1, WithLevelShape
  <1>3. FiniteBook(c)
    <2>1. IsFiniteSet(DOMAIN book.levels[side] \cup {price})
      BY <1>1, FS_AddElement DEF FiniteBook
    <2> QED
      BY <1>1, <1>2, <2>1 DEF FiniteBook
  <1>4. /\ queue \in Seq(RestingOrder)
        /\ price \in DOMAIN book.levels[side] => queue = book.levels[side][price].orders
        /\ price \notin DOMAIN book.levels[side] => queue = <<>>
    BY <1>1, LevelAtFacts
  <1> HIDE DEF queue
  <1>5. /\ \A i \in DOMAIN level.orders : i # Len(queue) + 1 =>
             i \in DOMAIN queue /\ level.orders[i] = queue[i]
        /\ Len(queue) + 1 \in DOMAIN level.orders =>
             level.orders[Len(queue) + 1].node \in FreeNodes(book)
    <2>1. CASE level.orders = queue
      BY <1>4, <2>1
    <2>2. CASE \E o \in RestingOrder : o.node \in FreeNodes(book) /\ level.orders = Append(queue, o)
      <3>1. PICK o \in RestingOrder : o.node \in FreeNodes(book) /\ level.orders = Append(queue, o)
        BY <2>2
      <3>2. /\ DOMAIN Append(queue, o) = 1 .. Len(queue) + 1
            /\ DOMAIN queue = 1 .. Len(queue)
            /\ \A i \in 1 .. Len(queue) : Append(queue, o)[i] = queue[i]
            /\ Append(queue, o)[Len(queue) + 1] = o
            /\ Len(queue) \in Nat
        BY <1>4, AppendProperties
      <3> QED
        BY <3>1, <3>2
    <2> QED
      BY <2>1, <2>2 DEF queue
  \* An order of c is one of the book's, or the one with the free address.
  <1> DEFINE New(s, p, i) == s = side /\ p = price /\ i = Len(queue) + 1
  <1>6. ASSUME NEW s \in Side, NEW p, NEW i, Slot(c, s, p, i), ~New(s, p, i)
        PROVE  Slot(book, s, p, i) /\ OrderAt(book, s, p, i) = OrderAt(c, s, p, i)
    <2>1. CASE s = side /\ p = price
      <3>1. i \in DOMAIN queue /\ level.orders[i] = queue[i]
        BY <1>2, <1>5, <1>6, <2>1 DEF Slot
      <3>2. price \in DOMAIN book.levels[side]
        BY <1>4, <3>1
      <3> QED
        BY <1>2, <1>4, <2>1, <3>1, <3>2 DEF Slot, OrderAt
    <2>2. CASE s = side /\ p # price
      BY <1>2, <1>6, <2>2 DEF Slot, OrderAt
    <2>3. CASE s # side
      BY <1>2, <1>6, <2>3 DEF Slot, OrderAt
    <2> QED
      BY <2>1, <2>2, <2>3
  <1>7. ASSUME NEW s \in Side, NEW p, NEW i, Slot(c, s, p, i), New(s, p, i)
        PROVE  OrderAt(c, s, p, i).node \in FreeNodes(book)
    BY <1>2, <1>5, <1>7 DEF Slot, OrderAt
  <1>8. \A s \in Side : \A p, i : Slot(book, s, p, i) => OrderAt(book, s, p, i).node \notin FreeNodes(book)
    BY FreeSlots
  <1>9. NodesUnique(c)
    <2>1. ASSUME NEW s \in Side, NEW t \in Side, NEW p, NEW q, NEW i, NEW j,
                 Slot(c, s, p, i), Slot(c, t, q, j),
                 OrderAt(c, s, p, i).node = OrderAt(c, t, q, j).node
          PROVE  s = t /\ p = q /\ i = j
      <3>1. CASE New(s, p, i) /\ New(t, q, j)
        BY <3>1
      <3>2. CASE New(s, p, i) /\ ~New(t, q, j)
        BY <1>6, <1>7, <1>8, <2>1, <3>2
      <3>3. CASE ~New(s, p, i) /\ New(t, q, j)
        BY <1>6, <1>7, <1>8, <2>1, <3>3
      <3>4. CASE ~New(s, p, i) /\ ~New(t, q, j)
        BY <1>1, <1>6, <2>1, <3>4, UniqueSlots
      <3> QED
        BY <3>1, <3>2, <3>3, <3>4
    <2> HIDE DEF c
    <2> QED
      BY <2>1, UniqueSlots
  <1> QED
    BY <1>2, <1>3, <1>9 DEF DamageInv

(* The level at a price, or a new one, is a level. *)
LEMMA LevelTyped ==
  ASSUME IsBook(book), NEW side \in Side, NEW price \in Price
  PROVE  LevelAt(book, side, price) \in PriceLevel
  <1>1. CASE price \in DOMAIN book.levels[side]
    BY <1>1 DEF LevelAt, IsBook, IsMapOf
  <1>2. CASE price \notin DOMAIN book.levels[side]
    <2>1. <<>> \in Seq(RestingOrder) /\ 0 \in Total
      BY WidthAssumption DEF Total
    <2> QED
      BY <1>2, <2>1 DEF LevelAt, NoLevel, PriceLevel
  <1> QED
    BY <1>1, <1>2

(* A record of a level with another queue or another total. *)
LEMMA LevelEdits ==
  ASSUME NEW level \in PriceLevel, NEW queue \in Seq(RestingOrder), NEW total \in Total
  PROVE  /\ [level EXCEPT !.orders = queue] \in PriceLevel
         /\ [level EXCEPT !.orders = queue].orders = queue
         /\ [level EXCEPT !.total_shares = total] \in PriceLevel
         /\ [level EXCEPT !.total_shares = total].orders = level.orders
  BY DEF PriceLevel

(***************************************************************************)
(* check_rep returns true for exactly the books its comment describes,     *)
(* among all that stray nodes, wrong totals and wrong index entries make   *)
(* of an empty one, for any number of references, prices and nodes: the    *)
(* count it ends with stands in for the walk over orders_ it never makes.  *)
(***************************************************************************)
THEOREM CheckRepVerdict ==
  ASSUME 1 \in Shares
  PROVE  DamageSpec => []CheckRepExact
  <1>1. Init => DamageInv
    <2> SUFFICES ASSUME Init PROVE DamageInv
      OBVIOUS
    <2>1. /\ \A s \in Side : DOMAIN book.levels[s] = {}
          /\ DOMAIN book.orders_ = {}
      BY DEF Init, EmptyBook, EmptyMap
    <2>2. IsBook(book)
      BY DEF Init, EmptyBook, EmptyMap, IsBook, IsMapOf
    <2> QED
      BY <2>1, <2>2, FS_EmptySet DEF DamageInv, NodesUnique, FiniteBook
  <1>2. DamageInv /\ [DamageNext]_vars => DamageInv'
    <2> SUFFICES ASSUME DamageInv, [DamageNext]_vars PROVE DamageInv'
      OBVIOUS
    <2>1. IsBook(book)
      BY DEF DamageInv
    <2>2. CASE StrayNode
      <3>1. PICK side \in Side, price \in Price, node \in FreeNodes(book), r \in OrderRef :
              book' = WithLevel(side, price,
                [LevelAt(book, side, price) EXCEPT !.orders =
                   Append(@, [node |-> node, order_reference |-> r, shares |-> 1])])
        BY <2>2 DEF StrayNode, Damaged
      <3> DEFINE o     == [node |-> node, order_reference |-> r, shares |-> 1]
                 queue == Append(LevelAt(book, side, price).orders, o)
                 level == [LevelAt(book, side, price) EXCEPT !.orders = queue]
      <3>2. o \in RestingOrder /\ o.node = node
        BY FreeSlots DEF RestingOrder
      <3> HIDE DEF o
      <3>3. queue \in Seq(RestingOrder)
        BY <2>1, <3>2, LevelAtFacts
      <3>4. 0 \in Total
        BY WidthAssumption DEF Total
      <3>5. book' = WithLevel(side, price, level)
        BY <3>1 DEF o
      <3>6. level \in PriceLevel /\ level.orders = queue
        <4> HIDE DEF queue
        <4>1. LevelAt(book, side, price) \in PriceLevel
          BY <2>1, LevelTyped
        <4> QED
          BY <3>3, <3>4, <4>1, LevelEdits, Zenon
      <3> HIDE DEF level
      <3> QED
        BY <3>2, <3>5, <3>6, LevelDamage
    <2>3. CASE WrongTotal
      <3>1. PICK side \in Side, price \in Price, total \in Total :
              book' = WithLevel(side, price,
                                [LevelAt(book, side, price) EXCEPT !.total_shares = total])
        BY <2>3 DEF WrongTotal, Damaged
      <3> DEFINE level == [LevelAt(book, side, price) EXCEPT !.total_shares = total]
      <3>2. <<>> \in Seq(RestingOrder)
        OBVIOUS
      <3>3. level \in PriceLevel /\ level.orders = LevelAt(book, side, price).orders
        <4>1. LevelAt(book, side, price) \in PriceLevel
          BY <2>1, LevelTyped
        <4> QED
          BY <3>2, <4>1, LevelEdits, Zenon
      <3>4. book' = WithLevel(side, price, level)
        BY <3>1
      <3> HIDE DEF level
      <3> QED
        BY <3>3, <3>4, LevelDamage
    <2>4. CASE WrongIndex
      <3>1. PICK r \in OrderRef, location \in OrderLocation :
              book' = [book EXCEPT !.orders_ = MapPut(@, r, location)]
        BY <2>4 DEF WrongIndex, Damaged
      <3> DEFINE index == book.orders_
                 put   == MapPut(index, r, location)
      <3>2. IsMapOf(index, OrderRef, OrderLocation) /\ IsFiniteSet(DOMAIN index)
        BY DEF DamageInv, IsBook, FiniteBook
      <3> HIDE DEF index
      <3>3. IsMapOf(put, OrderRef, OrderLocation) /\ DOMAIN put = DOMAIN index \cup {r}
        BY <3>2 DEF MapPut, IsMapOf
      <3>4. IsFiniteSet(DOMAIN put)
        BY <3>2, <3>3, FS_AddElement
      <3>5. book' = [levels |-> book.levels, orders_ |-> put]
        BY <2>1, <3>1 DEF IsBook, index
      <3> HIDE DEF put
      <3>6. book'.levels = book.levels /\ book'.orders_ = put
        BY <3>5
      <3>7. IsBook(book')
        BY <2>1, <3>3, <3>5, <3>6 DEF IsBook
      <3>8. NodesUnique(book') /\ FiniteBook(book')
        BY <3>4, <3>6 DEF DamageInv, NodesUnique, FiniteBook
      <3> QED
        BY <3>7, <3>8 DEF DamageInv
    <2>5. CASE UNCHANGED vars
      BY <2>5 DEF vars, DamageInv
    <2> QED
      BY <2>2, <2>3, <2>4, <2>5 DEF DamageNext
  <1>3. DamageInv => CheckRepExact
    BY CheckRepDecides DEF DamageInv, CheckRepExact
  <1> QED
    BY <1>1, <1>2, <1>3, PTL DEF DamageSpec
=============================================================================
