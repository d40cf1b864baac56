--------------------------- MODULE ItchCountProofs ---------------------------
(***************************************************************************)
(* The safety properties of ItchCount, for every file, every length table, *)
(* every layout of the header and every width of a timestamp, and the      *)
(* proof that itch_count implements reference_count.py.                    *)
(***************************************************************************)
EXTENDS ItchCount, FramerProofs, DataInduction

Delivered == [at : Nat, type : Byte, length : Nat]

Census == [counts_ : [Byte -> Nat], total_ : Nat, backwards_timestamps_ : Nat,
           first_timestamp_ns_ : Nat, last_timestamp_ns_ : Nat, system_events_ : Seq(Byte)]

(* The timestamp of the record at `at` of f: its bytes, and their value.    *)
StampBytes(f, at) == [i \in 1 .. TimestampBytes |-> f[at + 2 + TimestampAt + i]]

IsStamp(v, f, at) == IsNumber(v, TimestampBytes, ByteBase, StampBytes(f, at))

Stamp(f, at) == (CHOOSE v : IsStamp(v, f, at))[TimestampBytes]

(* All of the timestamp is in the file.                                     *)
HasStamp(f, at) == at \in Nat /\ at + 2 + TimestampAt + TimestampBytes <= Len(f)

(* No record of d is stamped earlier than one before it.                    *)
StampsAscend(f, d) ==
  \A i, j \in DOMAIN d : i < j => Stamp(f, d[i].at) <= Stamp(f, d[j].at)

(* The records of one type.                                                 *)
OfType(d, t) == {i \in DOMAIN d : d[i].type = t}

-----------------------------------------------------------------------------
(* Timestamps *)

(* A good record holds a whole timestamp. *)
LEMMA GoodHasStamp ==
  ASSUME NEW f \in Seq(Byte), NEW at \in Nat, GoodRecord(f, at)
  PROVE  HasStamp(f, at)
  <1>1. at + 3 <= Len(f) /\ at + 3 \in 1 .. Len(f)
    BY DEF GoodRecord
  <1>2. f[at + 3] \in Byte
    BY <1>1
  <1>3. SpecLength[f[at + 3]] # 0 /\ at + 2 + SpecLength[f[at + 3]] <= Len(f)
    BY DEF GoodRecord
  <1>4. SpecLength[f[at + 3]] \in Nat
    BY <1>2, LengthAssumption, ByteAssumption
  <1>5. TimestampAt + TimestampBytes <= SpecLength[f[at + 3]]
    BY <1>2, <1>3, LayoutAssumption
  <1>6. TimestampAt \in Nat /\ TimestampBytes \in Nat /\ Len(f) \in Nat
    BY LayoutAssumption
  <1> QED
    BY <1>3, <1>4, <1>5, <1>6 DEF HasStamp

(* Its bytes are bytes. *)
LEMMA StampBytesFacts ==
  ASSUME NEW f \in Seq(Byte), NEW at, HasStamp(f, at)
  PROVE  \A i \in 1 .. TimestampBytes :
           /\ StampBytes(f, at)[i] = f[at + 2 + TimestampAt + i]
           /\ StampBytes(f, at)[i] \in 0 .. ByteBase - 1
  <1>1. TimestampAt \in Nat /\ TimestampBytes \in Nat /\ Len(f) \in Nat /\ at \in Nat
    BY LayoutAssumption DEF HasStamp
  <1>2. ASSUME NEW i \in 1 .. TimestampBytes
        PROVE  f[at + 2 + TimestampAt + i] \in Byte
    <2>1. at + 2 + TimestampAt + i \in 1 .. Len(f)
      BY <1>1 DEF HasStamp
    <2> QED
      BY <2>1
  <1> QED
    BY <1>2 DEF StampBytes, Byte

(* One more digit. *)
LEMMA OneMore ==
  ASSUME NEW v \in Nat, NEW d \in Nat
  PROVE  v * ByteBase + d \in Nat
  <1>1. v * ByteBase \in Nat
    BY ByteAssumption
  <1> QED
    BY <1>1

(* v is what load_big_endian's loop computes from the bytes d.              *)
Loads(v, n, d) == v = [i \in 0 .. n |-> IF i = 0 THEN 0 ELSE v[i - 1] * ByteBase + d[i]]

(* The recursion has a solution ... *)
LEMMA LoadExists ==
  ASSUME NEW n \in Nat, NEW d, \A i \in 1 .. n : d[i] \in Nat
  PROVE  \E v : Loads(v, n, d)
  <1> DEFINE step == [i \in 1 .. n |-> [v \in Nat |-> v * ByteBase + d[i]]]
  <1>1. \A i \in 1 .. n : \A v \in Nat : v * ByteBase + d[i] \in Nat
    BY OneMore
  <1>2. step \in [1 .. n -> [Nat -> Nat]]
    BY <1>1
  <1>3. \A i \in 1 .. n, v \in Nat : step[i][v] = v * ByteBase + d[i]
    OBVIOUS
  <1> HIDE DEF step
  <1>4. PICK h \in [0 .. n -> Nat] : Follows(h, n, 0, step)
    BY <1>2, RecursionExists
  <1>5. ASSUME NEW i \in 0 .. n
        PROVE  h[i] = IF i = 0 THEN 0 ELSE h[i - 1] * ByteBase + d[i]
    <2>1. CASE i = 0
      BY <1>4, <2>1 DEF Follows
    <2>2. CASE i # 0
      <3>1. i \in 1 .. n /\ i - 1 \in 0 .. n
        BY <2>2
      <3>2. h[i] = step[i][h[i - 1]]
        BY <1>4, <3>1 DEF Follows
      <3> QED
        BY <1>3, <2>2, <3>1, <3>2
    <2> QED
      BY <2>1, <2>2
  <1>6. Loads(h, n, d)
    BY <1>5 DEF Loads
  <1> QED
    BY <1>6

(* ... and every solution holds the numbers the leading bytes make. *)
LEMMA LoadsNumber ==
  ASSUME NEW n \in Nat, NEW d, \A i \in 1 .. n : d[i] \in Nat, NEW v, Loads(v, n, d)
  PROVE  IsNumber(v, n, ByteBase, d)
  <1>1. DOMAIN v = 0 .. n /\ v = [i \in 0 .. n |-> v[i]]
    BY DEF Loads
  <1>2. \A i \in 0 .. n : v[i] = IF i = 0 THEN 0 ELSE v[i - 1] * ByteBase + d[i]
    BY DEF Loads
  <1>3. v[0] = 0
    BY <1>2
  <1>4. ASSUME NEW i \in 1 .. n PROVE v[i] = v[i - 1] * ByteBase + d[i]
    <2>1. i \in 0 .. n /\ i # 0
      OBVIOUS
    <2> QED
      BY <1>2, <2>1
  <1> DEFINE T == {i \in 0 .. n : v[i] \in Nat}
  <1>5. 0 \in T
    BY <1>3
  <1>6. ASSUME NEW i \in 0 .. n - 1, i \in T PROVE i + 1 \in T
    <2>1. i + 1 \in 1 .. n /\ (i + 1) - 1 = i /\ i + 1 \in 0 .. n
      OBVIOUS
    <2>2. v[i + 1] = v[i] * ByteBase + d[i + 1]
      BY <1>4, <2>1
    <2>3. v[i] \in Nat /\ d[i + 1] \in Nat
      BY <1>6, <2>1
    <2>4. v[i] * ByteBase + d[i + 1] \in Nat
      BY <2>3, OneMore
    <2> QED
      BY <2>1, <2>2, <2>4
  <1>7. \A i \in 0 .. n - 1 : i \in T => i + 1 \in T
    BY <1>6
  <1>8. \A i \in 0 .. n : v[i] \in Nat
    <2> HIDE DEF T
    <2>1. \A i \in 0 .. n : i \in T
      BY <1>5, <1>7, UpTo, Zenon
    <2> QED
      BY <2>1 DEF T
  <1>9. v \in [0 .. n -> Nat]
    BY <1>1, <1>8
  <1> QED
    BY <1>3, <1>4, <1>9 DEF IsNumber

(* The number the bytes make is unique. *)
LEMMA NumberUnique ==
  ASSUME NEW n \in Nat, NEW d, \A i \in 1 .. n : d[i] \in 0 .. ByteBase - 1,
         NEW v, IsNumber(v, n, ByteBase, d), NEW w, IsNumber(w, n, ByteBase, d)
  PROVE  v[n] = w[n] /\ v[n] \in Nat
  <1>1. SameUpTo(d, d, n)
    BY DEF SameUpTo
  <1>2. ByteBase \in Nat
    BY ByteAssumption
  <1>3. v[n] <= w[n] /\ w[n] <= v[n]
    BY <1>1, <1>2, DigitsOrder
  <1>4. v[n] \in Nat /\ w[n] \in Nat
    BY DEF IsNumber
  <1> QED
    BY <1>3, <1>4

(* A stamp in the file is a number. *)
LEMMA StampFacts ==
  ASSUME NEW f \in Seq(Byte), NEW at, HasStamp(f, at)
  PROVE  /\ Stamp(f, at) \in Nat
         /\ IsStamp(CHOOSE v : IsStamp(v, f, at), f, at)
  <1> DEFINE d == StampBytes(f, at)
             n == TimestampBytes
  <1>1. n \in Nat
    BY LayoutAssumption
  <1>2. \A i \in 1 .. n : d[i] \in 0 .. ByteBase - 1
    BY StampBytesFacts
  <1>3. \A i \in 1 .. n : d[i] \in Nat
    BY <1>2
  <1> HIDE DEF d, n
  <1>4. PICK v : Loads(v, n, d)
    BY <1>1, <1>3, LoadExists
  <1>5. IsNumber(v, n, ByteBase, d)
    BY <1>1, <1>3, <1>4, LoadsNumber
  <1>6. IsStamp(v, f, at)
    BY <1>5 DEF IsStamp, d, n
  <1>7. IsStamp(CHOOSE w : IsStamp(w, f, at), f, at)
    BY <1>6
  <1>8. IsNumber(CHOOSE w : IsStamp(w, f, at), n, ByteBase, d)
    BY <1>7 DEF IsStamp, d, n
  <1>9. (CHOOSE w : IsStamp(w, f, at))[n] \in Nat
    BY <1>1, <1>2, <1>8, NumberUnique
  <1> QED
    BY <1>7, <1>9 DEF Stamp, n

(* The order of two stamps as numbers is that of their bytes. *)
LEMMA StampOrder ==
  ASSUME NEW f \in Seq(Byte), NEW x, HasStamp(f, x), NEW y, HasStamp(f, y)
  PROVE  Stamp(f, x) <= Stamp(f, y) <=> NotAfter(StampBytes(f, x), StampBytes(f, y))
  <1> DEFINE a == StampBytes(f, x)
             b == StampBytes(f, y)
             v == CHOOSE u : IsStamp(u, f, x)
             w == CHOOSE u : IsStamp(u, f, y)
             n == TimestampBytes
  <1>1. IsStamp(v, f, x) /\ IsStamp(w, f, y)
    BY StampFacts
  <1>2. n \in Nat /\ ByteBase \in Nat
    BY LayoutAssumption, ByteAssumption
  <1>3. \A i \in 1 .. n : a[i] \in 0 .. ByteBase - 1 /\ b[i] \in 0 .. ByteBase - 1
    BY StampBytesFacts
  <1>4. a = b <=> SameUpTo(a, b, n)
    BY DEF StampBytes, SameUpTo
  <1>5. Stamp(f, x) = v[n] /\ Stamp(f, y) = w[n]
    BY DEF Stamp
  <1>6. IsNumber(v, n, ByteBase, a) /\ IsNumber(w, n, ByteBase, b)
    BY <1>1 DEF IsStamp
  <1> HIDE DEF a, b, v, w
  <1>7. v[n] <= w[n] <=> SameUpTo(a, b, n) \/ LessWithin(a, b, n)
    <2> HIDE DEF n
    <2> QED
      BY <1>2, <1>3, <1>6, DigitsOrder
  <1>8. NotAfter(a, b) <=> a = b \/ LessWithin(a, b, n)
    BY DEF NotAfter, LessWithin, SameUpTo
  <1> QED
    BY <1>4, <1>5, <1>7, <1>8 DEF a, b

(* load_big_endian reads the stamp of the record at the offset. *)
LEMMA StampRead ==
  ASSUME TypeOK, HasStamp(file, offset)
  PROVE  timestamp_ns = Stamp(file, offset)
  <1> DEFINE at == offset + 2 + TimestampAt
             n  == TimestampBytes
             e  == StampBytes(file, offset)
             Eq(v) == v = [i \in 0 .. n |-> IF i = 0 THEN 0 ELSE v[i - 1] * ByteBase + ByteAt(at + i - 1)]
  <1>1. /\ n \in Nat /\ TimestampAt \in Nat /\ offset \in Nat
        /\ file \in Seq(Byte) /\ size \in Nat /\ size = Len(file)
    BY LayoutAssumption, FileFacts DEF TypeOK, size
  <1>2. ASSUME NEW i \in 1 .. n PROVE ByteAt(at + i - 1) = e[i]
    <2>1. at + i - 1 < size /\ (at + i - 1) + 1 = offset + 2 + TimestampAt + i
      BY <1>1 DEF HasStamp
    <2>2. e[i] = file[offset + 2 + TimestampAt + i]
      BY <1>1, StampBytesFacts
    <2> QED
      BY <2>1, <2>2 DEF ByteAt
  <1>3. \A i \in 1 .. n : e[i] \in 0 .. ByteBase - 1
    BY <1>1, StampBytesFacts
  <1>4. ASSUME NEW v PROVE Eq(v) <=> Loads(v, n, e)
    <2>1. [i \in 0 .. n |-> IF i = 0 THEN 0 ELSE v[i - 1] * ByteBase + ByteAt(at + i - 1)]
            = [i \in 0 .. n |-> IF i = 0 THEN 0 ELSE v[i - 1] * ByteBase + e[i]]
      <3>1. \A i \in 0 .. n : i = 0 \/ i \in 1 .. n
        BY <1>1
      <3> HIDE DEF e, at, n
      <3> QED
        BY <1>2, <3>1
    <2> HIDE DEF e, at, n
    <2> QED
      BY <2>1 DEF Loads
  <1>5. timestamp_ns = (CHOOSE v : Eq(v))[n]
    BY DEF timestamp_ns, load_big_endian
  <1> HIDE DEF Eq, e, n, at
  <1>6. \A i \in 1 .. n : e[i] \in Nat
    BY <1>3
  <1>7. PICK v : Loads(v, n, e)
    BY <1>1, <1>6, LoadExists
  <1>8. Eq(v)
    BY <1>4, <1>7
  <1> DEFINE u == CHOOSE v1 : Eq(v1)
  <1>9. Eq(u)
    BY <1>8
  <1> HIDE DEF u
  <1>10. Loads(u, n, e)
    BY <1>4, <1>9
  <1>11. IsNumber(u, n, ByteBase, e)
    BY <1>1, <1>6, <1>10, LoadsNumber
  <1> DEFINE w == CHOOSE v1 : IsStamp(v1, file, offset)
  <1>12. IsNumber(w, n, ByteBase, e) /\ Stamp(file, offset) = w[n]
    BY <1>1, StampFacts DEF IsStamp, Stamp, n, e
  <1> HIDE DEF w
  <1>13. u[n] = w[n]
    BY <1>1, <1>3, <1>11, <1>12, NumberUnique
  <1> QED
    BY <1>5, <1>12, <1>13 DEF u

-----------------------------------------------------------------------------
(* The inductive invariant of the census *)

(* The last stamp is the last record's, and none was counted as going       *)
(* backwards exactly while the stamps ascend.                               *)
Clock ==
  /\ delivered # <<>> =>
       census.last_timestamp_ns_ = Stamp(file, delivered[Len(delivered)].at)
  /\ census.backwards_timestamps_ = 0 <=> StampsAscend(file, delivered)

Exited == exit_code \in {0, 1} => returned /\ (exit_code = 0 <=> healthy)

CInv == /\ IInv
        /\ census \in Census
        /\ CensusAccountsForAll
        /\ Clock
        /\ Exited

(* What note() makes of the census. *)
LEMMA NoteFacts ==
  ASSUME NEW c \in Census, NEW t \in Byte, NEW s \in Nat, NEW noted, noted = note(c, t, s)
  PROVE  /\ noted \in Census
         /\ noted.counts_ = [c.counts_ EXCEPT ![t] = c.counts_[t] + 1]
         /\ noted.total_ = c.total_ + 1
         /\ noted.last_timestamp_ns_ = s
         /\ noted.backwards_timestamps_ =
              IF c.total_ # 0 /\ s < c.last_timestamp_ns_ THEN c.backwards_timestamps_ + 1
                                                          ELSE c.backwards_timestamps_
         /\ noted.system_events_ = c.system_events_
  <1> DEFINE counts == [c.counts_ EXCEPT ![t] = c.counts_[t] + 1]
             first  == IF c.total_ = 0 THEN s ELSE c.first_timestamp_ns_
             back   == IF c.total_ # 0 /\ s < c.last_timestamp_ns_
                         THEN c.backwards_timestamps_ + 1 ELSE c.backwards_timestamps_
             total  == c.total_ + 1
  <1>1. /\ c.counts_ \in [Byte -> Nat] /\ c.total_ \in Nat /\ c.backwards_timestamps_ \in Nat
        /\ c.first_timestamp_ns_ \in Nat /\ c.system_events_ \in Seq(Byte)
    BY DEF Census
  <1>2. counts \in [Byte -> Nat] /\ first \in Nat /\ back \in Nat /\ total \in Nat
    BY <1>1
  <1>3. noted = [counts_ |-> counts, total_ |-> total, backwards_timestamps_ |-> back,
                 first_timestamp_ns_ |-> first, last_timestamp_ns_ |-> s,
                 system_events_ |-> c.system_events_]
    BY DEF note, Census
  <1> HIDE DEF counts, first, back, total
  <1>4. noted \in Census
    BY <1>1, <1>2, <1>3 DEF Census
  <1>5. /\ noted.counts_ = counts /\ noted.total_ = total /\ noted.last_timestamp_ns_ = s
        /\ noted.backwards_timestamps_ = back /\ noted.system_events_ = c.system_events_
    BY <1>3
  <1> QED
    BY <1>4, <1>5 DEF counts, back, total

(* And what SessionCensus::on does: a System Event's code is kept as well. *)
LEMMA CensusOnFacts ==
  ASSUME NEW c \in Census, type \in Byte, timestamp_ns \in Nat, event_code \in Byte,
         NEW d, d = SessionCensusOn(c)
  PROVE  /\ d \in Census
         /\ d.counts_ = [c.counts_ EXCEPT ![type] = c.counts_[type] + 1]
         /\ d.total_ = c.total_ + 1
         /\ d.last_timestamp_ns_ = timestamp_ns
         /\ d.backwards_timestamps_ =
              IF c.total_ # 0 /\ timestamp_ns < c.last_timestamp_ns_
                THEN c.backwards_timestamps_ + 1 ELSE c.backwards_timestamps_
         /\ d.system_events_ = IF type = SystemEventType
                                 THEN Append(c.system_events_, event_code)
                                 ELSE c.system_events_
  <1> DEFINE noted == note(c, type, timestamp_ns)
             events == Append(c.system_events_, event_code)
  <1>1. /\ noted \in Census
        /\ noted.counts_ = [c.counts_ EXCEPT ![type] = c.counts_[type] + 1]
        /\ noted.total_ = c.total_ + 1
        /\ noted.last_timestamp_ns_ = timestamp_ns
        /\ noted.backwards_timestamps_ =
             IF c.total_ # 0 /\ timestamp_ns < c.last_timestamp_ns_
               THEN c.backwards_timestamps_ + 1 ELSE c.backwards_timestamps_
        /\ noted.system_events_ = c.system_events_
    BY NoteFacts
  <1>2. d = IF type = SystemEventType
              THEN [noted EXCEPT !.system_events_ = Append(noted.system_events_, event_code)]
              ELSE noted
    BY DEF SessionCensusOn
  <1>3. c.system_events_ \in Seq(Byte)
    BY DEF Census
  <1>4. events \in Seq(Byte)
    BY <1>3
  <1> HIDE DEF noted, events
  <1>5. CASE type = SystemEventType
    <2>1. d = [noted EXCEPT !.system_events_ = events]
      BY <1>1, <1>2, <1>5 DEF events
    <2>2. /\ d \in Census
          /\ d.counts_ = noted.counts_ /\ d.total_ = noted.total_
          /\ d.last_timestamp_ns_ = noted.last_timestamp_ns_
          /\ d.backwards_timestamps_ = noted.backwards_timestamps_
          /\ d.system_events_ = events
      BY <1>1, <1>4, <2>1 DEF Census
    <2> QED
      BY <1>1, <1>5, <2>2 DEF events
  <1>6. CASE type # SystemEventType
    BY <1>1, <1>2, <1>6
  <1> QED
    BY <1>5, <1>6

(* One more record of some type. *)
LEMMA OfTypeAppend ==
  ASSUME NEW d \in Seq(Delivered), NEW rec \in Delivered, NEW t \in Byte
  PROVE  /\ Cardinality(OfType(d, t)) \in Nat
         /\ Cardinality(OfType(Append(d, rec), t)) =
              IF rec.type = t THEN Cardinality(OfType(d, t)) + 1 ELSE Cardinality(OfType(d, t))
  <1> DEFINE n == Len(d)
             e == Append(d, rec)
  <1>1. /\ n \in Nat /\ DOMAIN d = 1 .. n /\ DOMAIN e = 1 .. n + 1
        /\ \A i \in 1 .. n : e[i] = d[i]
        /\ e[n + 1] = rec
    OBVIOUS
  <1> HIDE DEF e, n
  <1>2. IsFiniteSet(OfType(d, t)) /\ n + 1 \notin OfType(d, t)
    <2>1. IsFiniteSet(1 .. n)
      BY <1>1, FS_Interval
    <2>2. OfType(d, t) \subseteq 1 .. n
      BY <1>1 DEF OfType
    <2> QED
      BY <1>1, <2>1, <2>2, FS_Subset
  <1>3. Cardinality(OfType(d, t)) \in Nat
    BY <1>2, FS_CardinalityType
  <1>4. CASE rec.type = t
    <2>1. OfType(e, t) = OfType(d, t) \cup {n + 1}
      BY <1>1, <1>4 DEF OfType
    <2> QED
      BY <1>2, <1>3, <1>4, <2>1, FS_AddElement DEF e
  <1>5. CASE rec.type # t
    <2>1. OfType(e, t) = OfType(d, t)
      BY <1>1, <1>5 DEF OfType
    <2> QED
      BY <1>3, <1>5, <2>1 DEF e
  <1> QED
    BY <1>4, <1>5

(* Comparing with the last stamp is comparing with all of them. *)
LEMMA StampsAppend ==
  ASSUME NEW f, NEW d \in Seq(Delivered), NEW rec \in Delivered,
         \A i \in 1 .. Len(d) : Stamp(f, d[i].at) \in Nat, Stamp(f, rec.at) \in Nat
  PROVE  StampsAscend(f, Append(d, rec)) <=>
           /\ StampsAscend(f, d)
           /\ d # <<>> => Stamp(f, d[Len(d)].at) <= Stamp(f, rec.at)
  <1> DEFINE n == Len(d)
             e == Append(d, rec)
  <1>1. /\ n \in Nat /\ DOMAIN d = 1 .. n /\ DOMAIN e = 1 .. n + 1
        /\ \A i \in 1 .. n : e[i] = d[i]
        /\ e[n + 1] = rec
        /\ d # <<>> <=> n # 0
    BY EmptySeq
  <1> HIDE DEF e, n
  <1>2. ASSUME StampsAscend(f, e)
        PROVE  StampsAscend(f, d) /\ (n # 0 => Stamp(f, d[n].at) <= Stamp(f, rec.at))
    <2>1. ASSUME NEW i \in 1 .. n, NEW j \in 1 .. n, i < j
          PROVE  Stamp(f, d[i].at) <= Stamp(f, d[j].at)
      <3>1. i \in DOMAIN e /\ j \in DOMAIN e /\ e[i] = d[i] /\ e[j] = d[j]
        BY <1>1
      <3> QED
        BY <1>2, <2>1, <3>1 DEF StampsAscend
    <2>2. ASSUME n # 0 PROVE Stamp(f, d[n].at) <= Stamp(f, rec.at)
      <3>1. n \in DOMAIN e /\ n + 1 \in DOMAIN e /\ n < n + 1 /\ e[n] = d[n] /\ e[n + 1] = rec
        BY <1>1, <2>2
      <3> QED
        BY <1>2, <3>1 DEF StampsAscend
    <2> QED
      BY <1>1, <2>1, <2>2 DEF StampsAscend
  <1>3. ASSUME StampsAscend(f, d), n # 0 => Stamp(f, d[n].at) <= Stamp(f, rec.at)
        PROVE  StampsAscend(f, e)
    <2>1. ASSUME NEW i \in 1 .. n + 1, NEW j \in 1 .. n + 1, i < j
          PROVE  Stamp(f, e[i].at) <= Stamp(f, e[j].at)
      <3>1. i \in 1 .. n /\ e[i] = d[i] /\ n # 0 /\ n \in 1 .. n
        BY <1>1, <2>1
      <3>2. CASE j \in 1 .. n
        BY <1>1, <1>3, <2>1, <3>1, <3>2 DEF StampsAscend
      <3>3. CASE j = n + 1
        <4>1. Stamp(f, d[i].at) <= Stamp(f, d[n].at)
          <5>1. CASE i = n
            <6>1. Stamp(f, d[n].at) \in Nat
              BY <3>1 DEF n
            <6> QED
              BY <5>1, <6>1
          <5>2. CASE i < n
            BY <1>1, <1>3, <3>1, <5>2 DEF StampsAscend
          <5> QED
            BY <1>1, <3>1, <5>1, <5>2
        <4>2. Stamp(f, d[i].at) \in Nat /\ Stamp(f, d[n].at) \in Nat
          BY <3>1 DEF n
        <4>3. e[j] = rec
          BY <1>1, <3>3
        <4> DEFINE x == Stamp(f, d[i].at)
                   y == Stamp(f, d[n].at)
                   z == Stamp(f, rec.at)
        <4>4. x \in Nat /\ y \in Nat /\ z \in Nat /\ x <= y /\ y <= z
          BY <1>3, <3>1, <4>1, <4>2
        <4> HIDE DEF x, y, z
        <4>5. x <= z
          BY <4>4
        <4> QED
          BY <3>1, <4>3, <4>5 DEF x, z
      <3> QED
        BY <1>1, <3>2, <3>3
    <2> QED
      BY <1>1, <2>1 DEF StampsAscend
  <1> QED
    BY <1>1, <1>2, <1>3 DEF n, e

(* Every record handed over so far holds a whole timestamp. *)
LEMMA DeliveredStamps ==
  ASSUME IInv
  PROVE  /\ delivered \in Seq(Delivered) /\ file \in Seq(Byte)
         /\ \A i \in 1 .. Len(delivered) :
              HasStamp(file, delivered[i].at) /\ Stamp(file, delivered[i].at) \in Nat
  <1>1. delivered \in Seq(Delivered) /\ file \in Seq(Byte)
    BY FileFacts DEF IInv, TypeOK, Delivered
  <1>2. ASSUME NEW i \in 1 .. Len(delivered)
        PROVE  HasStamp(file, delivered[i].at) /\ Stamp(file, delivered[i].at) \in Nat
    <2>1. delivered[i] \in Delivered
      BY <1>1
    <2>2. delivered[i].at \in Nat
      BY <2>1 DEF Delivered
    <2>3. GoodRecord(file, delivered[i].at)
      BY DEF IInv, DeliveredTileThePrefix
    <2>4. HasStamp(file, delivered[i].at)
      BY <1>1, <2>2, <2>3, GoodHasStamp
    <2> QED
      BY <1>1, <2>4, StampFacts
  <1> QED
    BY <1>1, <1>2

(* What is decoded from a record that is about to be dispatched. *)
LEMMA DispatchFacts ==
  ASSUME IInv, Deliver
  PROVE  /\ GoodRecord(file, offset) /\ offset \in Nat
         /\ type \in Byte /\ event_code \in Byte
         /\ timestamp_ns = Stamp(file, offset) /\ timestamp_ns \in Nat
         /\ [at |-> offset, type |-> type, length |-> declared] \in Delivered
         /\ delivered' = Append(delivered, [at |-> offset, type |-> type, length |-> declared])
         /\ file' = file /\ returned' = returned
         /\ outcome'.messages = outcome.messages + 1
  <1>1. TypeOK /\ InLoop /\ TypeReadable /\ expected # 0 /\ expected = declared
    BY DEF IInv, Deliver, TypeReadable
  <1>2. offset \in Nat /\ type \in Byte /\ declared \in Nat
    BY <1>1, Checks DEF TypeOK
  <1>3. GoodRecord(file, offset)
    BY <1>1, DeliversGoodRecords
  <1>4. file \in Seq(Byte) /\ \A i \in Nat : ByteAt(i) \in Byte
    BY <1>1, FileFacts
  <1>5. event_code \in Byte
    <2>1. offset + 2 + EventAt \in Nat
      BY <1>2, LayoutAssumption
    <2> QED
      BY <1>4, <2>1 DEF event_code
  <1>6. HasStamp(file, offset)
    BY <1>2, <1>3, <1>4, GoodHasStamp
  <1>7. timestamp_ns = Stamp(file, offset) /\ timestamp_ns \in Nat
    BY <1>1, <1>4, <1>6, StampRead, StampFacts
  <1>8. [at |-> offset, type |-> type, length |-> declared] \in Delivered
    BY <1>2 DEF Delivered
  <1>9. /\ delivered' = Append(delivered, [at |-> offset, type |-> type, length |-> declared])
        /\ file' = file /\ returned' = returned
        /\ outcome' = [outcome EXCEPT !.messages = outcome.messages + 1,
                                      !.bytes_consumed = offset']
    BY DEF Deliver
  <1>10. outcome'.messages = outcome.messages + 1
    BY <1>1, <1>9 DEF TypeOK
  <1> QED
    BY <1>2, <1>3, <1>5, <1>7, <1>8, <1>9, <1>10

(* A record dispatched to the census keeps the invariant. *)
LEMMA DispatchKeeps ==
  ASSUME CInv, DispatchRecord
  PROVE  CInv'
  <1> DEFINE rec == [at |-> offset, type |-> type, length |-> declared]
             s   == timestamp_ns
  <1>1. /\ IInv /\ Deliver /\ census \in Census /\ exit_code = Running /\ exit_code' = exit_code
        /\ census' = SessionCensusOn(census)
    BY DEF CInv, DispatchRecord, Mapped
  <1>2. IInv'
    BY <1>1, DeliverPreserves
  <1>3. /\ type \in Byte /\ event_code \in Byte
        /\ s = Stamp(file, offset) /\ s \in Nat
        /\ rec \in Delivered /\ delivered' = Append(delivered, rec)
        /\ file' = file /\ outcome'.messages = outcome.messages + 1
    BY <1>1, DispatchFacts
  <1>4. /\ delivered \in Seq(Delivered) /\ file \in Seq(Byte)
        /\ \A i \in 1 .. Len(delivered) : Stamp(file, delivered[i].at) \in Nat
    BY <1>1, DeliveredStamps
  <1>5. /\ census' \in Census
        /\ census'.counts_ = [census.counts_ EXCEPT ![type] = census.counts_[type] + 1]
        /\ census'.total_ = census.total_ + 1
        /\ census'.last_timestamp_ns_ = s
        /\ census'.backwards_timestamps_ =
             IF census.total_ # 0 /\ s < census.last_timestamp_ns_
               THEN census.backwards_timestamps_ + 1 ELSE census.backwards_timestamps_
    BY <1>1, <1>3, CensusOnFacts
  <1>6. rec.at = offset /\ rec.type = type
    OBVIOUS
  <1>7. /\ census.total_ \in Nat /\ census.backwards_timestamps_ \in Nat
        /\ census.counts_ \in [Byte -> Nat]
    BY <1>1 DEF Census
  <1>8. census.total_ = outcome.messages /\ outcome.messages = Len(delivered)
    BY DEF CInv, CensusAccountsForAll, IInv, DeliveredTileThePrefix
  <1> HIDE DEF rec, s
  <1>9. CensusAccountsForAll'
    <2>1. census'.total_ = outcome'.messages
      BY <1>3, <1>5, <1>8
    <2>2. ASSUME NEW t \in Byte
          PROVE  census'.counts_[t] = Cardinality(OfType(delivered', t))
      <3>1. census.counts_[t] = Cardinality(OfType(delivered, t))
        BY DEF CInv, CensusAccountsForAll, OfType
      <3>2. census'.counts_[t] = IF t = type THEN census.counts_[t] + 1 ELSE census.counts_[t]
        BY <1>5, <1>7
      <3>3. Cardinality(OfType(delivered', t)) =
              IF rec.type = t THEN Cardinality(OfType(delivered, t)) + 1
                              ELSE Cardinality(OfType(delivered, t))
        BY <1>3, <1>4, OfTypeAppend
      <3> QED
        BY <1>6, <3>1, <3>2, <3>3
    <2> QED
      BY <2>1, <2>2 DEF CensusAccountsForAll, OfType
  <1>10. Clock'
    <2> DEFINE n == Len(delivered)
    <2>1. /\ delivered' # <<>> /\ Len(delivered') = n + 1 /\ delivered'[n + 1] = rec
          /\ n \in Nat /\ (delivered # <<>> <=> n # 0)
      BY <1>3, <1>4, EmptySeq
    <2>2. census'.last_timestamp_ns_ = Stamp(file', delivered'[Len(delivered')].at)
      BY <1>3, <1>5, <1>6, <2>1
    <2>3. StampsAscend(file', delivered') <=>
            /\ StampsAscend(file, delivered)
            /\ delivered # <<>> => Stamp(file, delivered[n].at) <= Stamp(file, rec.at)
      <3>1. Stamp(file, rec.at) \in Nat
        BY <1>3, <1>6
      <3> QED
        BY <1>3, <1>4, <3>1, StampsAppend
    <2>4. /\ delivered # <<>> => census.last_timestamp_ns_ = Stamp(file, delivered[n].at)
          /\ census.backwards_timestamps_ = 0 <=> StampsAscend(file, delivered)
      BY DEF CInv, Clock
    <2>5. Stamp(file, rec.at) = s /\ (census.total_ # 0 <=> delivered # <<>>)
      BY <1>3, <1>6, <1>8, <2>1
    <2> DEFINE last == census.last_timestamp_ns_
    <2>6. last \in Nat
      BY <1>1 DEF Census
    <2> HIDE DEF last, n
    <2>7. census'.backwards_timestamps_ = 0 <=>
            census.backwards_timestamps_ = 0 /\ ~(delivered # <<>> /\ s < last)
      BY <1>5, <1>7, <2>5 DEF last
    <2>8. (delivered # <<>> => Stamp(file, delivered[n].at) <= Stamp(file, rec.at))
            <=> ~(delivered # <<>> /\ s < last)
      <3>1. ~(s < last) <=> last <= s
        BY <1>3, <2>6
      <3> QED
        BY <2>4, <2>5, <3>1 DEF last
    <2>9. census'.backwards_timestamps_ = 0 <=> StampsAscend(file', delivered')
      BY <2>3, <2>4, <2>7, <2>8
    <2> QED
      BY <2>2, <2>9 DEF Clock
  <1>11. Exited'
    BY <1>1 DEF Exited, Running
  <1> QED
    BY <1>2, <1>5, <1>9, <1>10, <1>11 DEF CInv

(* So does everything that adds no record. *)
LEMMA SameCensusKeeps ==
  ASSUME CInv, IInv', UNCHANGED <<file, delivered, census>>,
         outcome'.messages = outcome.messages, Exited'
  PROVE  CInv'
  <1>1. census' \in Census
    BY DEF CInv
  <1>2. CensusAccountsForAll'
    BY DEF CInv, CensusAccountsForAll
  <1>3. Clock'
    BY DEF CInv, Clock
  <1> QED
    BY <1>1, <1>2, <1>3 DEF CInv

(***************************************************************************)
(* The inductive invariant of itch_count: the census holds what the framer *)
(* delivered, and the count of backward timestamps, although each is       *)
(* compared only with the one before, is zero exactly while the stamps of  *)
(* all the records ascend.                                                 *)
(***************************************************************************)
THEOREM CountInductive == CountSpec => []CInv
  <1>1. CountInit => CInv
    <2> SUFFICES ASSUME CountInit PROVE CInv
      OBVIOUS
    <2>1. IInv
      BY WalkStarts DEF CountInit
    <2>2. /\ census = [counts_ |-> [t \in Byte |-> 0], total_ |-> 0, backwards_timestamps_ |-> 0,
                       first_timestamp_ns_ |-> 0, last_timestamp_ns_ |-> 0,
                       system_events_ |-> <<>>]
          /\ exit_code = Running /\ delivered = <<>> /\ outcome.messages = 0
      BY DEF CountInit, Init
    <2>3. census \in Census
      BY <2>2 DEF Census
    <2>4. CensusAccountsForAll
      <3>1. ASSUME NEW t \in Byte
            PROVE  {i \in DOMAIN delivered : delivered[i].type = t} = {}
        BY <2>2
      <3>2. Cardinality({}) = 0
        BY FS_EmptySet
      <3>3. census.total_ = 0 /\ \A t \in Byte : census.counts_[t] = 0
        BY <2>2
      <3> QED
        BY <2>2, <3>1, <3>2, <3>3 DEF CensusAccountsForAll
    <2>5. Clock
      BY <2>2 DEF Clock, StampsAscend
    <2>6. Exited
      BY <2>2 DEF Exited, Running
    <2> QED
      BY <2>1, <2>3, <2>4, <2>5, <2>6 DEF CInv
  <1>2. CInv /\ [CountNext]_countVars => CInv'
    <2> SUFFICES ASSUME CInv, [CountNext]_countVars PROVE CInv'
      OBVIOUS
    <2>1. CASE Refuse
      <3>1. UNCHANGED vars /\ UNCHANGED census /\ exit_code' = 2
        BY <2>1 DEF Refuse, vars
      <3>2. IInv'
        BY <3>1, WalkStep DEF CInv
      <3>3. Exited'
        BY <3>1 DEF Exited
      <3> QED
        BY <3>1, <3>2, <3>3, SameCensusKeeps DEF vars
    <2>2. CASE DispatchRecord
      BY <2>2, DispatchKeeps
    <2>3. CASE FramingStops
      <3>1. Next /\ UNCHANGED <<census, exit_code, file, delivered>> /\ exit_code = Running
        BY <2>3 DEF FramingStops, Mapped, Next, TruncatedPrefix, ZeroLength, TruncatedRecord,
                    UnknownType, LengthMismatch, ReturnAtEnd, Stop
      <3>2. IInv'
        BY <3>1, WalkStep DEF CInv
      <3>3. Exited'
        BY <3>1 DEF Exited, Running
      <3>4. outcome'.messages = outcome.messages
        BY <2>3 DEF CInv, IInv, TypeOK, FramingStops, TruncatedPrefix, ZeroLength,
                    TruncatedRecord, UnknownType, LengthMismatch, ReturnAtEnd, Stop
      <3> QED
        BY <3>1, <3>2, <3>3, <3>4, SameCensusKeeps
    <2>4. CASE Exit
      <3>1. UNCHANGED vars /\ UNCHANGED census /\ returned
            /\ exit_code' = IF healthy THEN 0 ELSE 1
        BY <2>4 DEF Exit, vars
      <3>2. IInv'
        BY <3>1, WalkStep DEF CInv
      <3>3. healthy' <=> healthy
        BY <3>1 DEF healthy, framed_completely, counts_agree, timestamps_monotonic, vars, size
      <3>4. Exited'
        BY <3>1, <3>3 DEF Exited, vars
      <3> QED
        BY <3>1, <3>2, <3>4, SameCensusKeeps DEF vars
    <2>5. CASE UNCHANGED countVars
      <3>1. UNCHANGED vars /\ UNCHANGED census /\ exit_code' = exit_code
        BY <2>5 DEF countVars, vars
      <3>2. IInv'
        BY <3>1, WalkStep DEF CInv
      <3>3. healthy' <=> healthy
        BY <3>1 DEF healthy, framed_completely, counts_agree, timestamps_monotonic, vars, size
      <3>4. Exited'
        BY <3>1, <3>3 DEF CInv, Exited, vars
      <3> QED
        BY <3>1, <3>2, <3>4, SameCensusKeeps DEF vars
    <2> QED
      BY <2>1, <2>2, <2>3, <2>4, <2>5 DEF CountNext
  <1> QED
    BY <1>1, <1>2, PTL DEF CountSpec

(* For every file, the census accounts for every record, so the tool's     *)
(* "counts agree with framer" line can only print ok. *)
THEOREM CensusComplete == CountSpec => []CensusAccountsForAll
  <1>1. CInv => CensusAccountsForAll
    BY DEF CInv
  <1> QED
    BY <1>1, CountInductive, PTL

(* For every file main() could map, its exit code is 0 exactly when the    *)
(* file is well framed and no timestamp is earlier than any before it. *)
THEOREM ExitCodeRight == CountSpec => []ExitZeroIffHealthy
  <1>1. CInv => ExitZeroIffHealthy
    <2> SUFFICES ASSUME CInv, exit_code \in {0, 1}
                 PROVE  exit_code = 0 <=>
                          /\ WellFramed(file, size)
                          /\ \A i, j \in DOMAIN delivered : i < j =>
                               NotAfter(TimestampOf(delivered[i].at), TimestampOf(delivered[j].at))
      BY DEF ExitZeroIffHealthy
    <2>1. IInv /\ returned /\ (exit_code = 0 <=> healthy)
      BY DEF CInv, Exited
    <2>2. framed_completely <=> WellFramed(file, size)
      <3>1. outcome.error = None <=> WellFramed(file, size)
        BY <2>1, VerdictIsRight DEF CompleteIffWellFramed
      <3>2. outcome.error = None => outcome.bytes_consumed = size
        BY <2>1 DEF IInv, Walk, Verdict
      <3> QED
        BY <3>1, <3>2 DEF framed_completely
    <2>3. counts_agree
      BY DEF CInv, CensusAccountsForAll, counts_agree
    <2>4. timestamps_monotonic <=> StampsAscend(file, delivered)
      BY DEF CInv, Clock, timestamps_monotonic
    <2>5. /\ delivered \in Seq(Delivered) /\ file \in Seq(Byte)
          /\ \A i \in 1 .. Len(delivered) : HasStamp(file, delivered[i].at)
      BY <2>1, DeliveredStamps
    <2>6. ASSUME NEW i \in DOMAIN delivered, NEW j \in DOMAIN delivered
          PROVE  Stamp(file, delivered[i].at) <= Stamp(file, delivered[j].at) <=>
                   NotAfter(TimestampOf(delivered[i].at), TimestampOf(delivered[j].at))
      <3>1. HasStamp(file, delivered[i].at) /\ HasStamp(file, delivered[j].at)
        BY <2>5
      <3>2. \A at : TimestampOf(at) = StampBytes(file, at)
        BY DEF TimestampOf, StampBytes
      <3>3. Stamp(file, delivered[i].at) <= Stamp(file, delivered[j].at) <=>
              NotAfter(StampBytes(file, delivered[i].at), StampBytes(file, delivered[j].at))
        BY <2>5, <3>1, StampOrder
      <3> QED
        BY <3>2, <3>3
    <2>7. StampsAscend(file, delivered) <=>
            \A i, j \in DOMAIN delivered : i < j =>
              NotAfter(TimestampOf(delivered[i].at), TimestampOf(delivered[j].at))
      BY <2>6 DEF StampsAscend
    <2> QED
      BY <2>1, <2>2, <2>3, <2>4, <2>7 DEF healthy
  <1> QED
    BY <1>1, CountInductive, PTL

-----------------------------------------------------------------------------
(* itch_count implements reference_count.py *)

(* What the script reads are the framer's pieces of the file. *)
LEMMA ScriptReads ==
  ASSUME IInv, ~returned
  PROVE  /\ ReferenceCount!prefix = Prefix
         /\ Len(Prefix) = 2 =>
              ReferenceCount!declared = declared /\ ReferenceCount!record = Body
  <1>1. outcome.bytes_consumed = offset
    BY DEF IInv, Walk
  <1>2. ReferenceCount!prefix = Prefix
    BY <1>1 DEF ReferenceCount!prefix, ReferenceCount!read, Prefix, Piece
  <1>3. Len(Prefix) = 2 => Prefix[1] * ByteBase + Prefix[2] = declared
    BY PrefixRead
  <1>4. Len(Prefix) = 2 => ReferenceCount!declared = declared
    BY <1>2, <1>3 DEF ReferenceCount!declared
  <1> QED
    BY <1>1, <1>2, <1>4 DEF ReferenceCount!record, ReferenceCount!read, Body, Piece

(* A step the script takes, or one it does not notice.                      *)
ScriptStep == [ReferenceCount!Next]_(ReferenceCount!refVars)

(* What the script has gathered, of a census.                               *)
Gathered(c) == [counts        |-> c.counts_,
                system_events |-> c.system_events_,
                total         |-> c.total_]

(* The framer's returns are the script's breaks. *)
LEMMA StopStep ==
  ASSUME CInv, FramingStops
  PROVE  ReferenceCount!Next
  <1> DEFINE e == ScriptError(outcome'.error)
  <1>1. IInv /\ Returns /\ UNCHANGED census
    BY DEF CInv, FramingStops, Returns
  <1>2. /\ ~returned /\ returned' = TRUE /\ UNCHANGED file
        /\ outcome'.bytes_consumed = outcome.bytes_consumed
        /\ Leaves(e)
    BY <1>1, ReturnsAgree
  <1>3. ReferenceCount!Break(e)
    BY <1>1, <1>2 DEF ReferenceCount!Break, ScriptError
  <1>4. /\ ReferenceCount!prefix = Prefix
        /\ Len(Prefix) = 2 => ReferenceCount!declared = declared /\ ReferenceCount!record = Body
    BY <1>1, <1>2, ScriptReads
  <1> HIDE DEF e
  <1>5. WholeBody => ReferenceCount!Whole /\ (ReferenceCount!Known <=> KnownBody)
    BY <1>2, <1>4 DEF WholeBody, KnownBody, ReferenceCount!Whole, ReferenceCount!Known
  <1> USE DEF ReferenceCount!Next
  <1>6. CASE e = None /\ Len(Prefix) = 0
    BY <1>2, <1>3, <1>4, <1>6 DEF ReferenceCount!EndOfFile, ReferenceCount!None, None
  <1>7. CASE e = "TruncatedPrefix" /\ Len(Prefix) = 1
    BY <1>2, <1>3, <1>4, <1>7 DEF ReferenceCount!ShortPrefix
  <1>8. CASE e = "TruncatedRecord" /\ Len(Prefix) = 2 /\ Len(Body) < declared
    BY <1>2, <1>3, <1>4, <1>8 DEF ReferenceCount!ShortRecord
  <1>9. CASE e = "UnknownType" /\ WholeBody /\ ~KnownBody
    BY <1>3, <1>5, <1>9 DEF ReferenceCount!NoSuchType
  <1>10. CASE /\ e = "LengthMismatch" /\ WholeBody /\ KnownBody
              /\ SpecLength[Body[1]] # declared
    BY <1>3, <1>4, <1>5, <1>10 DEF ReferenceCount!WrongLength, ReferenceCount!Expected, WholeBody
  <1> QED
    BY <1>2, <1>6, <1>7, <1>8, <1>9, <1>10 DEF Leaves

(* A record dispatched to the census is one the script takes. *)
LEMMA TakeStep ==
  ASSUME CInv, DispatchRecord
  PROVE  ReferenceCount!Next
  <1> DEFINE r == Body
  <1>1. /\ IInv /\ TypeOK /\ Deliver /\ census \in Census
        /\ census' = SessionCensusOn(census)
        /\ TypeReadable /\ expected # 0 /\ expected = declared /\ ~returned
    BY DEF CInv, IInv, DispatchRecord, Deliver, TypeReadable, InLoop
  <1>2. /\ ReferenceCount!Whole /\ ReferenceCount!Known /\ ReferenceCount!Expected
        /\ ReferenceCount!declared = declared /\ ReferenceCount!record = r
        /\ r[1] = type
        /\ \A i \in 1 .. declared : r[i] = file[offset + 2 + i]
    <2>1. /\ WholeBody /\ KnownBody /\ SpecLength[Body[1]] = declared /\ Body[1] = type
          /\ \A i \in 1 .. declared : Body[i] = file[offset + 2 + i]
      BY <1>1, DeliveryAgrees
    <2>2. /\ ReferenceCount!prefix = Prefix
          /\ ReferenceCount!declared = declared /\ ReferenceCount!record = Body
      BY <1>1, <2>1, ScriptReads DEF WholeBody
    <2> QED
      BY <1>1, <2>1, <2>2
      DEF WholeBody, KnownBody, ReferenceCount!Whole, ReferenceCount!Known, ReferenceCount!Expected
  <1>3. /\ type \in Byte /\ event_code \in Byte /\ timestamp_ns \in Nat
        /\ file' = file /\ returned' = returned /\ offset \in Nat
    BY <1>1, DispatchFacts
  <1>4. InLoop /\ type = file[offset + 3] /\ expected = SpecLength[type]
    BY <1>1, Checks DEF TypeReadable, expected, spec_message_length
  <1>5. type = SystemEventType => r[EventAt + 1] = event_code
    <2> SUFFICES ASSUME type = SystemEventType PROVE r[EventAt + 1] = event_code
      OBVIOUS
    <2>1. EventAt \in Nat /\ EventAt < declared /\ declared \in Nat
      BY <1>1, <1>4, LayoutAssumption, Checks
    <2>2. EventAt + 1 \in 1 .. declared
      BY <2>1
    <2>3. r[EventAt + 1] = file[offset + 2 + (EventAt + 1)]
      BY <1>2, <2>2
    <2>4. PrefixFits /\ RecordFits /\ (RecordFits <=> offset + 2 + declared <= size)
      BY <1>1, <1>4, Checks DEF TypeReadable
    <2>5. size \in Nat
      BY <1>1, FileFacts
    <2>6. offset + 2 + EventAt < size /\ offset + 2 + (EventAt + 1) = (offset + 2 + EventAt) + 1
      BY <1>3, <2>1, <2>4, <2>5
    <2>7. event_code = file[(offset + 2 + EventAt) + 1]
      BY <2>6 DEF event_code, ByteAt
    <2> QED
      BY <2>3, <2>6, <2>7
  <1>6. /\ census'.counts_ = [census.counts_ EXCEPT ![type] = census.counts_[type] + 1]
        /\ census'.total_ = census.total_ + 1
        /\ census'.system_events_ = IF type = SystemEventType
                                      THEN Append(census.system_events_, event_code)
                                      ELSE census.system_events_
    BY <1>1, <1>3, CensusOnFacts
  <1> HIDE DEF r
  <1>8. Gathered(census') = CountRecord(Gathered(census), r)
    <2>1. /\ Gathered(census).counts = census.counts_ /\ Gathered(census).total = census.total_
          /\ Gathered(census).system_events = census.system_events_
      BY DEF Gathered
    <2>2. CountRecord(Gathered(census), r)
            = [counts        |-> [census.counts_ EXCEPT ![type] = census.counts_[type] + 1],
               system_events |-> IF type = SystemEventType
                                   THEN Append(census.system_events_, event_code)
                                   ELSE census.system_events_,
               total         |-> census.total_ + 1]
      BY <1>2, <1>5, <2>1 DEF CountRecord
    <2> QED
      BY <1>6, <2>2 DEF Gathered
  <1>9. /\ outcome'.bytes_consumed = outcome.bytes_consumed + 2 + declared
        /\ outcome'.error = outcome.error
    BY <1>1, DeliveryAgrees
  <1>10. ReferenceCount!Take
    BY <1>2, <1>3, <1>8, <1>9 DEF ReferenceCount!Take, Gathered
  <1> QED
    BY <1>10 DEF ReferenceCount!Next

(***************************************************************************)
(* For every file, itch_count implements reference_count.py: after every   *)
(* record the same counts, event codes, total and bytes consumed, and the  *)
(* loop is left at the same byte for the same reason, a zero length being  *)
(* to the script a record without a type.                                  *)
(***************************************************************************)
THEOREM ImplementsCount == CountSpec => RefinesReferenceCount
  <1>1. CountInit => ReferenceCount!Init
    <2> SUFFICES ASSUME CountInit PROVE ReferenceCount!Init
      OBVIOUS
    <2>1. /\ outcome.bytes_consumed = 0 /\ outcome.error = None /\ returned = FALSE
          /\ census.counts_ = [t \in Byte |-> 0] /\ census.total_ = 0
          /\ census.system_events_ = <<>>
      BY DEF CountInit, Init
    <2> QED
      BY <2>1 DEF ReferenceCount!Init, ReferenceCount!None, None
  <1>2. CInv /\ [CountNext]_countVars => [ReferenceCount!Next]_(ReferenceCount!refVars)
    <2> SUFFICES ASSUME CInv, [CountNext]_countVars PROVE ScriptStep
      BY DEF ScriptStep
    <2>1. CASE Refuse
      BY <2>1 DEF Refuse, ScriptStep, ReferenceCount!refVars
    <2>2. CASE DispatchRecord
      BY <2>2, TakeStep DEF ScriptStep
    <2>3. CASE FramingStops
      BY <2>3, StopStep DEF ScriptStep
    <2>4. CASE Exit
      BY <2>4 DEF Exit, ScriptStep, ReferenceCount!refVars
    <2>5. CASE UNCHANGED countVars
      BY <2>5 DEF countVars, ScriptStep, ReferenceCount!refVars
    <2> QED
      BY <2>1, <2>2, <2>3, <2>4, <2>5 DEF CountNext
  <1> QED
    BY <1>1, <1>2, CountInductive, PTL DEF CountSpec, RefinesReferenceCount, ReferenceCount!Spec
-----------------------------------------------------------------------------
(* The run ends *)

(* The iterations left, and the return from main().                         *)
StepsLeft == Fuel + IF exit_code = Running THEN 1 ELSE 0

(***************************************************************************)
(* itch_count exits after at most as many steps as its file has bytes      *)
(* and two: each step lowers a number that is never negative.              *)
(***************************************************************************)
THEOREM CountDescends == CountSpec => [](StepsLeft \in Nat) /\ [][StepsLeft' < StepsLeft]_countVars
  <1>1. CInv => StepsLeft \in Nat
    BY FuelFacts DEF CInv, StepsLeft
  <1>2. CInv /\ [CountNext]_countVars => [StepsLeft' < StepsLeft]_countVars
    <2> SUFFICES ASSUME CInv, CountNext PROVE StepsLeft' < StepsLeft
      OBVIOUS
    <2>1. IInv /\ Fuel \in Nat
      BY FuelFacts DEF CInv
    <2>2. CASE DispatchRecord \/ FramingStops
      <3>1. Next /\ exit_code' = exit_code /\ exit_code = Running
        BY <2>2 DEF DispatchRecord, FramingStops, Mapped, Next
      <3>2. Fuel' \in Int /\ Fuel' < Fuel
        BY <2>1, <3>1, StepBurnsFuel
      <3> QED
        <4>1. StepsLeft = Fuel + 1 /\ StepsLeft' = Fuel' + 1
          BY <3>1 DEF StepsLeft, Running
        <4>2. Fuel \in Int /\ \A m, n \in Int : m < n => m + 1 < n + 1
          BY <2>1
        <4> QED
          BY <3>2, <4>1, <4>2, Zenon
    <2>3. CASE Refuse \/ Exit
      <3>1. Fuel' = Fuel
        BY <2>3 DEF Refuse, Exit, Fuel, size
      <3>2. exit_code = Running /\ exit_code' \in {0, 1, 2}
        BY <2>3 DEF Refuse, Exit
      <3> QED
        BY <2>1, <3>1, <3>2 DEF StepsLeft, Running
    <2> QED
      BY <2>2, <2>3 DEF CountNext
  <1> QED
    BY <1>1, <1>2, CountInductive, PTL DEF CountSpec
=============================================================================
