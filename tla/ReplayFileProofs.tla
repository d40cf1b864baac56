-------------------------- MODULE ReplayFileProofs --------------------------
(***************************************************************************)
(* The safety properties of ReplayFile, for every file and every symbol    *)
(* that does not end in a blank, and that book_replay implements the       *)
(* script's loop.                                                          *)
(***************************************************************************)
EXTENDS ReplayFile, FramerProofs, DataInduction

-----------------------------------------------------------------------------
(* Framed from a position on, and framed by a set of starts, are the same.  *)

(* The recursion that Frames is defined by.                                 *)
Solves(g, f) ==
  g = [at \in 0 .. Len(f) |-> at = Len(f) \/ (GoodRecord(f, at) /\ g[EndOf(f, at)])]

(* Where a good record ends. *)
LEMMA GoodEnd ==
  ASSUME NEW f \in Seq(Byte), NEW at \in Nat, GoodRecord(f, at)
  PROVE  EndOf(f, at) \in 0 .. Len(f) /\ at + 1 <= EndOf(f, at) /\ at < Len(f)
  <1>1. at + 3 \in 1 .. Len(f) /\ Len(f) \in Nat
    BY DEF GoodRecord
  <1>2. SpecLength[f[at + 3]] \in Nat
    BY <1>1, LengthAssumption, ByteAssumption
  <1> QED
    BY <1>1, <1>2 DEF GoodRecord, EndOf

(* The recursion has a solution: what remains can be cut by a set of starts. *)
LEMMA FramesExists ==
  ASSUME NEW f \in Seq(Byte)
  PROVE  \E g : Solves(g, f)
  <1> DEFINE n == Len(f)
             Cut(at, starts) == /\ at \in starts /\ n \in starts
                                /\ \A s \in starts \ {n} :
                                     GoodRecord(f, s) /\ EndOf(f, s) \in starts
             Can(at) == \E starts \in SUBSET (0 .. n) : Cut(at, starts)
             g == [at \in 0 .. n |-> Can(at)]
  <1>1. n \in Nat
    OBVIOUS
  <1>2. Can(n)
    <2>1. Cut(n, {n}) /\ {n} \in SUBSET (0 .. n)
      BY <1>1
    <2> HIDE DEF Cut
    <2> QED
      BY <2>1
  <1>3. ASSUME NEW at \in 0 .. n, at # n
        PROVE  Can(at) <=> GoodRecord(f, at) /\ EndOf(f, at) \in 0 .. n /\ Can(EndOf(f, at))
    <2>1. ASSUME NEW starts \in SUBSET (0 .. n), Cut(at, starts)
          PROVE  GoodRecord(f, at) /\ EndOf(f, at) \in 0 .. n /\ Cut(EndOf(f, at), starts)
      BY <1>3, <2>1
    <2>2. ASSUME NEW starts \in SUBSET (0 .. n), Cut(EndOf(f, at), starts), GoodRecord(f, at)
          PROVE  Cut(at, starts \cup {at}) /\ starts \cup {at} \in SUBSET (0 .. n)
      BY <1>3, <2>2
    <2> HIDE DEF Cut
    <2>3. ASSUME Can(at) PROVE GoodRecord(f, at) /\ EndOf(f, at) \in 0 .. n /\ Can(EndOf(f, at))
      BY <2>1, <2>3
    <2>4. ASSUME GoodRecord(f, at), Can(EndOf(f, at)) PROVE Can(at)
      <3>1. PICK starts \in SUBSET (0 .. n) : Cut(EndOf(f, at), starts)
        BY <2>4
      <3>2. Cut(at, starts \cup {at}) /\ starts \cup {at} \in SUBSET (0 .. n)
        BY <2>2, <2>4, <3>1
      <3> QED
        BY <3>2
    <2> QED
      BY <2>3, <2>4
  <1> HIDE DEF Can
  <1>4. ASSUME NEW at \in 0 .. n
        PROVE  Can(at) <=> (at = n \/ (GoodRecord(f, at) /\ g[EndOf(f, at)]))
    <2>1. CASE at = n
      BY <1>2, <2>1
    <2>2. CASE at # n
      <3>1. GoodRecord(f, at) => EndOf(f, at) \in 0 .. n
        BY GoodEnd
      <3>2. GoodRecord(f, at) => (g[EndOf(f, at)] <=> Can(EndOf(f, at)))
        BY <3>1
      <3> HIDE DEF g
      <3> QED
        BY <1>3, <2>2, <3>1, <3>2
    <2> QED
      BY <2>1, <2>2
  <1>5. \A at \in 0 .. n : Can(at) = (at = n \/ (GoodRecord(f, at) /\ g[EndOf(f, at)]))
    <2> HIDE DEF g
    <2> QED
      BY <1>4, Zenon DEF Can
  <1>6. Solves(g, f)
    BY <1>5 DEF Solves
  <1> QED
    BY <1>6

(* Every solution tells whether the whole file is well framed. *)
LEMMA SolvesFramed ==
  ASSUME NEW f \in Seq(Byte), NEW g, Solves(g, f)
  PROVE  g[0] <=> WellFramed(f, Len(f))
  <1> DEFINE n == Len(f)
  <1>1. n \in Nat
    OBVIOUS
  <1>2. ASSUME NEW at \in 0 .. n
        PROVE  g[at] <=> (at = n \/ (GoodRecord(f, at) /\ g[EndOf(f, at)]))
    BY <1>2 DEF Solves
  <1>3. ASSUME g[0] PROVE WellFramed(f, n)
    <2> DEFINE starts == {at \in 0 .. n : g[at]}
    <2>1. 0 \in starts /\ n \in starts /\ starts \in SUBSET (0 .. n)
      BY <1>1, <1>2, <1>3
    <2>2. ASSUME NEW at \in starts \ {n} PROVE GoodRecord(f, at) /\ EndOf(f, at) \in starts
      <3>1. GoodRecord(f, at) /\ g[EndOf(f, at)] /\ at \in Nat
        BY <1>2
      <3> QED
        BY <3>1, GoodEnd
    <2> HIDE DEF starts
    <2>3. FramedBy(f, n, starts)
      BY <2>1, <2>2 DEF FramedBy
    <2> QED
      BY <2>1, <2>3 DEF WellFramed
  <1>4. ASSUME WellFramed(f, n) PROVE g[0]
    <2>1. PICK starts \in SUBSET (0 .. n) : FramedBy(f, n, starts)
      BY <1>4 DEF WellFramed
    <2>2. /\ 0 \in starts /\ n \in starts
          /\ \A at \in starts \ {n} : GoodRecord(f, at) /\ EndOf(f, at) \in starts
      BY <2>1 DEF FramedBy
    <2> DEFINE T == {k \in 0 .. n : \A at \in starts : at >= n - k => g[at]}
    <2>3. 0 \in T
      <3>1. \A at \in starts : at >= n - 0 => at = n
        BY <1>1
      <3> QED
        BY <1>1, <1>2, <3>1
    <2>4. ASSUME NEW k \in 0 .. n - 1, k \in T PROVE k + 1 \in T
      <3>1. SUFFICES ASSUME NEW at \in starts, at >= n - (k + 1) PROVE g[at]
        BY <1>1
      <3>2. CASE at = n
        BY <1>2, <3>2
      <3>3. CASE at # n
        <4>1. GoodRecord(f, at) /\ EndOf(f, at) \in starts /\ at \in 0 .. n
          BY <2>2, <3>3
        <4>2. EndOf(f, at) >= n - k
          <5>1. EndOf(f, at) \in Nat /\ at + 1 <= EndOf(f, at)
            BY <4>1, GoodEnd
          <5> HIDE DEF n
          <5> QED
            BY <1>1, <3>1, <4>1, <5>1
        <4>3. g[EndOf(f, at)]
          BY <2>4, <4>1, <4>2
        <4> QED
          BY <1>2, <4>1, <4>3
      <3> QED
        BY <3>2, <3>3
    <2>5. \A k \in 0 .. n - 1 : k \in T => k + 1 \in T
      BY <2>4
    <2> HIDE DEF T
    <2>6. n \in T
      <3>1. \A k \in 0 .. n : k \in T
        BY <1>1, <2>3, <2>5, UpTo, Zenon
      <3> QED
        BY <1>1, <3>1
    <2> QED
      BY <1>1, <2>2, <2>6 DEF T
  <1> QED
    BY <1>3, <1>4

(* A file can be cut record after record exactly when it is well framed. *)
LEMMA FramesIff ==
  ASSUME NEW f \in Seq(Byte)
  PROVE  Frames(f) <=> WellFramed(f, Len(f))
  <1> DEFINE g == CHOOSE h : Solves(h, f)
  <1>1. Solves(g, f)
    BY FramesExists
  <1>2. Frames(f) <=> g[0]
    BY DEF Frames, Solves
  <1> HIDE DEF g
  <1> QED
    BY <1>1, <1>2, SolvesFramed

-----------------------------------------------------------------------------
(* The trimmed field is the symbol where the padded symbol is the field.    *)

(* The first n characters are what trim keeps of a field.                   *)
Keeps(field, n) ==
  /\ \A i \in n + 1 .. Len(field) : field[i] = Blank
  /\ n = 0 \/ field[n] # Blank

(* trim keeps something of every field. *)
LEMMA KeepsExists ==
  ASSUME NEW field \in Seq(Byte)
  PROVE  \E n \in 0 .. Len(field) : Keeps(field, n)
  <1> DEFINE w == Len(field)
             T == {n \in 0 .. w : \A i \in n + 1 .. w : field[i] = Blank}
  <1>1. w \in Nat /\ w \in T /\ T \in SUBSET Nat
    OBVIOUS
  <1>2. PICK n \in T : \A m \in T : n <= m
    <2> HIDE DEF T
    <2>1. T # {}
      BY <1>1
    <2> QED
      BY <1>1, <2>1, LeastNumber
  <1>3. n = 0 \/ field[n] # Blank
    <2> SUFFICES ASSUME n # 0, field[n] = Blank PROVE FALSE
      OBVIOUS
    <2>1. n \in 1 .. w /\ n - 1 \in 0 .. w
      BY <1>1
    <2>2. \A i \in (n - 1) + 1 .. w : i = n \/ i \in n + 1 .. w
      BY <1>1, <2>1
    <2>3. n - 1 \in T
      BY <2>1, <2>2
    <2>4. n <= n - 1
      BY <1>2, <2>3
    <2> QED
      BY <2>1, <2>4
  <1> QED
    BY <1>2, <1>3 DEF Keeps

(* And only one thing. *)
LEMMA KeepsOne ==
  ASSUME NEW field, NEW n \in 0 .. Len(field), NEW m \in 0 .. Len(field),
         Len(field) \in Nat, Keeps(field, n), Keeps(field, m)
  PROVE  n = m
  <1>1. ASSUME NEW i \in 0 .. Len(field), NEW j \in 0 .. Len(field), i < j,
               Keeps(field, i), Keeps(field, j)
        PROVE  FALSE
    BY <1>1 DEF Keeps
  <1> QED
    BY <1>1

(* What trim returns. *)
LEMMA TrimKeeps ==
  ASSUME NEW field \in Seq(Byte), NEW n \in 0 .. Len(field), Keeps(field, n)
  PROVE  /\ trim(field) \in Seq(Byte)
         /\ Len(trim(field)) = n
         /\ \A i \in 1 .. n : trim(field)[i] = field[i]
  <1> DEFINE m == CHOOSE k \in 0 .. Len(field) : Keeps(field, k)
  <1>1. m \in 0 .. Len(field) /\ Keeps(field, m)
    BY KeepsExists
  <1>2. trim(field) = SubSeq(field, 1, m)
    BY DEF trim, Keeps
  <1> HIDE DEF m
  <1>3. m = n /\ Len(field) \in Nat
    BY <1>1, KeepsOne
  <1>4. trim(field) = SubSeq(field, 1, n)
    BY <1>2, <1>3
  <1>5. \A i \in 1 .. n : field[i] \in Byte
    BY <1>3
  <1>6. /\ SubSeq(field, 1, n) \in Seq(Byte)
        /\ Len(SubSeq(field, 1, n)) = IF 1 <= n THEN n - 1 + 1 ELSE 0
        /\ \A i \in 1 .. n - 1 + 1 : SubSeq(field, 1, n)[i] = field[1 + i - 1]
    BY <1>3, <1>5, SubSeqProperties
  <1>7. \A i \in 1 .. n : i \in 1 .. n - 1 + 1 /\ 1 + i - 1 = i
    BY <1>3
  <1> QED
    BY <1>3, <1>4, <1>6, <1>7

(* What ljust returns. *)
LEMMA LjustFacts ==
  ASSUME NEW s \in Seq(Byte)
  PROVE  /\ ljust(s) \in Seq(Byte)
         /\ Len(ljust(s)) = IF Len(s) <= StockBytes THEN StockBytes ELSE Len(s)
         /\ \A i \in 1 .. Len(ljust(s)) : ljust(s)[i] = IF i <= Len(s) THEN s[i] ELSE Blank
  <1> DEFINE k   == IF Len(s) < StockBytes THEN StockBytes - Len(s) ELSE 0
             pad == [i \in 1 .. k |-> Blank]
  <1>1. k \in Nat /\ Len(s) \in Nat
    BY LayoutAssumption
  <1>2. ljust(s) = s \o pad
    BY DEF ljust
  <1>3. Len(s) + k = IF Len(s) <= StockBytes THEN StockBytes ELSE Len(s)
    BY LayoutAssumption
  <1> HIDE DEF k
  <1>4. pad \in Seq(Byte) /\ Len(pad) = k /\ \A i \in 1 .. k : pad[i] = Blank
    <2>1. pad \in [1 .. k -> Byte]
      BY LayoutAssumption
    <2>2. pad \in Seq(Byte)
      BY <1>1, <2>1, SeqDef
    <2>3. Len(pad) = k
      BY <1>1, <2>1, <2>2
    <2> QED
      BY <2>2, <2>3
  <1> HIDE DEF pad
  <1>5. /\ s \o pad \in Seq(Byte)
        /\ Len(s \o pad) = Len(s) + k
        /\ \A i \in 1 .. Len(s) + k : (s \o pad)[i] = IF i <= Len(s) THEN s[i] ELSE pad[i - Len(s)]
    BY <1>4, ConcatProperties
  <1>6. ASSUME NEW i \in 1 .. Len(s) + k, ~(i <= Len(s)) PROVE pad[i - Len(s)] = Blank
    <2>1. i - Len(s) \in 1 .. k
      BY <1>1, <1>6
    <2> QED
      BY <1>4, <2>1
  <1> QED
    BY <1>2, <1>3, <1>5, <1>6

(* The comparison of the tool, which trims, is that of the script, which pads. *)
LEMMA FieldMatches ==
  ASSUME NEW field \in Seq(Byte), Len(field) = StockBytes, NEW s \in Symbols
  PROVE  trim(field) = s <=> field = ljust(s)
  <1>1. /\ s \in Seq(Byte) /\ Len(s) \in Nat /\ StockBytes \in Nat
        /\ Len(s) # 0 => s[Len(s)] # Blank
    <2>1. s \in Seq(Byte) /\ (s = <<>> \/ Last(s) # Blank)
      BY SymbolAssumption
    <2>2. Len(s) # 0 => s # <<>>
      OBVIOUS
    <2> QED
      BY <2>1, <2>2, LayoutAssumption DEF Last
  <1>2. ASSUME trim(field) = s PROVE field = ljust(s)
    <2>1. PICK n \in 0 .. Len(field) : Keeps(field, n)
      BY KeepsExists
    <2>2. Len(s) = n /\ \A i \in 1 .. n : s[i] = field[i]
      BY <1>2, <2>1, TrimKeeps
    <2>3. \A i \in n + 1 .. Len(field) : field[i] = Blank
      BY <2>1 DEF Keeps
    <2>4. Len(ljust(s)) = Len(field) /\ ljust(s) \in Seq(Byte)
      BY <1>1, <2>2, LjustFacts
    <2>5. ASSUME NEW i \in 1 .. Len(field) PROVE field[i] = ljust(s)[i]
      <3>1. ljust(s)[i] = IF i <= n THEN s[i] ELSE Blank
        BY <1>1, <2>2, <2>4, LjustFacts
      <3>2. i <= n => i \in 1 .. n
        OBVIOUS
      <3>3. ~(i <= n) => i \in n + 1 .. Len(field)
        BY <1>1
      <3> QED
        BY <2>2, <2>3, <3>1, <3>2, <3>3
    <2> QED
      BY <2>4, <2>5, SeqEqual
  <1>3. ASSUME field = ljust(s) PROVE trim(field) = s
    <2> DEFINE n == Len(s)
    <2>1. n \in 0 .. Len(field)
      BY <1>1, <1>3, LjustFacts
    <2>2. \A i \in 1 .. Len(field) : field[i] = IF i <= n THEN s[i] ELSE Blank
      BY <1>1, <1>3, LjustFacts
    <2>3. \A i \in 1 .. n : i \in 1 .. Len(field) /\ i <= n
      BY <1>1, <2>1
    <2>4. \A i \in 1 .. n : field[i] = s[i]
      BY <2>2, <2>3
    <2>5. \A i \in n + 1 .. Len(field) : field[i] = Blank
      BY <1>1, <2>2
    <2>6. n = 0 \/ field[n] # Blank
      BY <1>1, <2>1, <2>4
    <2>7. Keeps(field, n)
      BY <2>5, <2>6 DEF Keeps
    <2> HIDE DEF n
    <2>8. /\ trim(field) \in Seq(Byte) /\ Len(trim(field)) = n
          /\ \A i \in 1 .. n : trim(field)[i] = field[i]
      BY <2>1, <2>7, TrimKeeps
    <2>9. Len(trim(field)) = Len(s) /\ \A i \in 1 .. Len(trim(field)) : trim(field)[i] = s[i]
      BY <2>4, <2>8 DEF n
    <2> QED
      BY <1>1, <2>8, <2>9, SeqEqual
  <1> QED
    BY <1>2, <1>3

-----------------------------------------------------------------------------
(* Announcements, and the records that follow one, of any list of records.  *)

Delivered == [at : Nat, type : Byte, length : Nat]

RecordOf(f, x) == SubSeq(f, x.at + 3, x.at + 2 + x.length)
LocateOf(f, x) == RecordOf(f, x)[LocateAt + 1]

IsAnnouncement(f, s, x) == x.type = DirectoryType /\ stock(RecordOf(f, x)) = ljust(s)

IsFirst(f, s, d, i) ==
  IsAnnouncement(f, s, d[i]) /\ \A j \in 1 .. i - 1 : ~IsAnnouncement(f, s, d[j])

Belongs(f, s, d, i) ==
  /\ d[i].type \in BookTypes
  /\ \E k \in 1 .. i - 1 : IsFirst(f, s, d, k) /\ LocateOf(f, d[i]) = LocateOf(f, d[k])

Belonging(f, s, d) == {i \in DOMAIN d : Belongs(f, s, d, i)}

(* The i-th of the chosen places is next to how many chosen ones before it. *)
Rank(S, i) == Cardinality({j \in S : j <= i})

(* The sequence a holds, in order, the records of the places S.             *)
Holds(a, S, f, d) ==
  /\ Len(a) = Cardinality(S)
  /\ \A i \in S : a[Rank(S, i)] = RecordOf(f, d[i])

(* The definitions of ReplayFile are those, of what was delivered.          *)
NotionsAgree ==
  /\ \A i : DeliveredRecord(i) = RecordOf(file, delivered[i])
  /\ \A i : Announces(i) <=> IsAnnouncement(file, symbol_, delivered[i])
  /\ \A i : FirstAnnounces(i) <=> IsFirst(file, symbol_, delivered, i)
  /\ OfTheSymbol = Belonging(file, symbol_, delivered)
  /\ AppliedFollowAnnouncement <=>
       Holds(applied, Belonging(file, symbol_, delivered), file, delivered)

(* They are, in every state. *)
LEMMA SameNotions == NotionsAgree
  <1>1. \A i : DeliveredRecord(i) = RecordOf(file, delivered[i])
    BY DEF DeliveredRecord, RecordOf
  <1>2. \A i : Announces(i) <=> IsAnnouncement(file, symbol_, delivered[i])
    BY <1>1 DEF Announces, IsAnnouncement
  <1>3. \A i : FirstAnnounces(i) <=> IsFirst(file, symbol_, delivered, i)
    BY <1>2 DEF FirstAnnounces, IsFirst
  <1>4. OfTheSymbol = Belonging(file, symbol_, delivered)
    BY <1>1, <1>3 DEF OfTheSymbol, Belonging, Belongs, LocateOf
  <1>5. AppliedFollowAnnouncement <=>
          Holds(applied, Belonging(file, symbol_, delivered), file, delivered)
    BY <1>1, <1>4 DEF AppliedFollowAnnouncement, Holds, Rank
  <1> QED
    BY <1>1, <1>2, <1>3, <1>4, <1>5 DEF NotionsAgree

(* There is one first announcement at most. *)
LEMMA FirstUnique ==
  ASSUME NEW f, NEW s, NEW d, NEW i \in Nat \ {0}, NEW k \in Nat \ {0},
         IsFirst(f, s, d, i), IsFirst(f, s, d, k)
  PROVE  i = k
  <1>1. ASSUME NEW a \in Nat \ {0}, NEW b \in Nat \ {0}, a < b,
               IsFirst(f, s, d, a), IsFirst(f, s, d, b)
        PROVE  FALSE
    <2>1. a \in 1 .. b - 1
      BY <1>1
    <2> QED
      BY <1>1, <2>1 DEF IsFirst
  <1> QED
    BY <1>1

(* What one more record, x after the n records of d, leaves as it is, and   *)
(* what it adds.                                                            *)
Extends(f, s, d, x, e, n) ==
  /\ n \in Nat /\ Len(e) = n + 1
  /\ DOMAIN d = 1 .. n /\ DOMAIN e = 1 .. n + 1
  /\ e[n + 1] = x /\ \A i \in 1 .. n : e[i] = d[i]
  /\ \A i \in 1 .. n : IsFirst(f, s, e, i) <=> IsFirst(f, s, d, i)
  /\ IsFirst(f, s, e, n + 1) <=>
       IsAnnouncement(f, s, x) /\ \A j \in 1 .. n : ~IsAnnouncement(f, s, d[j])
  /\ \A i \in 1 .. n : Belongs(f, s, e, i) <=> Belongs(f, s, d, i)
  /\ Belongs(f, s, e, n + 1) <=>
       /\ x.type \in BookTypes
       /\ \E k \in 1 .. n : IsFirst(f, s, d, k) /\ LocateOf(f, x) = LocateOf(f, d[k])

(* Appending a record does that. *)
LEMMA OneMoreRecord ==
  ASSUME NEW f, NEW s, NEW d \in Seq(Delivered), NEW x \in Delivered,
         NEW e, e = Append(d, x), NEW n, n = Len(d)
  PROVE  Extends(f, s, d, x, e, n)
  <1>1. /\ n \in Nat /\ e \in Seq(Delivered) /\ Len(e) = n + 1
        /\ DOMAIN d = 1 .. n /\ DOMAIN e = 1 .. n + 1
        /\ e[n + 1] = x /\ \A i \in 1 .. n : e[i] = d[i]
    BY AppendProperties, LenProperties
  <1>2. ASSUME NEW i \in 1 .. n PROVE \A j \in 1 .. i - 1 : e[j] = d[j] /\ j \in 1 .. n
    BY <1>1
  <1>3. ASSUME NEW i \in 1 .. n PROVE IsFirst(f, s, e, i) <=> IsFirst(f, s, d, i)
    BY <1>1, <1>2 DEF IsFirst
  <1>4. (n + 1) - 1 = n
    BY <1>1
  <1>5. IsFirst(f, s, e, n + 1) <=>
          IsAnnouncement(f, s, x) /\ \A j \in 1 .. n : ~IsAnnouncement(f, s, d[j])
    BY <1>1, <1>4 DEF IsFirst
  <1>6. ASSUME NEW i \in 1 .. n PROVE Belongs(f, s, e, i) <=> Belongs(f, s, d, i)
    BY <1>1, <1>2, <1>3 DEF Belongs
  <1>7. Belongs(f, s, e, n + 1) <=>
          /\ x.type \in BookTypes
          /\ \E k \in 1 .. n : IsFirst(f, s, d, k) /\ LocateOf(f, x) = LocateOf(f, d[k])
    BY <1>1, <1>3, <1>4 DEF Belongs
  <1> QED
    BY <1>1, <1>3, <1>5, <1>6, <1>7 DEF Extends

(* A record that belongs to the symbol extends what was collected at its   *)
(* end; any other leaves it. *)
LEMMA HoldsMore ==
  ASSUME NEW f, NEW s, NEW d \in Seq(Delivered), NEW x \in Delivered,
         NEW e, e = Append(d, x), NEW n, n = Len(d),
         NEW V, NEW a \in Seq(V), RecordOf(f, x) \in V,
         Holds(a, Belonging(f, s, d), f, d)
  PROVE  /\ Belongs(f, s, e, n + 1) =>
              Holds(Append(a, RecordOf(f, x)), Belonging(f, s, e), f, e)
         /\ ~Belongs(f, s, e, n + 1) => Holds(a, Belonging(f, s, e), f, e)
  <1> DEFINE B == Belonging(f, s, d)
             C == Belonging(f, s, e)
             r == RecordOf(f, x)
  <1>1. /\ n \in Nat /\ DOMAIN d = 1 .. n /\ DOMAIN e = 1 .. n + 1
        /\ e[n + 1] = x /\ \A i \in 1 .. n : e[i] = d[i]
        /\ \A i \in 1 .. n : Belongs(f, s, e, i) <=> Belongs(f, s, d, i)
    <2>1. Extends(f, s, d, x, e, n)
      BY OneMoreRecord
    <2> QED
      BY <2>1 DEF Extends
  <1>2. /\ B \in SUBSET (1 .. n) /\ n + 1 \notin B
        /\ Belongs(f, s, e, n + 1) => C = B \cup {n + 1}
        /\ ~Belongs(f, s, e, n + 1) => C = B
    <2>1. B = {i \in 1 .. n : Belongs(f, s, d, i)} /\ C = {i \in 1 .. n + 1 : Belongs(f, s, e, i)}
      BY <1>1 DEF Belonging
    <2> HIDE DEF B, C
    <2>2. B \in SUBSET (1 .. n) /\ n + 1 \notin B
      BY <1>1, <2>1
    <2>3. \A i : i \in C <=> i \in B \/ (i = n + 1 /\ Belongs(f, s, e, i))
      BY <1>1, <2>1
    <2> QED
      BY <2>2, <2>3
  <1>3. Len(a) = Cardinality(B) /\ \A i \in B : a[Rank(B, i)] = RecordOf(f, d[i])
    BY DEF Holds
  <1> HIDE DEF B, C, r
  <1>4. \A i \in B : RecordOf(f, e[i]) = RecordOf(f, d[i])
    BY <1>1, <1>2
  <1>5. ASSUME ~Belongs(f, s, e, n + 1) PROVE Holds(a, C, f, e)
    <2>1. C = B
      BY <1>2, <1>5
    <2> QED
      BY <1>3, <1>4, <2>1 DEF Holds
  <1>6. ASSUME Belongs(f, s, e, n + 1) PROVE Holds(Append(a, r), C, f, e)
    <2> DEFINE b == Append(a, r)
    <2>1. C = B \cup {n + 1}
      BY <1>2, <1>6
    <2>2. IsFiniteSet(1 .. n)
      BY <1>1, FS_Interval
    <2>3. IsFiniteSet(B)
      BY <1>2, <2>2, FS_Subset
    <2>4. Cardinality(C) = Cardinality(B) + 1 /\ Cardinality(B) \in Nat
      BY <1>2, <2>1, <2>3, FS_AddElement, FS_CardinalityType
    <2>5. /\ Len(b) = Len(a) + 1 /\ b[Len(a) + 1] = r
          /\ \A k \in 1 .. Len(a) : b[k] = a[k]
      <3>1. r \in V
        BY DEF r
      <3> QED
        BY <3>1, AppendProperties
    <2> HIDE DEF b
    <2>6. ASSUME NEW i \in B PROVE b[Rank(C, i)] = RecordOf(f, e[i])
      <3> DEFINE upto == {j \in B : j <= i}
      <3>1. {j \in C : j <= i} = upto
        BY <1>1, <1>2, <2>1
      <3>2. i \in upto /\ upto \in SUBSET B
        BY <1>2
      <3> HIDE DEF upto
      <3>3. IsFiniteSet(upto) /\ Cardinality(upto) <= Cardinality(B)
        BY <2>3, <3>2, FS_Subset
      <3>4. Cardinality(upto) \in Nat /\ Cardinality(upto) # 0
        BY <3>2, <3>3, FS_CardinalityType, FS_EmptySet
      <3>5. Cardinality(upto) \in 1 .. Len(a)
        BY <1>3, <2>4, <3>3, <3>4
      <3>6. Rank(C, i) = Cardinality(upto) /\ Rank(B, i) = Cardinality(upto)
        BY <3>1 DEF Rank, upto
      <3>7. b[Cardinality(upto)] = a[Cardinality(upto)]
        BY <2>5, <3>5
      <3>8. a[Rank(B, i)] = RecordOf(f, d[i]) /\ RecordOf(f, e[i]) = RecordOf(f, d[i])
        BY <1>3, <1>4
      <3> QED
        BY <3>6, <3>7, <3>8
    <2>7. b[Rank(C, n + 1)] = RecordOf(f, e[n + 1])
      <3>1. {j \in C : j <= n + 1} = C
        <4>1. ASSUME NEW j \in C PROVE j <= n + 1
          BY <1>1, <1>2, <2>1
        <4> QED
          BY <4>1
      <3>2. Rank(C, n + 1) = Len(a) + 1
        BY <1>3, <2>4, <3>1 DEF Rank
      <3> QED
        BY <1>1, <2>5, <3>2 DEF r
    <2>8. Len(b) = Cardinality(C)
      BY <1>3, <2>4, <2>5
    <2> QED
      BY <2>1, <2>6, <2>7, <2>8 DEF Holds, b
  <1> QED
    BY <1>5, <1>6 DEF C, r

-----------------------------------------------------------------------------
(* The inductive invariant *)

(* The symbol is resolved by the first announcement of it in d, to the      *)
(* locate in that record.                                                   *)
Resolves(f, s, d, resolved, locate) ==
  /\ resolved \in BOOLEAN
  /\ resolved => \E k \in DOMAIN d : IsFirst(f, s, d, k) /\ locate = LocateOf(f, d[k])
  /\ ~resolved => locate = 0 /\ \A i \in DOMAIN d : ~IsAnnouncement(f, s, d[i])

Resolution == symbol_ \in Symbols /\ Resolves(file, symbol_, delivered, resolved_, locate_)

(* What the exit code says.                                                 *)
ExitSays ==
  exit_code \in {0, 1} => returned /\ (exit_code = 0 <=> resolved_ /\ outcome.error = None)

FInv == IInv /\ Resolution /\ ExitSays

(* The book's share.                                                        *)
Applied == applied \in Seq(Seq(Byte)) /\ AppliedFollowAnnouncement

(* The record a delivery is of.                                             *)
Latest == [at |-> offset, type |-> type, length |-> declared]

(* A delivery appends a record, which is the one the handler decodes. *)
LEMMA LatestFacts ==
  ASSUME IInv, Deliver
  PROVE  /\ Latest \in Delivered /\ delivered \in Seq(Delivered)
         /\ delivered' = Append(delivered, Latest) /\ file' = file
         /\ Latest.type = type /\ type \in Byte
         /\ record = RecordOf(file, Latest) /\ record = Body
         /\ stock_locate = LocateOf(file, Latest)
         /\ record \in Seq(Byte) /\ Len(record) = declared /\ record[1] = type
         /\ declared = SpecLength[type] /\ declared # 0 /\ declared \in Nat
  <1>1. /\ TypeReadable /\ InLoop /\ PrefixFits /\ RecordFits /\ TypeOK /\ declared # 0
        /\ expected = declared /\ offset \in Nat
    BY DEF Deliver, TypeReadable, IInv, TypeOK
  <1>2. /\ declared \in Nat /\ type \in Byte /\ offset + 2 + declared <= size
        /\ declared = SpecLength[type] /\ size = Len(file)
    BY <1>1, Checks DEF size
  <1>3. Body \in Seq(Byte) /\ Len(Body) = declared /\ Body[1] = type
    BY DeliveryAgrees
  <1>4. record = Body
    <2>1. (offset + 2) + declared <= Len(file) /\ (offset + 2) + 1 = offset + 3
      BY <1>1, <1>2
    <2> QED
      BY <2>1 DEF record, Body, Piece
  <1>5. Latest \in Delivered /\ Latest.type = type /\ Latest.at = offset /\ Latest.length = declared
    BY <1>1, <1>2 DEF Latest, Delivered
  <1>6. record = RecordOf(file, Latest)
    BY <1>5 DEF record, RecordOf
  <1>7. stock_locate = LocateOf(file, Latest)
    BY <1>6 DEF stock_locate, LocateOf
  <1>8. /\ delivered \in Seq(Delivered) /\ delivered' = Append(delivered, Latest)
        /\ file' = file
    BY <1>1 DEF TypeOK, Delivered, Deliver, Latest
  <1> QED
    BY <1>1, <1>2, <1>3, <1>4, <1>5, <1>6, <1>7, <1>8

(* A Stock Directory names the symbol, trimmed, where it announces it. *)
LEMMA NamesAnnounced ==
  ASSUME IInv, Deliver, symbol_ \in Symbols, type = DirectoryType
  PROVE  /\ trim(stock(record)) = symbol_ <=> IsAnnouncement(file, symbol_, Latest)
         /\ stock(record) = ljust(symbol_) <=> IsAnnouncement(file, symbol_, Latest)
  <1> DEFINE field == stock(record)
  <1>1. /\ record \in Seq(Byte) /\ Len(record) = SpecLength[DirectoryType]
        /\ record = RecordOf(file, Latest) /\ Latest.type = type
    BY LatestFacts
  <1>2. /\ StockAt \in Nat /\ StockBytes \in Nat
        /\ StockAt + StockBytes <= SpecLength[DirectoryType]
    BY LayoutAssumption
  <1>3. \A i \in StockAt + 1 .. StockAt + StockBytes : record[i] \in Byte
    <2> DEFINE r == record
    <2>1. r \in Seq(Byte) /\ Len(r) = SpecLength[DirectoryType] /\ Len(r) \in Nat
      BY <1>1
    <2> HIDE DEF r
    <2>2. \A i \in StockAt + 1 .. StockAt + StockBytes : i \in 1 .. Len(r)
      BY <1>2, <2>1
    <2>3. \A i \in StockAt + 1 .. StockAt + StockBytes : r[i] \in Byte
      BY <2>1, <2>2
    <2> QED
      BY <2>3 DEF r
  <1>4. field \in Seq(Byte) /\ Len(field) = StockBytes
    <2>1. /\ field \in Seq(Byte)
          /\ Len(field) = IF StockAt + 1 <= StockAt + StockBytes
                            THEN StockAt + StockBytes - (StockAt + 1) + 1 ELSE 0
      BY <1>2, <1>3, SubSeqProperties DEF stock
    <2> HIDE DEF field
    <2> QED
      BY <1>2, <2>1
  <1>5. field = ljust(symbol_) <=> IsAnnouncement(file, symbol_, Latest)
    BY <1>1 DEF IsAnnouncement
  <1> HIDE DEF field
  <1>6. trim(field) = symbol_ <=> field = ljust(symbol_)
    BY <1>4, FieldMatches
  <1> QED
    BY <1>5, <1>6 DEF field

(* The first announcement resolves the symbol; nothing after it does, and   *)
(* nothing else. *)
LEMMA ResolvesMore ==
  ASSUME NEW f, NEW s, NEW d, NEW x, NEW e, NEW n, Extends(f, s, d, x, e, n),
         NEW resolved, NEW locate, Resolves(f, s, d, resolved, locate)
  PROVE  /\ ~resolved /\ IsAnnouncement(f, s, x) => Resolves(f, s, e, TRUE, LocateOf(f, x))
         /\ resolved \/ ~IsAnnouncement(f, s, x) => Resolves(f, s, e, resolved, locate)
  <1>1. /\ n \in Nat /\ DOMAIN d = 1 .. n /\ DOMAIN e = 1 .. n + 1
        /\ e[n + 1] = x /\ \A i \in 1 .. n : e[i] = d[i]
        /\ \A i \in 1 .. n : IsFirst(f, s, e, i) <=> IsFirst(f, s, d, i)
        /\ IsFirst(f, s, e, n + 1) <=>
             IsAnnouncement(f, s, x) /\ \A j \in 1 .. n : ~IsAnnouncement(f, s, d[j])
    BY DEF Extends
  <1>2. n + 1 \in 1 .. n + 1 /\ \A i \in 1 .. n + 1 : i = n + 1 \/ i \in 1 .. n
    BY <1>1
  <1>3. ASSUME ~resolved, IsAnnouncement(f, s, x)
        PROVE  Resolves(f, s, e, TRUE, LocateOf(f, x))
    <2>1. IsFirst(f, s, e, n + 1)
      BY <1>1, <1>3 DEF Resolves
    <2>2. \E k \in DOMAIN e : IsFirst(f, s, e, k) /\ LocateOf(f, x) = LocateOf(f, e[k])
      BY <1>1, <1>2, <2>1
    <2> QED
      BY <2>2 DEF Resolves
  <1>4. ASSUME resolved PROVE Resolves(f, s, e, resolved, locate)
    <2>1. resolved \in BOOLEAN
      BY DEF Resolves
    <2>2. PICK k \in DOMAIN d : IsFirst(f, s, d, k) /\ locate = LocateOf(f, d[k])
      BY <1>4 DEF Resolves
    <2>3. k \in DOMAIN e /\ IsFirst(f, s, e, k) /\ locate = LocateOf(f, e[k])
      BY <1>1, <2>2
    <2> QED
      BY <1>4, <2>1, <2>3 DEF Resolves
  <1>5. ASSUME ~resolved, ~IsAnnouncement(f, s, x) PROVE Resolves(f, s, e, resolved, locate)
    <2>1. /\ resolved \in BOOLEAN /\ locate = 0
          /\ \A i \in 1 .. n : ~IsAnnouncement(f, s, d[i])
      BY <1>1, <1>5 DEF Resolves
    <2>2. \A i \in DOMAIN e : ~IsAnnouncement(f, s, e[i])
      BY <1>1, <1>2, <1>5, <2>1
    <2> QED
      BY <1>5, <2>1, <2>2 DEF Resolves
  <1> QED
    BY <1>3, <1>4, <1>5

(* Whatever delivers nothing keeps the resolution. *)
LEMMA SameResolution ==
  ASSUME Resolution, UNCHANGED <<file, delivered, symbol_, resolved_, locate_>>
  PROVE  Resolution'
  BY DEF Resolution

(* Every delivery keeps it too. *)
LEMMA DeliveryResolves ==
  ASSUME FInv, OnDirectory \/ OnForwarded
  PROVE  Resolution'
  <1>1. /\ IInv /\ Deliver /\ symbol_ \in Symbols /\ symbol_' = symbol_
        /\ Resolves(file, symbol_, delivered, resolved_, locate_)
    BY DEF FInv, Resolution, OnDirectory, OnForwarded
  <1>2. /\ delivered \in Seq(Delivered) /\ Latest \in Delivered
        /\ delivered' = Append(delivered, Latest) /\ file' = file
        /\ stock_locate = LocateOf(file, Latest) /\ Latest.type = type
    BY <1>1, LatestFacts
  <1> DEFINE n == Len(delivered)
             e == Append(delivered, Latest)
  <1>3. Extends(file, symbol_, delivered, Latest, e, n)
    BY <1>2, OneMoreRecord
  <1>4. /\ ~resolved_ /\ IsAnnouncement(file, symbol_, Latest) =>
             Resolves(file, symbol_, e, TRUE, stock_locate)
        /\ resolved_ \/ ~IsAnnouncement(file, symbol_, Latest) =>
             Resolves(file, symbol_, e, resolved_, locate_)
    <2> HIDE DEF n, e
    <2> QED
      BY <1>1, <1>2, <1>3, ResolvesMore
  <1>5. delivered' = e
    BY <1>2
  <1> HIDE DEF n, e
  <1>6. Resolves(file, symbol_, e, resolved_', locate_')
    <2>1. CASE OnDirectory
      <3>1. /\ type = DirectoryType
            /\ IF ~resolved_ /\ trim(stock(record)) = symbol_
                 THEN locate_' = stock_locate /\ resolved_' = TRUE
                 ELSE locate_' = locate_ /\ resolved_' = resolved_
        BY <2>1 DEF OnDirectory
      <3>2. trim(stock(record)) = symbol_ <=> IsAnnouncement(file, symbol_, Latest)
        BY <1>1, <3>1, NamesAnnounced
      <3> QED
        BY <1>4, <3>1, <3>2
    <2>2. CASE OnForwarded
      <3>1. type # DirectoryType /\ locate_' = locate_ /\ resolved_' = resolved_
        BY <2>2 DEF OnForwarded
      <3>2. ~IsAnnouncement(file, symbol_, Latest)
        BY <1>2, <3>1 DEF IsAnnouncement
      <3> QED
        BY <1>4, <3>1, <3>2
    <2> QED
      BY <2>1, <2>2
  <1> QED
    BY <1>1, <1>2, <1>5, <1>6 DEF Resolution

(***************************************************************************)
(* The inductive invariant of book_replay over a file: beside the framer's *)
(* own, the symbol is resolved exactly if it was announced, by the first   *)
(* record that announces it, to the locate of that record.                 *)
(***************************************************************************)
THEOREM FileInductive == FileSpec => []FInv
  <1>1. FileInit => FInv
    <2> SUFFICES ASSUME FileInit PROVE FInv
      OBVIOUS
    <2>1. IInv
      BY WalkStarts DEF FileInit
    <2>2. /\ delivered = <<>> /\ symbol_ \in Symbols /\ locate_ = 0 /\ resolved_ = FALSE
          /\ exit_code = Running
      BY DEF FileInit, Init
    <2>3. Resolution
      <3>1. DOMAIN delivered = {}
        BY <2>2
      <3>2. Resolves(file, symbol_, delivered, resolved_, locate_)
        BY <2>2, <3>1 DEF Resolves
      <3> QED
        BY <2>2, <3>2 DEF Resolution
    <2>4. ExitSays
      BY <2>2 DEF ExitSays, Running
    <2> QED
      BY <2>1, <2>3, <2>4 DEF FInv
  <1>2. FInv /\ [FileNext]_fileVars => FInv'
    <2> SUFFICES ASSUME FInv, [FileNext]_fileVars PROVE FInv'
      OBVIOUS
    <2>1. CASE Refuse
      <3>1. UNCHANGED vars /\ UNCHANGED <<symbol_, resolved_, locate_>> /\ exit_code' = 2
        BY <2>1 DEF Refuse, vars
      <3>2. IInv' /\ Resolution'
        BY <3>1, WalkStep, SameResolution DEF FInv, vars
      <3>3. ExitSays'
        BY <3>1 DEF ExitSays
      <3> QED
        BY <3>2, <3>3 DEF FInv
    <2>2. CASE OnDirectory \/ OnForwarded
      <3>1. Next /\ exit_code' = exit_code /\ exit_code = Running
        BY <2>2 DEF OnDirectory, OnForwarded, Mapped, Next
      <3>2. IInv'
        BY <3>1, WalkStep DEF FInv
      <3>3. Resolution'
        BY <2>2, DeliveryResolves
      <3>4. ExitSays'
        BY <3>1 DEF ExitSays, Running
      <3> QED
        BY <3>2, <3>3, <3>4 DEF FInv
    <2>3. CASE FramingStops
      <3>1. /\ Next /\ Returns /\ UNCHANGED <<symbol_, resolved_, locate_, exit_code>>
            /\ exit_code = Running
        BY <2>3 DEF FramingStops, Mapped, Next, Returns
      <3>2. IInv' /\ UNCHANGED <<file, delivered>>
        BY <3>1, WalkStep, ReturnsAgree DEF FInv
      <3>3. Resolution'
        BY <3>1, <3>2, SameResolution DEF FInv
      <3>4. ExitSays'
        BY <3>1 DEF ExitSays, Running
      <3> QED
        BY <3>2, <3>3, <3>4 DEF FInv
    <2>4. CASE Exit
      <3>1. /\ UNCHANGED vars /\ UNCHANGED <<symbol_, resolved_, locate_>> /\ returned
            /\ exit_code' = IF resolved_ /\ outcome.error = None THEN 0 ELSE 1
        BY <2>4 DEF Exit, vars
      <3>2. IInv' /\ Resolution'
        BY <3>1, WalkStep, SameResolution DEF FInv, vars
      <3>3. ExitSays'
        BY <3>1 DEF ExitSays, vars
      <3> QED
        BY <3>2, <3>3 DEF FInv
    <2>5. CASE UNCHANGED fileVars
      <3>1. UNCHANGED vars /\ UNCHANGED <<symbol_, resolved_, locate_, exit_code>>
        BY <2>5 DEF fileVars, vars
      <3>2. IInv' /\ Resolution'
        BY <3>1, WalkStep, SameResolution DEF FInv, vars
      <3>3. ExitSays'
        BY <3>1 DEF FInv, ExitSays, vars
      <3> QED
        BY <3>2, <3>3 DEF FInv
    <2> QED
      BY <2>1, <2>2, <2>3, <2>4, <2>5 DEF FileNext
  <1> QED
    BY <1>1, <1>2, PTL DEF FileSpec

(* For every file main() could map and every symbol, its exit code is 0    *)
(* exactly when the file is well framed and some record announces the      *)
(* symbol. *)
THEOREM ReplayExitRight == FileSpec => []ReplayExitZero
  <1>1. FInv => ReplayExitZero
    <2> SUFFICES ASSUME FInv, exit_code \in {0, 1}
                 PROVE  exit_code = 0 <=>
                          Frames(file) /\ \E i \in DOMAIN delivered : Announces(i)
      BY DEF ReplayExitZero
    <2>1. returned /\ (exit_code = 0 <=> resolved_ /\ outcome.error = None) /\ IInv
      BY DEF FInv, ExitSays
    <2>2. outcome.error = None <=> Frames(file)
      <3>1. outcome.error = None <=> WellFramed(file, size)
        BY <2>1, VerdictIsRight DEF CompleteIffWellFramed
      <3>2. file \in Seq(Byte) /\ size = Len(file)
        BY <2>1, FileFacts DEF IInv, size
      <3> QED
        BY <3>1, <3>2, FramesIff
    <2>3. resolved_ <=> \E i \in DOMAIN delivered : Announces(i)
      <3>1. Resolves(file, symbol_, delivered, resolved_, locate_)
        BY DEF FInv, Resolution
      <3>2. resolved_ <=> \E i \in DOMAIN delivered : IsAnnouncement(file, symbol_, delivered[i])
        BY <3>1 DEF Resolves, IsFirst
      <3> QED
        BY <3>2, SameNotions DEF NotionsAgree
    <2> QED
      BY <2>1, <2>2, <2>3
  <1> QED
    BY <1>1, FileInductive, PTL

-----------------------------------------------------------------------------
(* What the book is given *)

(* The book's locate check passes exactly the book messages of the symbol:  *)
(* before the announcement its locate is 0, which no book message carries. *)
LEMMA LocateCheck ==
  ASSUME NEW f, NEW s, NEW d, NEW x, NEW e, NEW n, Extends(f, s, d, x, e, n),
         NEW resolved, NEW locate, Resolves(f, s, d, resolved, locate),
         x.type \in BookTypes => LocateOf(f, x) # 0
  PROVE  Belongs(f, s, e, n + 1) <=> x.type \in BookTypes /\ LocateOf(f, x) = locate
  <1>1. /\ n \in Nat /\ DOMAIN d = 1 .. n
        /\ Belongs(f, s, e, n + 1) <=>
             /\ x.type \in BookTypes
             /\ \E k \in 1 .. n : IsFirst(f, s, d, k) /\ LocateOf(f, x) = LocateOf(f, d[k])
    BY DEF Extends
  <1>2. CASE resolved
    <2>1. PICK k \in 1 .. n : IsFirst(f, s, d, k) /\ locate = LocateOf(f, d[k])
      BY <1>1, <1>2 DEF Resolves
    <2>2. ASSUME NEW i \in 1 .. n, IsFirst(f, s, d, i) PROVE i = k
      BY <1>1, <2>1, <2>2, FirstUnique
    <2> QED
      BY <1>1, <2>1, <2>2
  <1>3. CASE ~resolved
    <2>1. locate = 0 /\ \A i \in 1 .. n : ~IsAnnouncement(f, s, d[i])
      BY <1>1, <1>3 DEF Resolves
    <2> QED
      BY <1>1, <2>1 DEF IsFirst
  <1> QED
    BY <1>2, <1>3

(* What no record adds to. *)
LEMMA SameApplied ==
  ASSUME Applied, UNCHANGED <<file, delivered, symbol_, applied>>
  PROVE  Applied'
  <1>1. Holds(applied, Belonging(file, symbol_, delivered), file, delivered)
    BY SameNotions DEF Applied, NotionsAgree
  <1>2. NotionsAgree'
    BY SameNotions, PTL
  <1> QED
    BY <1>1, <1>2 DEF Applied, NotionsAgree

(* Every record delivered is appended to what the book was given, or not,   *)
(* as the property asks. *)
LEMMA DeliveryApplies ==
  ASSUME FInv, Applied, BookLocatesNotZero', OnDirectory \/ OnForwarded
  PROVE  Applied'
  <1>1. /\ IInv /\ Deliver /\ symbol_ \in Symbols /\ symbol_' = symbol_
        /\ Resolves(file, symbol_, delivered, resolved_, locate_)
    BY DEF FInv, Resolution, OnDirectory, OnForwarded
  <1>2. /\ delivered \in Seq(Delivered) /\ Latest \in Delivered
        /\ delivered' = Append(delivered, Latest) /\ file' = file
        /\ record = RecordOf(file, Latest) /\ record \in Seq(Byte)
        /\ stock_locate = LocateOf(file, Latest) /\ Latest.type = type
    BY <1>1, LatestFacts
  <1> DEFINE n == Len(delivered)
             e == Append(delivered, Latest)
             Seqs == Seq(Byte)
  <1>3. Extends(file, symbol_, delivered, Latest, e, n) /\ delivered' = e
    BY <1>2, OneMoreRecord
  <1>4. /\ applied \in Seq(Seqs)
        /\ Holds(applied, Belonging(file, symbol_, delivered), file, delivered)
    BY SameNotions DEF Applied, NotionsAgree
  <1>5. /\ Belongs(file, symbol_, e, n + 1) =>
             Holds(Append(applied, record), Belonging(file, symbol_, e), file, e)
        /\ ~Belongs(file, symbol_, e, n + 1) =>
             Holds(applied, Belonging(file, symbol_, e), file, e)
    <2>1. RecordOf(file, Latest) \in Seqs
      BY <1>2
    <2>2. e = Append(delivered, Latest) /\ n = Len(delivered)
      OBVIOUS
    <2> HIDE DEF n, e, Seqs
    <2> QED
      BY <1>2, <1>4, <2>1, <2>2, HoldsMore
  <1> HIDE DEF e, n
  <1>6. type \in BookTypes => stock_locate # 0
    <2>1. n + 1 \in DOMAIN delivered' /\ delivered'[n + 1] = Latest
      BY <1>3 DEF Extends
    <2>2. type \in BookTypes => RecordOf(file, Latest)[LocateAt + 1] # 0
      BY <1>2, <2>1 DEF BookLocatesNotZero, DeliveredRecord, RecordOf
    <2> QED
      BY <1>2, <2>2 DEF LocateOf
  <1>7. Belongs(file, symbol_, e, n + 1) <=> type \in BookTypes /\ stock_locate = locate_
    <2>1. Latest.type \in BookTypes => LocateOf(file, Latest) # 0
      BY <1>2, <1>6
    <2>2. Belongs(file, symbol_, e, n + 1) <=>
            Latest.type \in BookTypes /\ LocateOf(file, Latest) = locate_
      BY <1>1, <1>3, <2>1, LocateCheck
    <2> QED
      BY <1>2, <2>2
  <1>8. /\ applied' \in Seq(Seqs)
        /\ Holds(applied', Belonging(file, symbol_, e), file, e)
    <2>1. CASE OnDirectory
      <3>1. type = DirectoryType /\ applied' = applied
        BY <2>1 DEF OnDirectory
      <3>2. type \notin BookTypes
        BY <3>1, LayoutAssumption
      <3> QED
        BY <1>4, <1>5, <1>7, <3>1, <3>2
    <2>2. CASE OnForwarded
      <3>1. applied' = IF type \in BookTypes /\ stock_locate = locate_
                         THEN Append(applied, record) ELSE applied
        BY <2>2 DEF OnForwarded
      <3>2. Append(applied, record) \in Seq(Seqs)
        BY <1>2, <1>4, AppendProperties
      <3> QED
        BY <1>4, <1>5, <1>7, <3>1, <3>2
    <2> QED
      BY <2>1, <2>2
  <1>9. AppliedFollowAnnouncement'
    <2>1. /\ file' = file /\ symbol_' = symbol_ /\ delivered' = e
          /\ Holds(applied', Belonging(file', symbol_', delivered'), file', delivered')
      BY <1>1, <1>2, <1>3, <1>8
    <2>2. NotionsAgree'
      BY SameNotions, PTL
    <2> QED
      BY <2>1, <2>2 DEF NotionsAgree
  <1> QED
    BY <1>8, <1>9 DEF Applied

(***************************************************************************)
(* For every file none of whose book messages carries locate 0, the book   *)
(* is given exactly the book messages after the first announcement of the  *)
(* symbol that have its locate, in the order of the file.                  *)
(***************************************************************************)
THEOREM AppliedRight == FileSpec /\ []BookLocatesNotZero => []AppliedFollowAnnouncement
  <1>1. FileInit => Applied
    <2> SUFFICES ASSUME FileInit PROVE Applied
      OBVIOUS
    <2>1. applied = <<>> /\ delivered = <<>>
      BY DEF FileInit, Init
    <2>2. OfTheSymbol = {}
      BY <2>1 DEF OfTheSymbol
    <2>3. Len(applied) = 0 /\ applied \in Seq(Seq(Byte))
      BY <2>1
    <2>4. Cardinality(OfTheSymbol) = 0
      BY <2>2, FS_EmptySet
    <2>5. AppliedFollowAnnouncement
      BY <2>2, <2>3, <2>4 DEF AppliedFollowAnnouncement
    <2> QED
      BY <2>3, <2>5 DEF Applied
  <1>2. FInv /\ BookLocatesNotZero' /\ Applied /\ [FileNext]_fileVars => Applied'
    <2> SUFFICES ASSUME FInv, BookLocatesNotZero', Applied, [FileNext]_fileVars PROVE Applied'
      OBVIOUS
    <2>1. CASE OnDirectory \/ OnForwarded
      BY <2>1, DeliveryApplies
    <2>2. CASE FramingStops
      <3>1. Returns /\ UNCHANGED <<symbol_, applied>>
        BY <2>2 DEF FramingStops, Returns
      <3>2. UNCHANGED <<file, delivered>>
        BY <3>1, ReturnsAgree DEF FInv
      <3> QED
        BY <3>1, <3>2, SameApplied
    <2>3. CASE Refuse \/ Exit \/ UNCHANGED fileVars
      BY <2>3, SameApplied DEF Refuse, Exit, fileVars
    <2> QED
      BY <2>1, <2>2, <2>3 DEF FileNext
  <1>3. Applied => AppliedFollowAnnouncement
    BY DEF Applied
  <1> QED
    BY <1>1, <1>2, <1>3, FileInductive, PTL DEF FileSpec

-----------------------------------------------------------------------------
(* book_replay implements the loop of reference_book.py *)

(* What the script reads are the framer's pieces of the file. *)
LEMMA ScriptReads ==
  ASSUME IInv, ~returned
  PROVE  /\ ReferenceReplay!prefix = Prefix
         /\ Len(Prefix) = 2 =>
              ReferenceReplay!declared = declared /\ ReferenceReplay!record = Body
  <1>1. outcome.bytes_consumed = offset
    BY DEF IInv, Walk
  <1>2. ReferenceReplay!prefix = Prefix
    BY <1>1 DEF ReferenceReplay!prefix, ReferenceReplay!read, Prefix, Piece
  <1>3. Len(Prefix) = 2 => Prefix[1] * ByteBase + Prefix[2] = declared
    BY PrefixRead
  <1>4. Len(Prefix) = 2 => ReferenceReplay!declared = declared
    BY <1>2, <1>3 DEF ReferenceReplay!declared
  <1> QED
    BY <1>1, <1>2, <1>4 DEF ReferenceReplay!record, ReferenceReplay!read, Body, Piece

(* What the script has gathered.                                            *)
Gathered(s, locate, resolved, a) ==
  [target |-> ljust(s), locate |-> locate, resolved |-> resolved, applied |-> a]

(* A step the script takes, or one it does not notice.                      *)
ScriptStep == [ReferenceReplay!Next]_(ReferenceReplay!refVars)

(* The framer's returns are the script's breaks. *)
LEMMA StopStep ==
  ASSUME FInv, FramingStops
  PROVE  ReferenceReplay!Next
  <1> DEFINE e == ScriptError(outcome'.error)
  <1>1. IInv /\ Returns /\ UNCHANGED <<symbol_, locate_, resolved_, applied>>
    BY DEF FInv, FramingStops, Returns
  <1>2. /\ ~returned /\ returned' = TRUE /\ UNCHANGED file
        /\ outcome'.bytes_consumed = outcome.bytes_consumed
        /\ Leaves(e)
    BY <1>1, ReturnsAgree
  <1>3. ReferenceReplay!Break(e)
    BY <1>1, <1>2 DEF ReferenceReplay!Break, ScriptError, ljust
  <1>4. /\ ReferenceReplay!prefix = Prefix
        /\ Len(Prefix) = 2 => ReferenceReplay!declared = declared /\ ReferenceReplay!record = Body
    BY <1>1, <1>2, ScriptReads
  <1> HIDE DEF e
  <1>5. WholeBody => ReferenceReplay!Whole /\ (ReferenceReplay!Known <=> KnownBody)
    BY <1>2, <1>4 DEF WholeBody, KnownBody, ReferenceReplay!Whole, ReferenceReplay!Known
  <1> USE DEF ReferenceReplay!Next
  <1>6. CASE e = None /\ Len(Prefix) = 0
    BY <1>2, <1>3, <1>4, <1>6 DEF ReferenceReplay!EndOfFile, ReferenceReplay!None, None
  <1>7. CASE e = "TruncatedPrefix" /\ Len(Prefix) = 1
    BY <1>2, <1>3, <1>4, <1>7 DEF ReferenceReplay!ShortPrefix
  <1>8. CASE e = "TruncatedRecord" /\ Len(Prefix) = 2 /\ Len(Body) < declared
    BY <1>2, <1>3, <1>4, <1>8 DEF ReferenceReplay!ShortRecord
  <1>9. CASE e = "UnknownType" /\ WholeBody /\ ~KnownBody
    BY <1>3, <1>5, <1>9 DEF ReferenceReplay!NoSuchType
  <1>10. CASE /\ e = "LengthMismatch" /\ WholeBody /\ KnownBody
              /\ SpecLength[Body[1]] # declared
    BY <1>3, <1>4, <1>5, <1>10 DEF ReferenceReplay!WrongLength, ReferenceReplay!Expected, WholeBody
  <1> QED
    BY <1>2, <1>6, <1>7, <1>8, <1>9, <1>10 DEF Leaves

(* A record the handler is called with is one the script takes: it resolves *)
(* the symbol, reaches the book or is left alone by both. *)
LEMMA TakeStep ==
  ASSUME FInv, BookLocatesNotZero', OnDirectory \/ OnForwarded
  PROVE  ReferenceReplay!Next
  <1>1. /\ IInv /\ Deliver /\ symbol_ \in Symbols /\ symbol_' = symbol_
        /\ Resolves(file, symbol_, delivered, resolved_, locate_)
    BY DEF FInv, Resolution, OnDirectory, OnForwarded
  <1>2. /\ ~returned /\ UNCHANGED <<file, returned>>
        /\ WholeBody /\ KnownBody /\ SpecLength[Body[1]] = declared
        /\ outcome'.bytes_consumed = outcome.bytes_consumed + 2 + declared
        /\ outcome'.error = outcome.error
    BY <1>1, DeliveryAgrees
  <1>3. /\ ReferenceReplay!prefix = Prefix
        /\ ReferenceReplay!declared = declared /\ ReferenceReplay!record = Body
    BY <1>1, <1>2, ScriptReads DEF WholeBody
  <1>4. ReferenceReplay!Whole /\ ReferenceReplay!Known /\ ReferenceReplay!Expected
    BY <1>2, <1>3
    DEF WholeBody, KnownBody, ReferenceReplay!Whole, ReferenceReplay!Known, ReferenceReplay!Expected
  <1>5. /\ delivered \in Seq(Delivered) /\ Latest \in Delivered
        /\ delivered' = Append(delivered, Latest)
        /\ record = RecordOf(file, Latest) /\ record = Body /\ record[1] = type
        /\ stock_locate = record[LocateAt + 1] /\ Latest.type = type
    BY <1>1, LatestFacts DEF stock_locate
  <1>6. type \in BookTypes => stock_locate # 0
    <2> DEFINE n == Len(delivered)
    <2>1. n + 1 \in DOMAIN delivered' /\ delivered'[n + 1] = Latest
      BY <1>5, AppendProperties, LenProperties
    <2>2. type \in BookTypes => RecordOf(file, Latest)[LocateAt + 1] # 0
      BY <1>2, <1>5, <2>1 DEF BookLocatesNotZero, DeliveredRecord, RecordOf
    <2> QED
      BY <1>5, <2>2
  <1>7. ~resolved_ => locate_ = 0
    BY <1>1 DEF Resolves
  <1> DEFINE g == Gathered(symbol_, locate_, resolved_, applied)
             r == record
  <1>8. /\ g.target = ljust(symbol_) /\ g.locate = locate_ /\ g.resolved = resolved_
        /\ g.applied = applied
    BY DEF Gathered
  <1>9. Gathered(symbol_, locate_', resolved_', applied') = ReplayRecord(g, r)
    <2>1. CASE OnDirectory
      <3>1. /\ type = DirectoryType /\ applied' = applied
            /\ IF ~resolved_ /\ trim(stock(r)) = symbol_
                 THEN locate_' = stock_locate /\ resolved_' = TRUE
                 ELSE locate_' = locate_ /\ resolved_' = resolved_
        BY <2>1 DEF OnDirectory
      <3>2. trim(stock(r)) = symbol_ <=> stock(r) = ljust(symbol_)
        BY <1>1, <3>1, NamesAnnounced
      <3>3. ReplayRecord(g, r) =
              IF ~resolved_ /\ stock(r) = ljust(symbol_)
                THEN [g EXCEPT !.locate = stock_locate, !.resolved = TRUE] ELSE g
        BY <1>5, <1>8, <3>1 DEF ReplayRecord
      <3> HIDE DEF r
      <3> QED
        BY <3>1, <3>2, <3>3 DEF Gathered
    <2>2. CASE OnForwarded
      <3>1. /\ type # DirectoryType /\ locate_' = locate_ /\ resolved_' = resolved_
            /\ applied' = IF type \in BookTypes /\ stock_locate = locate_
                            THEN Append(applied, r) ELSE applied
        BY <2>2 DEF OnForwarded
      <3>2. ReplayRecord(g, r) =
              IF resolved_ /\ stock_locate = locate_ /\ type \in BookTypes
                THEN [g EXCEPT !.applied = Append(applied, r)] ELSE g
        BY <1>5, <1>8, <3>1 DEF ReplayRecord
      <3>3. type \in BookTypes /\ stock_locate = locate_ => resolved_
        BY <1>6, <1>7
      <3> HIDE DEF r
      <3> QED
        BY <3>1, <3>2, <3>3 DEF Gathered
    <2> QED
      BY <2>1, <2>2
  <1>10. ReferenceReplay!Take
    BY <1>1, <1>2, <1>3, <1>4, <1>5, <1>9 DEF ReferenceReplay!Take, Gathered
  <1> QED
    BY <1>10 DEF ReferenceReplay!Next

(***************************************************************************)
(* For every file none of whose book messages carries locate 0,            *)
(* book_replay implements the loop of reference_book.py: after every       *)
(* record the same resolution, the same records applied and the same bytes *)
(* consumed, and the loop is left at the same byte for the same reason.    *)
(***************************************************************************)
THEOREM ImplementsReplay == FileSpec /\ []BookLocatesNotZero => RefinesReferenceReplay
  <1>1. FileInit => ReferenceReplay!Init
    <2> SUFFICES ASSUME FileInit PROVE ReferenceReplay!Init
      OBVIOUS
    <2>1. /\ outcome.bytes_consumed = 0 /\ outcome.error = None /\ returned = FALSE
          /\ symbol_ \in Symbols /\ locate_ = 0 /\ resolved_ = FALSE /\ applied = <<>>
      BY DEF FileInit, Init
    <2> QED
      BY <2>1 DEF ReferenceReplay!Init, ReferenceReplay!None, None
  <1>2. FInv /\ BookLocatesNotZero' /\ [FileNext]_fileVars
          => [ReferenceReplay!Next]_(ReferenceReplay!refVars)
    <2> SUFFICES ASSUME FInv, BookLocatesNotZero', [FileNext]_fileVars PROVE ScriptStep
      BY DEF ScriptStep
    <2>1. CASE Refuse
      BY <2>1 DEF Refuse, ScriptStep, ReferenceReplay!refVars, ljust
    <2>2. CASE OnDirectory \/ OnForwarded
      BY <2>2, TakeStep DEF ScriptStep
    <2>3. CASE FramingStops
      BY <2>3, StopStep DEF ScriptStep
    <2>4. CASE Exit
      BY <2>4 DEF Exit, ScriptStep, ReferenceReplay!refVars, ljust
    <2>5. CASE UNCHANGED fileVars
      BY <2>5 DEF fileVars, ScriptStep, ReferenceReplay!refVars, ljust
    <2> QED
      BY <2>1, <2>2, <2>3, <2>4, <2>5 DEF FileNext
  <1> QED
    BY <1>1, <1>2, FileInductive, PTL
    DEF FileSpec, RefinesReferenceReplay, ReferenceReplay!Spec
-----------------------------------------------------------------------------
(* The run ends *)

(* The iterations left, and the return from main().                         *)
StepsLeft == Fuel + IF exit_code = Running THEN 1 ELSE 0

(***************************************************************************)
(* book_replay exits after at most as many steps as its file has bytes     *)
(* and two: each step lowers a number that is never negative.              *)
(***************************************************************************)
THEOREM FileDescends == FileSpec => [](StepsLeft \in Nat) /\ [][StepsLeft' < StepsLeft]_fileVars
  <1>1. FInv => StepsLeft \in Nat
    BY FuelFacts DEF FInv, StepsLeft
  <1>2. FInv /\ [FileNext]_fileVars => [StepsLeft' < StepsLeft]_fileVars
    <2> SUFFICES ASSUME FInv, FileNext PROVE StepsLeft' < StepsLeft
      OBVIOUS
    <2>1. IInv /\ Fuel \in Nat
      BY FuelFacts DEF FInv
    <2>2. CASE OnDirectory \/ OnForwarded \/ FramingStops
      <3>1. Next /\ exit_code' = exit_code /\ exit_code = Running
        BY <2>2 DEF OnDirectory, OnForwarded, FramingStops, Mapped, Next
      <3>2. Fuel' \in Int /\ Fuel' < Fuel
        BY <2>1, <3>1, StepBurnsFuel
      <3> QED
        <4>1. StepsLeft = Fuel + 1 /\ StepsLeft' = Fuel' + 1
          BY <3>1 DEF StepsLeft, Running
        <4>2. Fuel \in Int /\ \A m, n \in Int : m < n => m + 1 < n + 1
          BY <2>1
        <4> QED
          BY <3>2, <4>1, <4>2, Zenon
    <2>3. CASE Refuse \/ Exit
      <3>1. Fuel' = Fuel
        BY <2>3 DEF Refuse, Exit, Fuel, size
      <3>2. exit_code = Running /\ exit_code' \in {0, 1, 2}
        BY <2>3 DEF Refuse, Exit
      <3> QED
        BY <2>1, <3>1, <3>2 DEF StepsLeft, Running
    <2> QED
      BY <2>2, <2>3 DEF FileNext
  <1> QED
    BY <1>1, <1>2, FileInductive, PTL DEF FileSpec
=============================================================================
