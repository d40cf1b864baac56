---------------------------- MODULE ParserProofs ----------------------------
(***************************************************************************)
(* What becomes of a record in both implementations, for every record:     *)
(* any type, any length, any bytes.                                        *)
(***************************************************************************)
EXTENDS Parser, DataInduction, SequenceTheorems, TLAPS

-----------------------------------------------------------------------------
(* Bytes *)

(* The w bytes of r from `at`.                                              *)
Bytes(r, at, w) == [i \in 1 .. w |-> r[at + i]]

(* The accessors' copy and the script's slice are the bytes themselves. *)
LEMMA BytesFacts ==
  ASSUME NEW r \in Seq(Byte), NEW at \in Nat, NEW w \in Nat, at + w <= Len(r)
  PROVE  /\ Bytes(r, at, w) \in Seq(Byte)
         /\ Len(Bytes(r, at, w)) = w
         /\ [i \in 1 .. w |-> ByteAt(r, at + i - 1)] = Bytes(r, at, w)
         /\ SubSeq(r, at + 1, at + w) = Bytes(r, at, w)
  <1>1. \A i \in 1 .. w : at + i \in 1 .. Len(r) /\ at + i - 1 < Len(r) /\ (at + i - 1) + 1 = at + i
    OBVIOUS
  <1>2. \A i \in 1 .. w : r[at + i] \in Byte /\ ByteAt(r, at + i - 1) = r[at + i]
    BY <1>1 DEF ByteAt
  <1>3. Bytes(r, at, w) \in Seq(Byte) /\ Len(Bytes(r, at, w)) = w
    BY <1>2 DEF Bytes
  <1>4. [i \in 1 .. w |-> ByteAt(r, at + i - 1)] = Bytes(r, at, w)
    BY <1>2 DEF Bytes
  <1>5. SubSeq(r, at + 1, at + w) = Bytes(r, at, w)
    <2> DEFINE s == SubSeq(r, at + 1, at + w)
    <2>1. \A i \in at + 1 .. at + w : r[i] \in Byte
      OBVIOUS
    <2>2. /\ s \in Seq(Byte)
          /\ Len(s) = IF at + 1 <= at + w THEN (at + w) - (at + 1) + 1 ELSE 0
          /\ \A i \in 1 .. (at + w) - (at + 1) + 1 : s[i] = r[at + 1 + i - 1]
      BY <2>1, SubSeqProperties
    <2> HIDE DEF s
    <2>3. Len(s) = w /\ \A i \in 1 .. w : s[i] = r[at + i]
      BY <2>2
    <2>4. s = [i \in 1 .. w |-> s[i]]
      BY <2>2, <2>3
    <2>5. s = Bytes(r, at, w)
      BY <2>3, <2>4 DEF Bytes
    <2> QED
      BY <2>5 DEF s
  <1> QED
    BY <1>3, <1>4, <1>5

(* The copy and the byte swap read the most significant byte first. *)
LEMMA LoadIsBigEndian ==
  ASSUME NEW S, NEW b \in Seq(S)
  PROVE  load_big_endian(b) = BigEndian(b)
  <1> DEFINE n == Len(b)
             m == memcpy(b)
  <1>1. n \in Nat /\ m = [i \in 0 .. n - 1 |-> b[i + 1]] /\ DOMAIN m = 0 .. n - 1
    BY DEF memcpy
  <1>a. load_big_endian(b) = byteswap(m)
    BY DEF load_big_endian
  <1> HIDE DEF m, n
  <1>2. Cardinality(DOMAIN m) = n
    BY <1>1, FS_Interval
  <1>3. byteswap(m) = [i \in 0 .. n - 1 |-> m[n - 1 - i]]
    BY <1>1, <1>2 DEF byteswap
  <1>4. \A i \in 0 .. n - 1 : m[n - 1 - i] = b[n - i]
    BY <1>1
  <1>5. byteswap(m) = [i \in 0 .. n - 1 |-> b[n - i]]
    BY <1>3, <1>4
  <1> QED
    BY <1>5, <1>a DEF BigEndian, n

(* What the accessors return, of bytes that are in the record. *)
LEMMA ValueFacts ==
  ASSUME NEW r \in Seq(Byte), NEW at \in Nat, NEW w \in Nat, at + w <= Len(r)
  PROVE  /\ w = 1 => Value(r, [as |-> "char", at |-> at, width |-> w]) = r[at + 1]
         /\ Value(r, [as |-> "uint", at |-> at, width |-> w]) = BigEndian(Bytes(r, at, w))
         /\ Value(r, [as |-> "u48", at |-> at, width |-> w])
              = BigEndian(<<NUL, NUL>> \o Bytes(r, at, w))
         /\ Value(r, [as |-> "alpha", at |-> at, width |-> w]) = Bytes(r, at, w)
  <1> DEFINE b == Bytes(r, at, w)
  <1>1. b \in Seq(Byte) /\ [i \in 1 .. w |-> ByteAt(r, at + i - 1)] = b
    BY BytesFacts
  <1>2. w = 1 => b[1] = r[at + 1]
    BY DEF Bytes
  <1> HIDE DEF b
  <1>3. load_big_endian(b) = BigEndian(b)
    BY <1>1, LoadIsBigEndian
  <1>4. load_big_endian(<<NUL, NUL>> \o b) = BigEndian(<<NUL, NUL>> \o b)
    <2>1. <<NUL, NUL>> \o b \in Seq(Byte \cup {NUL})
      BY <1>1
    <2> QED
      BY <2>1, LoadIsBigEndian
  <1>5. ASSUME NEW as
        PROVE  Value(r, [as |-> as, at |-> at, width |-> w])
                 = CASE as = "char"  -> b[1]
                     [] as = "uint"  -> load_big_endian(b)
                     [] as = "u48"   -> load_big_endian(<<NUL, NUL>> \o b)
                     [] as = "alpha" -> b
    BY <1>1 DEF Value
  <1> QED
    BY <1>2, <1>3, <1>4, <1>5 DEF b

-----------------------------------------------------------------------------
(* Formats *)

(* A list of fields: each a name and a width.                               *)
IsFormat(fields) == Len(fields) \in Nat /\ \A k \in 1 .. Len(fields) : fields[k][2] \in Nat

(* Every field starts where the one before it ends. *)
LEMMA StartOfFacts ==
  ASSUME NEW fields, IsFormat(fields)
  PROVE  /\ StartOf(fields, 1) = 0
         /\ \A k \in 1 .. Len(fields) :
              /\ StartOf(fields, k) \in Nat
              /\ StartOf(fields, k + 1) = StartOf(fields, k) + fields[k][2]
  <1> DEFINE n       == Len(fields)
             Ends(e) == e = [i \in 0 .. n |-> IF i = 0 THEN 0 ELSE e[i - 1] + fields[i][2]]
             end     == CHOOSE e : Ends(e)
             step    == [i \in 1 .. n |-> [v \in Nat |-> v + fields[i][2]]]
  <1>1. n \in Nat /\ \A i \in 1 .. n : fields[i][2] \in Nat
    BY DEF IsFormat
  <1>2. \A k : StartOf(fields, k) = end[k - 1]
    BY DEF StartOf
  <1> HIDE DEF n
  <1>3. step \in [1 .. n -> [Nat -> Nat]]
    BY <1>1
  <1>4. \A i \in 1 .. n, v \in Nat : step[i][v] = v + fields[i][2]
    OBVIOUS
  <1> HIDE DEF step
  <1>5. PICK h \in [0 .. n -> Nat] : Follows(h, n, 0, step)
    BY <1>1, <1>3, RecursionExists
  <1>6. ASSUME NEW i \in 0 .. n
        PROVE  h[i] = IF i = 0 THEN 0 ELSE h[i - 1] + fields[i][2]
    <2>1. CASE i = 0
      BY <1>5, <2>1 DEF Follows
    <2>2. CASE i # 0
      <3>1. i \in 1 .. n /\ i - 1 \in 0 .. n
        BY <1>1, <2>2
      <3>2. h[i] = step[i][h[i - 1]]
        BY <1>5, <3>1 DEF Follows
      <3> QED
        BY <1>4, <2>2, <3>1, <3>2
    <2> QED
      BY <2>1, <2>2
  <1>7. Ends(h)
    BY <1>6
  <1>8. Ends(end)
    BY <1>7
  <1> HIDE DEF end
  <1>9. /\ end[0] = 0
        /\ \A i \in 1 .. n : end[i] = end[i - 1] + fields[i][2]
    <2>1. \A i \in 0 .. n : end[i] = IF i = 0 THEN 0 ELSE end[i - 1] + fields[i][2]
      BY <1>8
    <2>2. \A i \in 1 .. n : i \in 0 .. n /\ i # 0
      OBVIOUS
    <2> QED
      BY <1>1, <2>1, <2>2
  <1> DEFINE T == {i \in 0 .. n : end[i] \in Nat}
  <1>10. 0 \in T
    BY <1>1, <1>9
  <1>11. ASSUME NEW i \in 0 .. n - 1, i \in T PROVE i + 1 \in T
    <2>1. i + 1 \in 1 .. n /\ (i + 1) - 1 = i
      BY <1>1
    <2>2. end[i + 1] = end[i] + fields[i + 1][2]
      BY <1>9, <2>1
    <2> QED
      BY <1>1, <1>11, <2>1, <2>2
  <1>12. \A i \in 0 .. n : i \in T
    <2> HIDE DEF T
    <2> QED
      BY <1>1, <1>10, <1>11, UpTo
  <1>13. ASSUME NEW k \in 1 .. n
         PROVE  StartOf(fields, k) \in Nat /\ StartOf(fields, k + 1) = StartOf(fields, k) + fields[k][2]
    <2>1. k - 1 \in 0 .. n /\ (k + 1) - 1 = k
      BY <1>1
    <2> QED
      BY <1>2, <1>9, <1>12, <2>1
  <1> QED
    BY <1>2, <1>9, <1>13 DEF n

(* The accessor that suits a field.                                         *)
Accessor(name, width) ==
  CASE name \in {"stock", "attribution", "issue_sub_type"} -> "alpha"
    [] name = "timestamp_ns" -> "u48"
    [] OTHER -> IF width = 1 THEN "char" ELSE "uint"

(* It returns what was sent. *)
LEMMA ReadsWhatWasSent ==
  ASSUME NEW r \in Seq(Byte), NEW at \in Nat, NEW w \in Nat, at + w <= Len(r), NEW name
  PROVE  Value(r, [as |-> Accessor(name, w), at |-> at, width |-> w])
           = SentField(name, SubSeq(r, at + 1, at + w))
  <1> DEFINE b == Bytes(r, at, w)
  <1>1. SubSeq(r, at + 1, at + w) = b /\ Len(b) = w
    BY BytesFacts
  <1>2. w = 1 => b[1] = r[at + 1]
    BY DEF Bytes
  <1>3. /\ w = 1 => Value(r, [as |-> "char", at |-> at, width |-> w]) = r[at + 1]
        /\ Value(r, [as |-> "uint", at |-> at, width |-> w]) = BigEndian(b)
        /\ Value(r, [as |-> "u48", at |-> at, width |-> w]) = BigEndian(<<NUL, NUL>> \o b)
        /\ Value(r, [as |-> "alpha", at |-> at, width |-> w]) = b
    BY ValueFacts
  <1> HIDE DEF b
  <1> QED
    BY <1>1, <1>2, <1>3 DEF Accessor, SentField

(* The struct reads each field of the format where and as it was sent, and  *)
(* the fields of the format make up `size` bytes.                           *)
Fits(struct, fields, size) ==
  /\ IsFormat(fields)
  /\ StartOf(fields, Len(fields) + 1) = size
  /\ DOMAIN struct = {fields[k][1] : k \in DOMAIN fields}
  /\ \A k \in DOMAIN fields :
       /\ k \in 1 .. Len(fields)
       /\ StartOf(fields, k) + fields[k][2] <= size
       /\ struct[fields[k][1]] = [as    |-> Accessor(fields[k][1], fields[k][2]),
                                  at    |-> StartOf(fields, k),
                                  width |-> fields[k][2]]

(* Such a struct holds the values sent, and reads nothing past the end. *)
LEMMA FitsDecodes ==
  ASSUME NEW r \in Seq(Byte), NEW struct, Fits(struct, Wire[r[1]], Len(r))
  PROVE  /\ decode(struct, r) = Sent(r)
         /\ \A f \in DOMAIN struct : InRecord(r, struct[f]) /\ Value(r, struct[f]) = Sent(r)[f]
  <1> DEFINE fields    == Wire[r[1]]
             number(n) == CHOOSE k \in DOMAIN fields : fields[k][1] = n
             bytes(k)  == SubSeq(r, StartOf(fields, k) + 1, StartOf(fields, k) + fields[k][2])
             names     == {fields[k][1] : k \in DOMAIN fields}
  <1>1. Sent(r) = [n \in names |-> SentField(n, bytes(number(n)))]
    BY DEF Sent
  <1>2. IsFormat(fields) /\ DOMAIN struct = names
    BY DEF Fits
  <1>3. ASSUME NEW n \in names
        PROVE  /\ InRecord(r, struct[n])
               /\ Value(r, struct[n]) = SentField(n, bytes(number(n)))
    <2> DEFINE k  == number(n)
               at == StartOf(fields, k)
               w  == fields[k][2]
    <2>1. k \in DOMAIN fields /\ fields[k][1] = n
      BY <1>3
    <2> HIDE DEF k
    <2>2. /\ k \in 1 .. Len(fields)
          /\ at + w <= Len(r)
          /\ struct[n] = [as |-> Accessor(n, w), at |-> at, width |-> w]
      BY <2>1 DEF Fits
    <2>3. at \in Nat
      BY <1>2, <2>2, StartOfFacts
    <2>4. w \in Nat
      BY <1>2, <2>2 DEF IsFormat
    <2> HIDE DEF at, w
    <2>5. Value(r, struct[n]) = SentField(n, SubSeq(r, at + 1, at + w))
      BY <2>2, <2>3, <2>4, ReadsWhatWasSent
    <2>6. InRecord(r, struct[n])
      BY <2>2 DEF InRecord
    <2> QED
      BY <2>5, <2>6 DEF at, w, k
  <1>4. decode(struct, r) = [n \in names |-> Value(r, struct[n])]
    BY <1>2 DEF decode
  <1> HIDE DEF names, number, bytes, fields
  <1> QED
    BY <1>1, <1>2, <1>3, <1>4

(* Numbers that begin at 0 and grow by the widths of the fields.            *)
AddUp(e, fields) ==
  e[1] = 0 /\ \A k \in 1 .. Len(fields) : e[k + 1] = e[k] + fields[k][2]

(* Any numbers that add up like the starts of the fields are the starts. *)
LEMMA StartsAre ==
  ASSUME NEW fields, IsFormat(fields), NEW e, AddUp(e, fields)
  PROVE  \A k \in 1 .. Len(fields) + 1 : StartOf(fields, k) = e[k]
  <1> DEFINE n == Len(fields)
             T == {i \in 0 .. n : StartOf(fields, i + 1) = e[i + 1]}
  <1>1. n \in Nat
    BY DEF IsFormat
  <1>2. /\ StartOf(fields, 1) = 0
        /\ \A k \in 1 .. n : StartOf(fields, k + 1) = StartOf(fields, k) + fields[k][2]
    BY StartOfFacts
  <1> HIDE DEF n
  <1>3. 0 \in T
    BY <1>1, <1>2 DEF AddUp
  <1>4. ASSUME NEW i \in 0 .. n - 1, i \in T PROVE i + 1 \in T
    <2>1. i + 1 \in 1 .. n /\ i + 1 \in 0 .. n
      BY <1>1
    <2>2. StartOf(fields, (i + 1) + 1) = StartOf(fields, i + 1) + fields[i + 1][2]
      BY <1>2, <2>1
    <2>3. e[(i + 1) + 1] = e[i + 1] + fields[i + 1][2]
      BY <2>1 DEF n, AddUp
    <2> QED
      BY <1>4, <2>1, <2>2, <2>3
  <1>5. \A i \in 0 .. n : i \in T
    <2> HIDE DEF T
    <2> QED
      BY <1>1, <1>3, <1>4, UpTo
  <1>6. ASSUME NEW k \in 1 .. n + 1 PROVE StartOf(fields, k) = e[k]
    <2>1. k - 1 \in 0 .. n /\ (k - 1) + 1 = k
      BY <1>1
    <2> QED
      BY <1>5, <2>1
  <1> QED
    BY <1>6 DEF n

(* The k-th field is called `name`, is `width` bytes wide, and the struct   *)
(* reads it at `at`.                                                        *)
Row(struct, fields, k, name, width, at) ==
  /\ fields[k] = <<name, width>>
  /\ struct[name] = [as |-> Accessor(name, width), at |-> at, width |-> width]

(* A struct and a format, row by row, with the offsets of the rows.         *)
IsTable(struct, fields, e, n, size) ==
  /\ Len(fields) = n /\ DOMAIN fields = 1 .. n
  /\ e[1] = 0 /\ e[n + 1] = size
  /\ \A k \in 1 .. n : /\ fields[k][1] \in DOMAIN struct
                       /\ fields[k][2] \in Nat
                       /\ Row(struct, fields, k, fields[k][1], fields[k][2], e[k])
                       /\ e[k + 1] = e[k] + fields[k][2]
                       /\ e[k + 1] <= size
  /\ \A name \in DOMAIN struct : \E k \in 1 .. n : fields[k][1] = name

(* Such a struct fits. *)
LEMMA TableFits ==
  ASSUME NEW struct, NEW fields, NEW e, NEW n \in Nat, NEW size,
         IsTable(struct, fields, e, n, size)
  PROVE  Fits(struct, fields, size)
  <1>1. IsFormat(fields) /\ AddUp(e, fields)
    BY DEF IsTable, IsFormat, AddUp
  <1>2. \A k \in 1 .. Len(fields) + 1 : StartOf(fields, k) = e[k]
    BY <1>1, StartsAre, Zenon
  <1>3. Len(fields) = n
    BY DEF IsTable
  <1>4. DOMAIN struct = {fields[k][1] : k \in DOMAIN fields}
    BY DEF IsTable
  <1>5. ASSUME NEW k \in 1 .. n
        PROVE  /\ StartOf(fields, k) = e[k] /\ e[k] + fields[k][2] <= size
               /\ struct[fields[k][1]] = [as |-> Accessor(fields[k][1], fields[k][2]),
                                          at |-> e[k], width |-> fields[k][2]]
    <2>1. k \in 1 .. n + 1
      OBVIOUS
    <2> QED
      BY <1>2, <1>3, <2>1 DEF IsTable, Row
  <1>6. StartOf(fields, Len(fields) + 1) = size
    BY <1>2, <1>3 DEF IsTable
  <1>7. DOMAIN fields = 1 .. n
    BY DEF IsTable
  <1> QED
    BY <1>1, <1>3, <1>4, <1>5, <1>6, <1>7 DEF Fits

-----------------------------------------------------------------------------
(* The ten structs, each against the fields of its message *)

(* 'S', System Event. *)
LEMMA FitsSystemEvent == Fits(SystemEvent, Wire["S"], 12)
  <1> DEFINE f == Wire["S"]
             e == <<0, 1, 3, 5, 11, 12>>
             R(k, name, width) == Row(SystemEvent, f, k, name, width, e[k])
  <1>1. Len(f) = 5 /\ DOMAIN f = 1 .. 5
    BY DEF Wire, WireHeader
  <1>2. /\ R(1, "type", 1)
        /\ R(2, "stock_locate", 2)
        /\ R(3, "tracking_number", 2)
        /\ R(4, "timestamp_ns", 6)
        /\ R(5, "event_code", 1)
    BY DEF Wire, WireHeader, SystemEvent, MessageHeader, StructOf, Row, Accessor,
           read_char, read_u16, read_u32, read_u48, read_u64, read_alpha
  <1>3. DOMAIN SystemEvent = {"type", "stock_locate", "tracking_number",
                               "timestamp_ns", "event_code"}
    BY DEF SystemEvent, MessageHeader, StructOf
  <1>4. \A k \in 1 .. 5 : /\ f[k][1] \in DOMAIN SystemEvent
                         /\ f[k][2] \in Nat
                         /\ R(k, f[k][1], f[k][2])
                         /\ e[k + 1] = e[k] + f[k][2]
                         /\ e[k + 1] <= 12
    BY <1>2, <1>3 DEF Row
  <1>5. \A name \in DOMAIN SystemEvent : \E k \in 1 .. 5 : f[k][1] = name
    BY <1>2, <1>3 DEF Row
  <1>6. e[1] = 0 /\ e[5 + 1] = 12
    OBVIOUS
  <1> HIDE DEF e, f
  <1>7. IsTable(SystemEvent, f, e, 5, 12)
    BY <1>1, <1>4, <1>5, <1>6 DEF IsTable
  <1> QED
    BY <1>7, TableFits DEF f

(* 'A', Add Order. *)
LEMMA FitsAddOrder == Fits(AddOrder, Wire["A"], 36)
  <1> DEFINE f == Wire["A"]
             e == <<0, 1, 3, 5, 11, 19, 20, 24, 32, 36>>
             R(k, name, width) == Row(AddOrder, f, k, name, width, e[k])
  <1>1. Len(f) = 9 /\ DOMAIN f = 1 .. 9
    BY DEF Wire, WireAdd, WireHeader
  <1>2. /\ R(1, "type", 1)
        /\ R(2, "stock_locate", 2)
        /\ R(3, "tracking_number", 2)
        /\ R(4, "timestamp_ns", 6)
        /\ R(5, "order_reference", 8)
        /\ R(6, "side", 1)
        /\ R(7, "shares", 4)
        /\ R(8, "stock", 8)
        /\ R(9, "price", 4)
    BY DEF Wire, WireAdd, WireHeader, AddOrder, MessageHeader, StructOf, Row, Accessor,
           read_char, read_u16, read_u32, read_u48, read_u64, read_alpha
  <1>3. DOMAIN AddOrder = {"type", "stock_locate", "tracking_number", "timestamp_ns",
                            "order_reference", "side", "shares", "stock", "price"}
    BY DEF AddOrder, MessageHeader, StructOf
  <1>4. \A k \in 1 .. 9 : /\ f[k][1] \in DOMAIN AddOrder
                         /\ f[k][2] \in Nat
                         /\ R(k, f[k][1], f[k][2])
                         /\ e[k + 1] = e[k] + f[k][2]
                         /\ e[k + 1] <= 36
    BY <1>2, <1>3 DEF Row
  <1>5. \A name \in DOMAIN AddOrder : \E k \in 1 .. 9 : f[k][1] = name
    BY <1>2, <1>3 DEF Row
  <1>6. e[1] = 0 /\ e[9 + 1] = 36
    OBVIOUS
  <1> HIDE DEF e, f
  <1>7. IsTable(AddOrder, f, e, 9, 36)
    BY <1>1, <1>4, <1>5, <1>6 DEF IsTable
  <1> QED
    BY <1>7, TableFits DEF f

(* 'F', Add Order with MPID. *)
LEMMA FitsAddOrderWithMpid == Fits(AddOrderWithMpid, Wire["F"], 40)
  <1> DEFINE f == Wire["F"]
             e == <<0, 1, 3, 5, 11, 19, 20, 24, 32, 36, 40>>
             R(k, name, width) == Row(AddOrderWithMpid, f, k, name, width, e[k])
  <1>1. Len(f) = 10 /\ DOMAIN f = 1 .. 10
    BY DEF Wire, WireAdd, WireHeader
  <1>2. /\ R(1, "type", 1)
        /\ R(2, "stock_locate", 2)
        /\ R(3, "tracking_number", 2)
        /\ R(4, "timestamp_ns", 6)
        /\ R(5, "order_reference", 8)
        /\ R(6, "side", 1)
        /\ R(7, "shares", 4)
        /\ R(8, "stock", 8)
        /\ R(9, "price", 4)
        /\ R(10, "attribution", 4)
    BY DEF Wire, WireAdd, WireHeader, AddOrderWithMpid, AddOrder, MessageHeader,
           StructOf, Row, Accessor, read_char, read_u16, read_u32, read_u48, read_u64,
           read_alpha
  <1>3. DOMAIN AddOrderWithMpid = {"type", "stock_locate", "tracking_number",
                                    "timestamp_ns", "order_reference", "side", "shares",
                                    "stock", "price", "attribution"}
    BY DEF AddOrderWithMpid, AddOrder, MessageHeader, StructOf
  <1>4. \A k \in 1 .. 10 : /\ f[k][1] \in DOMAIN AddOrderWithMpid
                         /\ f[k][2] \in Nat
                         /\ R(k, f[k][1], f[k][2])
                         /\ e[k + 1] = e[k] + f[k][2]
                         /\ e[k + 1] <= 40
    BY <1>2, <1>3 DEF Row
  <1>5. \A name \in DOMAIN AddOrderWithMpid : \E k \in 1 .. 10 : f[k][1] = name
    BY <1>2, <1>3 DEF Row
  <1>6. e[1] = 0 /\ e[10 + 1] = 40
    OBVIOUS
  <1> HIDE DEF e, f
  <1>7. IsTable(AddOrderWithMpid, f, e, 10, 40)
    BY <1>1, <1>4, <1>5, <1>6 DEF IsTable
  <1> QED
    BY <1>7, TableFits DEF f

(* 'E', Order Executed. *)
LEMMA FitsOrderExecuted == Fits(OrderExecuted, Wire["E"], 31)
  <1> DEFINE f == Wire["E"]
             e == <<0, 1, 3, 5, 11, 19, 23, 31>>
             R(k, name, width) == Row(OrderExecuted, f, k, name, width, e[k])
  <1>1. Len(f) = 7 /\ DOMAIN f = 1 .. 7
    BY DEF Wire, WireExecuted, WireHeader
  <1>2. /\ R(1, "type", 1)
        /\ R(2, "stock_locate", 2)
        /\ R(3, "tracking_number", 2)
        /\ R(4, "timestamp_ns", 6)
        /\ R(5, "order_reference", 8)
        /\ R(6, "executed_shares", 4)
        /\ R(7, "match_number", 8)
    BY DEF Wire, WireExecuted, WireHeader, OrderExecuted, MessageHeader, StructOf, Row,
           Accessor, read_char, read_u16, read_u32, read_u48, read_u64, read_alpha
  <1>3. DOMAIN OrderExecuted = {"type", "stock_locate", "tracking_number",
                                 "timestamp_ns", "order_reference", "executed_shares",
                                 "match_number"}
    BY DEF OrderExecuted, MessageHeader, StructOf
  <1>4. \A k \in 1 .. 7 : /\ f[k][1] \in DOMAIN OrderExecuted
                         /\ f[k][2] \in Nat
                         /\ R(k, f[k][1], f[k][2])
                         /\ e[k + 1] = e[k] + f[k][2]
                         /\ e[k + 1] <= 31
    BY <1>2, <1>3 DEF Row
  <1>5. \A name \in DOMAIN OrderExecuted : \E k \in 1 .. 7 : f[k][1] = name
    BY <1>2, <1>3 DEF Row
  <1>6. e[1] = 0 /\ e[7 + 1] = 31
    OBVIOUS
  <1> HIDE DEF e, f
  <1>7. IsTable(OrderExecuted, f, e, 7, 31)
    BY <1>1, <1>4, <1>5, <1>6 DEF IsTable
  <1> QED
    BY <1>7, TableFits DEF f

(* 'C', Order Executed with Price. *)
LEMMA FitsOrderExecutedWithPrice == Fits(OrderExecutedWithPrice, Wire["C"], 36)
  <1> DEFINE f == Wire["C"]
             e == <<0, 1, 3, 5, 11, 19, 23, 31, 32, 36>>
             R(k, name, width) == Row(OrderExecutedWithPrice, f, k, name, width, e[k])
  <1>1. Len(f) = 9 /\ DOMAIN f = 1 .. 9
    BY DEF Wire, WireExecuted, WireHeader
  <1>2. /\ R(1, "type", 1)
        /\ R(2, "stock_locate", 2)
        /\ R(3, "tracking_number", 2)
        /\ R(4, "timestamp_ns", 6)
        /\ R(5, "order_reference", 8)
        /\ R(6, "executed_shares", 4)
        /\ R(7, "match_number", 8)
        /\ R(8, "printable", 1)
        /\ R(9, "execution_price", 4)
    BY DEF Wire, WireExecuted, WireHeader, OrderExecutedWithPrice, OrderExecuted,
           MessageHeader, StructOf, Row, Accessor, read_char, read_u16, read_u32,
           read_u48, read_u64, read_alpha
  <1>3. DOMAIN OrderExecutedWithPrice = {"type", "stock_locate", "tracking_number",
                                          "timestamp_ns", "order_reference",
                                          "executed_shares", "match_number",
                                          "printable", "execution_price"}
    BY DEF OrderExecutedWithPrice, OrderExecuted, MessageHeader, StructOf
  <1>4. \A k \in 1 .. 9 : /\ f[k][1] \in DOMAIN OrderExecutedWithPrice
                         /\ f[k][2] \in Nat
                         /\ R(k, f[k][1], f[k][2])
                         /\ e[k + 1] = e[k] + f[k][2]
                         /\ e[k + 1] <= 36
    BY <1>2, <1>3 DEF Row
  <1>5. \A name \in DOMAIN OrderExecutedWithPrice : \E k \in 1 .. 9 : f[k][1] = name
    BY <1>2, <1>3 DEF Row
  <1>6. e[1] = 0 /\ e[9 + 1] = 36
    OBVIOUS
  <1> HIDE DEF e, f
  <1>7. IsTable(OrderExecutedWithPrice, f, e, 9, 36)
    BY <1>1, <1>4, <1>5, <1>6 DEF IsTable
  <1> QED
    BY <1>7, TableFits DEF f

(* 'X', Order Cancel. *)
LEMMA FitsOrderCancel == Fits(OrderCancel, Wire["X"], 23)
  <1> DEFINE f == Wire["X"]
             e == <<0, 1, 3, 5, 11, 19, 23>>
             R(k, name, width) == Row(OrderCancel, f, k, name, width, e[k])
  <1>1. Len(f) = 6 /\ DOMAIN f = 1 .. 6
    BY DEF Wire, WireHeader
  <1>2. /\ R(1, "type", 1)
        /\ R(2, "stock_locate", 2)
        /\ R(3, "tracking_number", 2)
        /\ R(4, "timestamp_ns", 6)
        /\ R(5, "order_reference", 8)
        /\ R(6, "cancelled_shares", 4)
    BY DEF Wire, WireHeader, OrderCancel, MessageHeader, StructOf, Row, Accessor,
           read_char, read_u16, read_u32, read_u48, read_u64, read_alpha
  <1>3. DOMAIN OrderCancel = {"type", "stock_locate", "tracking_number",
                               "timestamp_ns", "order_reference", "cancelled_shares"}
    BY DEF OrderCancel, MessageHeader, StructOf
  <1>4. \A k \in 1 .. 6 : /\ f[k][1] \in DOMAIN OrderCancel
                         /\ f[k][2] \in Nat
                         /\ R(k, f[k][1], f[k][2])
                         /\ e[k + 1] = e[k] + f[k][2]
                         /\ e[k + 1] <= 23
    BY <1>2, <1>3 DEF Row
  <1>5. \A name \in DOMAIN OrderCancel : \E k \in 1 .. 6 : f[k][1] = name
    BY <1>2, <1>3 DEF Row
  <1>6. e[1] = 0 /\ e[6 + 1] = 23
    OBVIOUS
  <1> HIDE DEF e, f
  <1>7. IsTable(OrderCancel, f, e, 6, 23)
    BY <1>1, <1>4, <1>5, <1>6 DEF IsTable
  <1> QED
    BY <1>7, TableFits DEF f

(* 'D', Order Delete. *)
LEMMA FitsOrderDelete == Fits(OrderDelete, Wire["D"], 19)
  <1> DEFINE f == Wire["D"]
             e == <<0, 1, 3, 5, 11, 19>>
             R(k, name, width) == Row(OrderDelete, f, k, name, width, e[k])
  <1>1. Len(f) = 5 /\ DOMAIN f = 1 .. 5
    BY DEF Wire, WireHeader
  <1>2. /\ R(1, "type", 1)
        /\ R(2, "stock_locate", 2)
        /\ R(3, "tracking_number", 2)
        /\ R(4, "timestamp_ns", 6)
        /\ R(5, "order_reference", 8)
    BY DEF Wire, WireHeader, OrderDelete, MessageHeader, StructOf, Row, Accessor,
           read_char, read_u16, read_u32, read_u48, read_u64, read_alpha
  <1>3. DOMAIN OrderDelete = {"type", "stock_locate", "tracking_number",
                               "timestamp_ns", "order_reference"}
    BY DEF OrderDelete, MessageHeader, StructOf
  <1>4. \A k \in 1 .. 5 : /\ f[k][1] \in DOMAIN OrderDelete
                         /\ f[k][2] \in Nat
                         /\ R(k, f[k][1], f[k][2])
                         /\ e[k + 1] = e[k] + f[k][2]
                         /\ e[k + 1] <= 19
    BY <1>2, <1>3 DEF Row
  <1>5. \A name \in DOMAIN OrderDelete : \E k \in 1 .. 5 : f[k][1] = name
    BY <1>2, <1>3 DEF Row
  <1>6. e[1] = 0 /\ e[5 + 1] = 19
    OBVIOUS
  <1> HIDE DEF e, f
  <1>7. IsTable(OrderDelete, f, e, 5, 19)
    BY <1>1, <1>4, <1>5, <1>6 DEF IsTable
  <1> QED
    BY <1>7, TableFits DEF f

(* 'U', Order Replace. *)
LEMMA FitsOrderReplace == Fits(OrderReplace, Wire["U"], 35)
  <1> DEFINE f == Wire["U"]
             e == <<0, 1, 3, 5, 11, 19, 27, 31, 35>>
             R(k, name, width) == Row(OrderReplace, f, k, name, width, e[k])
  <1>1. Len(f) = 8 /\ DOMAIN f = 1 .. 8
    BY DEF Wire, WireHeader
  <1>2. /\ R(1, "type", 1)
        /\ R(2, "stock_locate", 2)
        /\ R(3, "tracking_number", 2)
        /\ R(4, "timestamp_ns", 6)
        /\ R(5, "original_order_reference", 8)
        /\ R(6, "new_order_reference", 8)
        /\ R(7, "shares", 4)
        /\ R(8, "price", 4)
    BY DEF Wire, WireHeader, OrderReplace, MessageHeader, StructOf, Row, Accessor,
           read_char, read_u16, read_u32, read_u48, read_u64, read_alpha
  <1>3. DOMAIN OrderReplace = {"type", "stock_locate", "tracking_number",
                                "timestamp_ns", "original_order_reference",
                                "new_order_reference", "shares", "price"}
    BY DEF OrderReplace, MessageHeader, StructOf
  <1>4. \A k \in 1 .. 8 : /\ f[k][1] \in DOMAIN OrderReplace
                         /\ f[k][2] \in Nat
                         /\ R(k, f[k][1], f[k][2])
                         /\ e[k + 1] = e[k] + f[k][2]
                         /\ e[k + 1] <= 35
    BY <1>2, <1>3 DEF Row
  <1>5. \A name \in DOMAIN OrderReplace : \E k \in 1 .. 8 : f[k][1] = name
    BY <1>2, <1>3 DEF Row
  <1>6. e[1] = 0 /\ e[8 + 1] = 35
    OBVIOUS
  <1> HIDE DEF e, f
  <1>7. IsTable(OrderReplace, f, e, 8, 35)
    BY <1>1, <1>4, <1>5, <1>6 DEF IsTable
  <1> QED
    BY <1>7, TableFits DEF f

(* 'P', Trade (Non-Cross). *)
LEMMA FitsTradeNonCross == Fits(TradeNonCross, Wire["P"], 44)
  <1> DEFINE f == Wire["P"]
             e == <<0, 1, 3, 5, 11, 19, 20, 24, 32, 36, 44>>
             R(k, name, width) == Row(TradeNonCross, f, k, name, width, e[k])
  <1>1. Len(f) = 10 /\ DOMAIN f = 1 .. 10
    BY DEF Wire, WireAdd, WireHeader
  <1>2. /\ R(1, "type", 1)
        /\ R(2, "stock_locate", 2)
        /\ R(3, "tracking_number", 2)
        /\ R(4, "timestamp_ns", 6)
        /\ R(5, "order_reference", 8)
        /\ R(6, "side", 1)
        /\ R(7, "shares", 4)
        /\ R(8, "stock", 8)
        /\ R(9, "price", 4)
        /\ R(10, "match_number", 8)
    BY DEF Wire, WireAdd, WireHeader, TradeNonCross, AddOrder, MessageHeader, StructOf,
           Row, Accessor, read_char, read_u16, read_u32, read_u48, read_u64, read_alpha
  <1>3. DOMAIN TradeNonCross = {"type", "stock_locate", "tracking_number",
                                 "timestamp_ns", "order_reference", "side", "shares",
                                 "stock", "price", "match_number"}
    BY DEF TradeNonCross, AddOrder, MessageHeader, StructOf
  <1>4. \A k \in 1 .. 10 : /\ f[k][1] \in DOMAIN TradeNonCross
                         /\ f[k][2] \in Nat
                         /\ R(k, f[k][1], f[k][2])
                         /\ e[k + 1] = e[k] + f[k][2]
                         /\ e[k + 1] <= 44
    BY <1>2, <1>3 DEF Row
  <1>5. \A name \in DOMAIN TradeNonCross : \E k \in 1 .. 10 : f[k][1] = name
    BY <1>2, <1>3 DEF Row
  <1>6. e[1] = 0 /\ e[10 + 1] = 44
    OBVIOUS
  <1> HIDE DEF e, f
  <1>7. IsTable(TradeNonCross, f, e, 10, 44)
    BY <1>1, <1>4, <1>5, <1>6 DEF IsTable
  <1> QED
    BY <1>7, TableFits DEF f

(* 'R', Stock Directory. *)
LEMMA FitsStockDirectory == Fits(StockDirectory, Wire["R"], 39)
  <1> DEFINE f == Wire["R"]
             e == <<0, 1, 3, 5, 11, 19, 20, 21, 25, 26, 27, 29, 30, 31, 32, 33, 34, 38,
                    39>>
             R(k, name, width) == Row(StockDirectory, f, k, name, width, e[k])
  <1>1. Len(f) = 18 /\ DOMAIN f = 1 .. 18
    BY DEF Wire, WireHeader
  <1>2. /\ R(1, "type", 1)
        /\ R(2, "stock_locate", 2)
        /\ R(3, "tracking_number", 2)
        /\ R(4, "timestamp_ns", 6)
        /\ R(5, "stock", 8)
        /\ R(6, "market_category", 1)
        /\ R(7, "financial_status_indicator", 1)
        /\ R(8, "round_lot_size", 4)
        /\ R(9, "round_lots_only", 1)
        /\ R(10, "issue_classification", 1)
        /\ R(11, "issue_sub_type", 2)
        /\ R(12, "authenticity", 1)
        /\ R(13, "short_sale_threshold_indicator", 1)
        /\ R(14, "ipo_flag", 1)
        /\ R(15, "luld_reference_price_tier", 1)
        /\ R(16, "etp_flag", 1)
        /\ R(17, "etp_leverage_factor", 4)
        /\ R(18, "inverse_indicator", 1)
    BY DEF Wire, WireHeader, StockDirectory, MessageHeader, StructOf, Row, Accessor,
           read_char, read_u16, read_u32, read_u48, read_u64, read_alpha
  <1>3. DOMAIN StockDirectory = {"type", "stock_locate", "tracking_number",
                                  "timestamp_ns", "stock", "market_category",
                                  "financial_status_indicator", "round_lot_size",
                                  "round_lots_only", "issue_classification",
                                  "issue_sub_type", "authenticity",
                                  "short_sale_threshold_indicator", "ipo_flag",
                                  "luld_reference_price_tier", "etp_flag",
                                  "etp_leverage_factor", "inverse_indicator"}
    BY DEF StockDirectory, MessageHeader, StructOf
  <1>4. \A k \in 1 .. 18 : /\ f[k][1] \in DOMAIN StockDirectory
                         /\ f[k][2] \in Nat
                         /\ R(k, f[k][1], f[k][2])
                         /\ e[k + 1] = e[k] + f[k][2]
                         /\ e[k + 1] <= 39
    BY <1>2, <1>3 DEF Row
  <1>5. \A name \in DOMAIN StockDirectory : \E k \in 1 .. 18 : f[k][1] = name
    BY <1>2, <1>3 DEF Row
  <1>6. e[1] = 0 /\ e[18 + 1] = 39
    OBVIOUS
  <1> HIDE DEF e, f
  <1>7. IsTable(StockDirectory, f, e, 18, 39)
    BY <1>1, <1>4, <1>5, <1>6 DEF IsTable
  <1> QED
    BY <1>7, TableFits DEF f

-----------------------------------------------------------------------------
(* The tables *)

(* The types whose messages are decoded. *)
LEMMA Decoded == DOMAIN Wire = {"S", "A", "F", "E", "C", "X", "D", "U", "P", "R"}
  BY DEF Wire

(* The table of the code, that of the script and the sums of the fields of  *)
(* the messages agree. *)
LEMMA LengthsAgree ==
  /\ DOMAIN Wire \subseteq DOMAIN SPEC_LENGTHS
  /\ \A type \in DOMAIN SPEC_LENGTHS :
       spec_message_length(type) = SPEC_LENGTHS[type] /\ LengthOf(type) = SPEC_LENGTHS[type]
  /\ \A type : type \notin DOMAIN SPEC_LENGTHS => spec_message_length(type) = 0
  <1>1. kSpecLengths = SPEC_LENGTHS
    BY DEF kSpecLengths, SPEC_LENGTHS
  <1>2. DOMAIN Wire \subseteq DOMAIN SPEC_LENGTHS
    BY Decoded DEF SPEC_LENGTHS
  <1>3. ASSUME NEW type \in DOMAIN Wire PROVE LengthOf(type) = SPEC_LENGTHS[type]
    <2>1. type \in {"S", "A", "F", "E", "C", "X", "D", "U", "P", "R"}
      BY Decoded
    <2>2. \E struct : Fits(struct, Wire[type], SPEC_LENGTHS[type])
      BY <2>1, FitsSystemEvent, FitsAddOrder, FitsAddOrderWithMpid, FitsOrderExecuted,
         FitsOrderExecutedWithPrice, FitsOrderCancel, FitsOrderDelete, FitsOrderReplace,
         FitsTradeNonCross, FitsStockDirectory DEF SPEC_LENGTHS
    <2> QED
      BY <2>2 DEF Fits, LengthOf
  <1> QED
    BY <1>1, <1>2, <1>3, Zenon DEF spec_message_length, LengthOf

(* Each type is dispatched to the overload and the struct of its message. *)
LEMMA DecodersFit ==
  /\ DOMAIN Decoders = DOMAIN Wire
  /\ \A type \in DOMAIN Wire :
       /\ Decoders[type][1] = MessageName[type]
       /\ Fits(Decoders[type][2], Wire[type], SPEC_LENGTHS[type])
       /\ "side" \in DOMAIN Decoders[type][2] <=> type \in {"A", "F", "P"}
  <1>1. DOMAIN Decoders = DOMAIN Wire
    BY Decoded DEF Decoders
  <1>2. ASSUME NEW type \in DOMAIN Wire
        PROVE  /\ Decoders[type][1] = MessageName[type]
               /\ Fits(Decoders[type][2], Wire[type], SPEC_LENGTHS[type])
    <2>1. type \in {"S", "A", "F", "E", "C", "X", "D", "U", "P", "R"}
      BY Decoded
    <2>2. Decoders[type][1] = MessageName[type]
      BY <2>1 DEF Decoders, MessageName
    <2>3. Fits(Decoders[type][2], Wire[type], SPEC_LENGTHS[type])
      BY <2>1, FitsSystemEvent, FitsAddOrder, FitsAddOrderWithMpid, FitsOrderExecuted,
         FitsOrderExecutedWithPrice, FitsOrderCancel, FitsOrderDelete, FitsOrderReplace,
         FitsTradeNonCross, FitsStockDirectory DEF SPEC_LENGTHS, Decoders
    <2> QED
      BY <2>2, <2>3
  <1>3. ASSUME NEW type \in DOMAIN Wire
        PROVE  "side" \in DOMAIN Decoders[type][2] <=> type \in {"A", "F", "P"}
    <2>1. type \in {"S", "A", "F", "E", "C", "X", "D", "U", "P", "R"}
      BY Decoded
    <2>2. "side" \in DOMAIN AddOrder
      BY DEF AddOrder, StructOf
    <2>3. "side" \in DOMAIN AddOrderWithMpid /\ "side" \in DOMAIN TradeNonCross
      BY <2>2 DEF AddOrderWithMpid, TradeNonCross, StructOf
    <2>4. "side" \notin DOMAIN OrderExecuted /\ "side" \notin DOMAIN OrderExecutedWithPrice
      BY DEF OrderExecuted, OrderExecutedWithPrice, StructOf, MessageHeader
    <2>5. "side" \notin DOMAIN OrderCancel /\ "side" \notin DOMAIN OrderDelete
      BY DEF OrderCancel, OrderDelete, StructOf, MessageHeader
    <2>6. "side" \notin DOMAIN OrderReplace /\ "side" \notin DOMAIN SystemEvent
      BY DEF OrderReplace, SystemEvent, StructOf, MessageHeader
    <2>7. "side" \notin DOMAIN StockDirectory
      BY DEF StockDirectory, StructOf, MessageHeader
    <2> QED
      BY <2>1, <2>2, <2>3, <2>4, <2>5, <2>6, <2>7 DEF Decoders
  <1> QED
    BY <1>1, <1>2, <1>3

-----------------------------------------------------------------------------
(* Both implementations *)

(* What each makes of a record, whatever the other does.                    *)
Parsed(r) ==
  IF spec_message_length(r[1]) # Len(r) THEN Rejected ELSE dispatch_record(r[1], r)

Replayed(r) ==
  IF r[1] \notin DOMAIN SPEC_LENGTHS THEN Rejected
  ELSE IF SPEC_LENGTHS[r[1]] # Len(r) THEN Rejected ELSE _apply(r)

(* Either has not looked at the record yet, or has made its mind up.        *)
PInv ==
  /\ record \in Seq(Byte) /\ Len(record) \in Nat /\ Len(record) # 0
  /\ cpp \in {Pending, Parsed(record)}
  /\ python \in {Pending, Replayed(record)}

(* It stays so. *)
LEMMA PInductive == ParserSpec => []PInv
  <1>1. ParserInit => PInv
    BY RecordsAssumption DEF ParserInit, PInv
  <1>2. PInv /\ [ParserNext]_parserVars => PInv'
    <2> SUFFICES ASSUME PInv, [ParserNext]_parserVars PROVE PInv'
      OBVIOUS
    <2>1. CASE ParseRecord
      BY <2>1 DEF PInv, ParseRecord, Parsed, Replayed, dispatch_record
    <2>2. CASE ReplayRecord
      BY <2>2 DEF PInv, ReplayRecord, Parsed, Replayed, dispatch_record
    <2>3. CASE UNCHANGED parserVars
      BY <2>3 DEF PInv, parserVars, Parsed, Replayed, dispatch_record
    <2> QED
      BY <2>1, <2>2, <2>3 DEF ParserNext
  <1> QED
    BY <1>1, <1>2, PTL DEF ParserSpec

(* A record is a message when its length is the one in the table. *)
LEMMA MessageIff ==
  ASSUME PInv
  PROVE  IsMessage <=> spec_message_length(record[1]) = Len(record)
  BY LengthsAgree DEF PInv, IsMessage

(* What a message of a type with a decoder is decoded into. *)
LEMMA MessageDecoded ==
  ASSUME PInv, IsMessage, record[1] \in DOMAIN Wire, NEW struct, struct = Decoders[record[1]][2]
  PROVE  /\ decode(struct, record) = Sent(record)
         /\ AssertsHold(record[1], struct, record) <=>
              (record[1] \in {"A", "F", "P"} => is_valid_side(Sent(record).side))
  <1>1. Fits(struct, Wire[record[1]], Len(record))
    BY DecodersFit, LengthsAgree DEF IsMessage
  <1>2. record \in Seq(Byte)
    BY DEF PInv
  <1>3. /\ decode(struct, record) = Sent(record)
        /\ \A f \in DOMAIN struct :
             InRecord(record, struct[f]) /\ Value(record, struct[f]) = Sent(record)[f]
    BY <1>1, <1>2, FitsDecodes
  <1>4. "side" \in DOMAIN struct <=> record[1] \in {"A", "F", "P"}
    BY DecodersFit
  <1>5. spec_message_length(record[1]) = Len(record)
    BY MessageIff
  <1>6. "side" \in DOMAIN struct => Value(record, struct.side) = Sent(record).side
    BY <1>3
  <1> QED
    BY <1>3, <1>4, <1>5, <1>6 DEF AssertsHold

(* What dispatch_record makes of a message: it stops at an assert, or hands *)
(* on what was sent. *)
LEMMA MessageParsed ==
  ASSUME PInv, cpp # Pending, IsMessage
  PROVE  /\ record[1] \notin DOMAIN Wire =>
              cpp = [result |-> "on_other", type |-> record[1], record |-> record]
         /\ record[1] \in DOMAIN Wire =>
              cpp = IF ~NDEBUG /\ record[1] \in {"A", "F", "P"} /\ ~is_valid_side(Sent(record).side)
                      THEN [result |-> "aborted"]
                      ELSE [result |-> "on", message |-> MessageName[record[1]],
                            fields |-> Sent(record)]
  <1>1. cpp = dispatch_record(record[1], record)
    BY MessageIff DEF PInv, Parsed
  <1>2. ASSUME record[1] \notin DOMAIN Wire
        PROVE  cpp = [result |-> "on_other", type |-> record[1], record |-> record]
    BY <1>1, <1>2, DecodersFit DEF dispatch_record
  <1>3. ASSUME record[1] \in DOMAIN Wire
        PROVE  cpp = IF ~NDEBUG /\ record[1] \in {"A", "F", "P"} /\ ~is_valid_side(Sent(record).side)
                       THEN [result |-> "aborted"]
                       ELSE [result |-> "on", message |-> MessageName[record[1]],
                             fields |-> Sent(record)]
    <2> DEFINE struct == Decoders[record[1]][2]
    <2>1. /\ decode(struct, record) = Sent(record)
          /\ AssertsHold(record[1], struct, record) <=>
               (record[1] \in {"A", "F", "P"} => is_valid_side(Sent(record).side))
      BY <1>3, MessageDecoded
    <2>2. record[1] \in DOMAIN Decoders /\ Decoders[record[1]][1] = MessageName[record[1]]
      BY <1>3, DecodersFit
    <2> QED
      BY <1>1, <2>1, <2>2 DEF dispatch_record
  <1> QED
    BY <1>2, <1>3

(***************************************************************************)
(* dispatch_record hands the right overload of on() the values that were   *)
(* sent, in every field and for any bytes, and what it does not decode to  *)
(* on_other() whole; the table refuses no message of the specification.    *)
(***************************************************************************)
THEOREM DecodedRight == ParserSpec => []DecodesWhatWasSent
  <1>1. PInv => DecodesWhatWasSent
    <2> SUFFICES ASSUME PInv, IsMessage, cpp.result \notin {"pending", "aborted"}
                 PROVE  cpp = IF record[1] \in DOMAIN Wire
                              THEN [result |-> "on", message |-> MessageName[record[1]],
                                    fields |-> Sent(record)]
                              ELSE [result |-> "on_other", type |-> record[1], record |-> record]
      BY DEF DecodesWhatWasSent
    <2>1. cpp # Pending /\ cpp # [result |-> "aborted"]
      BY DEF Pending
    <2> QED
      BY <2>1, MessageParsed
  <1> QED
    BY <1>1, PInductive, PTL

(***************************************************************************)
(* No assert of a decoder or an accessor fires on what frame_all lets      *)
(* through, but the one on the side, and that one exactly on a byte that   *)
(* is neither 'B' nor 'S'.                                                 *)
(***************************************************************************)
THEOREM AbortsRight == ParserSpec => []OnlyTheSideAborts
  <1>1. PInv => OnlyTheSideAborts
    <2> SUFFICES ASSUME PInv, cpp # Pending
                 PROVE  cpp.result = "aborted" <=>
                          /\ ~NDEBUG /\ IsMessage
                          /\ record[1] \in {"A", "F", "P"} /\ ~is_valid_side(Sent(record).side)
      BY DEF OnlyTheSideAborts
    <2>1. CASE IsMessage
      <3>1. {"A", "F", "P"} \subseteq DOMAIN Wire
        BY Decoded
      <3>2. CASE record[1] \notin DOMAIN Wire
        <4>1. cpp.result = "on_other"
          BY <2>1, <3>2, MessageParsed
        <4> QED
          BY <3>1, <3>2, <4>1
      <3>3. CASE record[1] \in DOMAIN Wire
        BY <2>1, <3>3, MessageParsed
      <3> QED
        BY <3>2, <3>3
    <2>2. CASE ~IsMessage
      <3>1. cpp = Rejected
        BY <2>2, MessageIff DEF PInv, Parsed
      <3> QED
        BY <2>2, <3>1 DEF Rejected
    <2> QED
      BY <2>1, <2>2
  <1> QED
    BY <1>1, PInductive, PTL

-----------------------------------------------------------------------------
(* The calls *)

(* What the accessors of integers return.                                   *)
Number(r, at, width) == Value(r, [as |-> "uint", at |-> at, width |-> width])

(* Bytes at .. to - 1 of a record, `width` of them, and all there.          *)
IsField(r, at, width, to) ==
  r \in Seq(Byte) /\ at \in Nat /\ width \in Nat /\ at + width = to /\ to <= Len(r)

(* It is what the script unpacks of the same bytes. *)
LEMMA SameNumber ==
  ASSUME NEW r, NEW at, NEW width, NEW to, IsField(r, at, width, to)
  PROVE  Number(r, at, width) = unpack(r, at, to)
  <1>1. r \in Seq(Byte) /\ at \in Nat /\ width \in Nat /\ at + width = to /\ to <= Len(r)
    BY DEF IsField
  <1>2. SubSeq(r, at + 1, to) = Bytes(r, at, width)
    BY <1>1, BytesFacts
  <1>3. Number(r, at, width) = BigEndian(Bytes(r, at, width))
    BY <1>1, ValueFacts DEF Number
  <1> QED
    BY <1>2, <1>3 DEF unpack, Slice

(* A character is the script's byte. *)
LEMMA SameChar ==
  ASSUME NEW r, NEW at, NEW to, IsField(r, at, 1, to)
  PROVE  Value(r, [as |-> "char", at |-> at, width |-> 1]) = r[to]
  <1>1. r \in Seq(Byte) /\ at \in Nat /\ at + 1 = to /\ to <= Len(r)
    BY DEF IsField
  <1>2. Value(r, [as |-> "char", at |-> at, width |-> 1]) = r[at + 1]
    BY <1>1, ValueFacts
  <1> QED
    BY <1>1, <1>2

(* A text is its slice. *)
LEMMA SameText ==
  ASSUME NEW r, NEW at, NEW width, NEW to, IsField(r, at, width, to)
  PROVE  Value(r, [as |-> "alpha", at |-> at, width |-> width]) = Slice(r, at, to)
  <1>1. r \in Seq(Byte) /\ at \in Nat /\ width \in Nat /\ at + width = to /\ to <= Len(r)
    BY DEF IsField
  <1>2. SubSeq(r, at + 1, to) = Bytes(r, at, width)
    BY <1>1, BytesFacts
  <1>3. Value(r, [as |-> "alpha", at |-> at, width |-> width]) = Bytes(r, at, width)
    BY <1>1, ValueFacts
  <1> QED
    BY <1>2, <1>3 DEF Slice

(* 'S'. *)
LEMMA SameSystemEvent ==
  ASSUME NEW r \in Seq(Byte), r[1] = "S", Len(r) = 12
  PROVE  BookCall("SystemEvent", decode(SystemEvent, r)) = _apply(r)
  <1> DEFINE m == decode(SystemEvent, r)
  <1>1. m.stock_locate = Number(r, 1, 2)
    BY DEF decode, SystemEvent, MessageHeader, StructOf, Number,
           read_u16
  <1>2. Number(r, 1, 2) = unpack(r, 1, 3)
    <2>1. IsField(r, 1, 2, 3)
      BY DEF IsField
    <2> QED
      BY <2>1, SameNumber
  <1> HIDE DEF m
  <1>3. m.stock_locate = unpack(r, 1, 3)
    BY <1>1, <1>2
  <1>4. BookCall("SystemEvent", m) = _apply(r)
    BY <1>3 DEF BookCall, _apply
  <1> QED
    BY <1>4 DEF m

(* 'A'. *)
LEMMA SameAddOrder ==
  ASSUME NEW r \in Seq(Byte), r[1] = "A", Len(r) = 36
  PROVE  BookCall("AddOrder", decode(AddOrder, r)) = _apply(r)
  <1> DEFINE m == decode(AddOrder, r)
  <1>1. /\ m.stock_locate = Number(r, 1, 2)
        /\ m.order_reference = Number(r, 11, 8)
        /\ m.shares = Number(r, 20, 4)
        /\ m.price = Number(r, 32, 4)
        /\ m.side = Value(r, [as |-> "char", at |-> 19, width |-> 1])
    BY DEF decode, AddOrder, MessageHeader, StructOf, Number,
           read_u16, read_u64, read_u32, read_char
  <1>2. /\ Number(r, 1, 2) = unpack(r, 1, 3)
        /\ Number(r, 11, 8) = unpack(r, 11, 19)
        /\ Number(r, 20, 4) = unpack(r, 20, 24)
        /\ Number(r, 32, 4) = unpack(r, 32, 36)
    <2>1. Number(r, 1, 2) = unpack(r, 1, 3)
      <3>1. IsField(r, 1, 2, 3)
        BY DEF IsField
      <3> QED
        BY <3>1, SameNumber
    <2>2. Number(r, 11, 8) = unpack(r, 11, 19)
      <3>1. IsField(r, 11, 8, 19)
        BY DEF IsField
      <3> QED
        BY <3>1, SameNumber
    <2>3. Number(r, 20, 4) = unpack(r, 20, 24)
      <3>1. IsField(r, 20, 4, 24)
        BY DEF IsField
      <3> QED
        BY <3>1, SameNumber
    <2>4. Number(r, 32, 4) = unpack(r, 32, 36)
      <3>1. IsField(r, 32, 4, 36)
        BY DEF IsField
      <3> QED
        BY <3>1, SameNumber
    <2> QED
      BY <2>1, <2>2, <2>3, <2>4
  <1>3. Value(r, [as |-> "char", at |-> 19, width |-> 1]) = r[20]
    <2>1. IsField(r, 19, 1, 20)
      BY DEF IsField
    <2> QED
      BY <2>1, SameChar
  <1> HIDE DEF m
  <1>4. /\ m.stock_locate = unpack(r, 1, 3)
        /\ m.order_reference = unpack(r, 11, 19)
        /\ m.shares = unpack(r, 20, 24)
        /\ m.price = unpack(r, 32, 36)
        /\ m.side = r[20]
    BY <1>1, <1>2, <1>3
  <1>5. BookCall("AddOrder", m) = _apply(r)
    BY <1>4 DEF BookCall, _apply
  <1> QED
    BY <1>5 DEF m

(* 'F'. *)
LEMMA SameAddOrderWithMpid ==
  ASSUME NEW r \in Seq(Byte), r[1] = "F", Len(r) = 40
  PROVE  BookCall("AddOrderWithMpid", decode(AddOrderWithMpid, r)) = _apply(r)
  <1> DEFINE m == decode(AddOrderWithMpid, r)
  <1>1. /\ m.stock_locate = Number(r, 1, 2)
        /\ m.order_reference = Number(r, 11, 8)
        /\ m.shares = Number(r, 20, 4)
        /\ m.price = Number(r, 32, 4)
        /\ m.side = Value(r, [as |-> "char", at |-> 19, width |-> 1])
    BY DEF decode, AddOrderWithMpid, AddOrder, MessageHeader, StructOf, Number,
           read_u16, read_u64, read_u32, read_char
  <1>2. /\ Number(r, 1, 2) = unpack(r, 1, 3)
        /\ Number(r, 11, 8) = unpack(r, 11, 19)
        /\ Number(r, 20, 4) = unpack(r, 20, 24)
        /\ Number(r, 32, 4) = unpack(r, 32, 36)
    <2>1. Number(r, 1, 2) = unpack(r, 1, 3)
      <3>1. IsField(r, 1, 2, 3)
        BY DEF IsField
      <3> QED
        BY <3>1, SameNumber
    <2>2. Number(r, 11, 8) = unpack(r, 11, 19)
      <3>1. IsField(r, 11, 8, 19)
        BY DEF IsField
      <3> QED
        BY <3>1, SameNumber
    <2>3. Number(r, 20, 4) = unpack(r, 20, 24)
      <3>1. IsField(r, 20, 4, 24)
        BY DEF IsField
      <3> QED
        BY <3>1, SameNumber
    <2>4. Number(r, 32, 4) = unpack(r, 32, 36)
      <3>1. IsField(r, 32, 4, 36)
        BY DEF IsField
      <3> QED
        BY <3>1, SameNumber
    <2> QED
      BY <2>1, <2>2, <2>3, <2>4
  <1>3. Value(r, [as |-> "char", at |-> 19, width |-> 1]) = r[20]
    <2>1. IsField(r, 19, 1, 20)
      BY DEF IsField
    <2> QED
      BY <2>1, SameChar
  <1> HIDE DEF m
  <1>4. /\ m.stock_locate = unpack(r, 1, 3)
        /\ m.order_reference = unpack(r, 11, 19)
        /\ m.shares = unpack(r, 20, 24)
        /\ m.price = unpack(r, 32, 36)
        /\ m.side = r[20]
    BY <1>1, <1>2, <1>3
  <1>5. BookCall("AddOrderWithMpid", m) = _apply(r)
    BY <1>4 DEF BookCall, _apply
  <1> QED
    BY <1>5 DEF m

(* 'E'. *)
LEMMA SameOrderExecuted ==
  ASSUME NEW r \in Seq(Byte), r[1] = "E", Len(r) = 31
  PROVE  BookCall("OrderExecuted", decode(OrderExecuted, r)) = _apply(r)
  <1> DEFINE m == decode(OrderExecuted, r)
  <1>1. /\ m.stock_locate = Number(r, 1, 2)
        /\ m.order_reference = Number(r, 11, 8)
        /\ m.executed_shares = Number(r, 19, 4)
    BY DEF decode, OrderExecuted, MessageHeader, StructOf, Number,
           read_u16, read_u64, read_u32
  <1>2. /\ Number(r, 1, 2) = unpack(r, 1, 3)
        /\ Number(r, 11, 8) = unpack(r, 11, 19)
        /\ Number(r, 19, 4) = unpack(r, 19, 23)
    <2>1. Number(r, 1, 2) = unpack(r, 1, 3)
      <3>1. IsField(r, 1, 2, 3)
        BY DEF IsField
      <3> QED
        BY <3>1, SameNumber
    <2>2. Number(r, 11, 8) = unpack(r, 11, 19)
      <3>1. IsField(r, 11, 8, 19)
        BY DEF IsField
      <3> QED
        BY <3>1, SameNumber
    <2>3. Number(r, 19, 4) = unpack(r, 19, 23)
      <3>1. IsField(r, 19, 4, 23)
        BY DEF IsField
      <3> QED
        BY <3>1, SameNumber
    <2> QED
      BY <2>1, <2>2, <2>3
  <1> HIDE DEF m
  <1>3. /\ m.stock_locate = unpack(r, 1, 3)
        /\ m.order_reference = unpack(r, 11, 19)
        /\ m.executed_shares = unpack(r, 19, 23)
    BY <1>1, <1>2
  <1>4. BookCall("OrderExecuted", m) = _apply(r)
    BY <1>3 DEF BookCall, _apply
  <1> QED
    BY <1>4 DEF m

(* 'C'. *)
LEMMA SameOrderExecutedWithPrice ==
  ASSUME NEW r \in Seq(Byte), r[1] = "C", Len(r) = 36
  PROVE  BookCall("OrderExecutedWithPrice", decode(OrderExecutedWithPrice, r)) = _apply(r)
  <1> DEFINE m == decode(OrderExecutedWithPrice, r)
  <1>1. /\ m.stock_locate = Number(r, 1, 2)
        /\ m.order_reference = Number(r, 11, 8)
        /\ m.executed_shares = Number(r, 19, 4)
    BY DEF decode, OrderExecutedWithPrice, OrderExecuted, MessageHeader, StructOf, Number,
           read_u16, read_u64, read_u32
  <1>2. /\ Number(r, 1, 2) = unpack(r, 1, 3)
        /\ Number(r, 11, 8) = unpack(r, 11, 19)
        /\ Number(r, 19, 4) = unpack(r, 19, 23)
    <2>1. Number(r, 1, 2) = unpack(r, 1, 3)
      <3>1. IsField(r, 1, 2, 3)
        BY DEF IsField
      <3> QED
        BY <3>1, SameNumber
    <2>2. Number(r, 11, 8) = unpack(r, 11, 19)
      <3>1. IsField(r, 11, 8, 19)
        BY DEF IsField
      <3> QED
        BY <3>1, SameNumber
    <2>3. Number(r, 19, 4) = unpack(r, 19, 23)
      <3>1. IsField(r, 19, 4, 23)
        BY DEF IsField
      <3> QED
        BY <3>1, SameNumber
    <2> QED
      BY <2>1, <2>2, <2>3
  <1> HIDE DEF m
  <1>3. /\ m.stock_locate = unpack(r, 1, 3)
        /\ m.order_reference = unpack(r, 11, 19)
        /\ m.executed_shares = unpack(r, 19, 23)
    BY <1>1, <1>2
  <1>4. BookCall("OrderExecutedWithPrice", m) = _apply(r)
    BY <1>3 DEF BookCall, _apply
  <1> QED
    BY <1>4 DEF m

(* 'X'. *)
LEMMA SameOrderCancel ==
  ASSUME NEW r \in Seq(Byte), r[1] = "X", Len(r) = 23
  PROVE  BookCall("OrderCancel", decode(OrderCancel, r)) = _apply(r)
  <1> DEFINE m == decode(OrderCancel, r)
  <1>1. /\ m.stock_locate = Number(r, 1, 2)
        /\ m.order_reference = Number(r, 11, 8)
        /\ m.cancelled_shares = Number(r, 19, 4)
    BY DEF decode, OrderCancel, MessageHeader, StructOf, Number,
           read_u16, read_u64, read_u32
  <1>2. /\ Number(r, 1, 2) = unpack(r, 1, 3)
        /\ Number(r, 11, 8) = unpack(r, 11, 19)
        /\ Number(r, 19, 4) = unpack(r, 19, 23)
    <2>1. Number(r, 1, 2) = unpack(r, 1, 3)
      <3>1. IsField(r, 1, 2, 3)
        BY DEF IsField
      <3> QED
        BY <3>1, SameNumber
    <2>2. Number(r, 11, 8) = unpack(r, 11, 19)
      <3>1. IsField(r, 11, 8, 19)
        BY DEF IsField
      <3> QED
        BY <3>1, SameNumber
    <2>3. Number(r, 19, 4) = unpack(r, 19, 23)
      <3>1. IsField(r, 19, 4, 23)
        BY DEF IsField
      <3> QED
        BY <3>1, SameNumber
    <2> QED
      BY <2>1, <2>2, <2>3
  <1> HIDE DEF m
  <1>3. /\ m.stock_locate = unpack(r, 1, 3)
        /\ m.order_reference = unpack(r, 11, 19)
        /\ m.cancelled_shares = unpack(r, 19, 23)
    BY <1>1, <1>2
  <1>4. BookCall("OrderCancel", m) = _apply(r)
    BY <1>3 DEF BookCall, _apply
  <1> QED
    BY <1>4 DEF m

(* 'D'. *)
LEMMA SameOrderDelete ==
  ASSUME NEW r \in Seq(Byte), r[1] = "D", Len(r) = 19
  PROVE  BookCall("OrderDelete", decode(OrderDelete, r)) = _apply(r)
  <1> DEFINE m == decode(OrderDelete, r)
  <1>1. /\ m.stock_locate = Number(r, 1, 2)
        /\ m.order_reference = Number(r, 11, 8)
    BY DEF decode, OrderDelete, MessageHeader, StructOf, Number,
           read_u16, read_u64
  <1>2. /\ Number(r, 1, 2) = unpack(r, 1, 3)
        /\ Number(r, 11, 8) = unpack(r, 11, 19)
    <2>1. Number(r, 1, 2) = unpack(r, 1, 3)
      <3>1. IsField(r, 1, 2, 3)
        BY DEF IsField
      <3> QED
        BY <3>1, SameNumber
    <2>2. Number(r, 11, 8) = unpack(r, 11, 19)
      <3>1. IsField(r, 11, 8, 19)
        BY DEF IsField
      <3> QED
        BY <3>1, SameNumber
    <2> QED
      BY <2>1, <2>2
  <1> HIDE DEF m
  <1>3. /\ m.stock_locate = unpack(r, 1, 3)
        /\ m.order_reference = unpack(r, 11, 19)
    BY <1>1, <1>2
  <1>4. BookCall("OrderDelete", m) = _apply(r)
    BY <1>3 DEF BookCall, _apply
  <1> QED
    BY <1>4 DEF m

(* 'U'. *)
LEMMA SameOrderReplace ==
  ASSUME NEW r \in Seq(Byte), r[1] = "U", Len(r) = 35
  PROVE  BookCall("OrderReplace", decode(OrderReplace, r)) = _apply(r)
  <1> DEFINE m == decode(OrderReplace, r)
  <1>1. /\ m.stock_locate = Number(r, 1, 2)
        /\ m.original_order_reference = Number(r, 11, 8)
        /\ m.new_order_reference = Number(r, 19, 8)
        /\ m.shares = Number(r, 27, 4)
        /\ m.price = Number(r, 31, 4)
    BY DEF decode, OrderReplace, MessageHeader, StructOf, Number,
           read_u16, read_u64, read_u32
  <1>2. /\ Number(r, 1, 2) = unpack(r, 1, 3)
        /\ Number(r, 11, 8) = unpack(r, 11, 19)
        /\ Number(r, 19, 8) = unpack(r, 19, 27)
        /\ Number(r, 27, 4) = unpack(r, 27, 31)
        /\ Number(r, 31, 4) = unpack(r, 31, 35)
    <2>1. Number(r, 1, 2) = unpack(r, 1, 3)
      <3>1. IsField(r, 1, 2, 3)
        BY DEF IsField
      <3> QED
        BY <3>1, SameNumber
    <2>2. Number(r, 11, 8) = unpack(r, 11, 19)
      <3>1. IsField(r, 11, 8, 19)
        BY DEF IsField
      <3> QED
        BY <3>1, SameNumber
    <2>3. Number(r, 19, 8) = unpack(r, 19, 27)
      <3>1. IsField(r, 19, 8, 27)
        BY DEF IsField
      <3> QED
        BY <3>1, SameNumber
    <2>4. Number(r, 27, 4) = unpack(r, 27, 31)
      <3>1. IsField(r, 27, 4, 31)
        BY DEF IsField
      <3> QED
        BY <3>1, SameNumber
    <2>5. Number(r, 31, 4) = unpack(r, 31, 35)
      <3>1. IsField(r, 31, 4, 35)
        BY DEF IsField
      <3> QED
        BY <3>1, SameNumber
    <2> QED
      BY <2>1, <2>2, <2>3, <2>4, <2>5
  <1> HIDE DEF m
  <1>3. /\ m.stock_locate = unpack(r, 1, 3)
        /\ m.original_order_reference = unpack(r, 11, 19)
        /\ m.new_order_reference = unpack(r, 19, 27)
        /\ m.shares = unpack(r, 27, 31)
        /\ m.price = unpack(r, 31, 35)
    BY <1>1, <1>2
  <1>4. BookCall("OrderReplace", m) = _apply(r)
    BY <1>3 DEF BookCall, _apply
  <1> QED
    BY <1>4 DEF m

(* 'P'. *)
LEMMA SameTradeNonCross ==
  ASSUME NEW r \in Seq(Byte), r[1] = "P", Len(r) = 44
  PROVE  BookCall("TradeNonCross", decode(TradeNonCross, r)) = _apply(r)
  <1> DEFINE m == decode(TradeNonCross, r)
  <1>1. m.stock_locate = Number(r, 1, 2)
    BY DEF decode, TradeNonCross, AddOrder, MessageHeader, StructOf, Number,
           read_u16
  <1>2. Number(r, 1, 2) = unpack(r, 1, 3)
    <2>1. IsField(r, 1, 2, 3)
      BY DEF IsField
    <2> QED
      BY <2>1, SameNumber
  <1> HIDE DEF m
  <1>3. m.stock_locate = unpack(r, 1, 3)
    BY <1>1, <1>2
  <1>4. BookCall("TradeNonCross", m) = _apply(r)
    BY <1>3 DEF BookCall, _apply
  <1> QED
    BY <1>4 DEF m

(* 'R'. *)
LEMMA SameStockDirectory ==
  ASSUME NEW r \in Seq(Byte), r[1] = "R", Len(r) = 39
  PROVE  BookCall("StockDirectory", decode(StockDirectory, r)) = _apply(r)
  <1> DEFINE m == decode(StockDirectory, r)
  <1>1. /\ m.stock_locate = Number(r, 1, 2)
        /\ m.stock = Value(r, [as |-> "alpha", at |-> 11, width |-> 8])
    BY DEF decode, StockDirectory, MessageHeader, StructOf, Number,
           read_u16, read_alpha
  <1>2. Number(r, 1, 2) = unpack(r, 1, 3)
    <2>1. IsField(r, 1, 2, 3)
      BY DEF IsField
    <2> QED
      BY <2>1, SameNumber
  <1>3. Value(r, [as |-> "alpha", at |-> 11, width |-> 8]) = Slice(r, 11, 19)
    <2>1. IsField(r, 11, 8, 19)
      BY DEF IsField
    <2> QED
      BY <2>1, SameText
  <1> HIDE DEF m
  <1>4. /\ m.stock_locate = unpack(r, 1, 3)
        /\ m.stock = Slice(r, 11, 19)
    BY <1>1, <1>2, <1>3
  <1>5. BookCall("StockDirectory", m) = _apply(r)
    BY <1>4 DEF BookCall, _apply
  <1> QED
    BY <1>5 DEF m

(* Whatever is decoded is the call the script makes. *)
LEMMA CallsAgree ==
  ASSUME NEW r \in Seq(Byte), r[1] \in DOMAIN Wire, Len(r) = SPEC_LENGTHS[r[1]]
  PROVE  BookCall(Decoders[r[1]][1], decode(Decoders[r[1]][2], r)) = _apply(r)
  <1>1. r[1] \in {"S", "A", "F", "E", "C", "X", "D", "U", "P", "R"}
    BY Decoded
  <1>2. CASE r[1] = "S"
    BY <1>2, SameSystemEvent DEF SPEC_LENGTHS, Decoders
  <1>3. CASE r[1] = "A"
    BY <1>3, SameAddOrder DEF SPEC_LENGTHS, Decoders
  <1>4. CASE r[1] = "F"
    BY <1>4, SameAddOrderWithMpid DEF SPEC_LENGTHS, Decoders
  <1>5. CASE r[1] = "E"
    BY <1>5, SameOrderExecuted DEF SPEC_LENGTHS, Decoders
  <1>6. CASE r[1] = "C"
    BY <1>6, SameOrderExecutedWithPrice DEF SPEC_LENGTHS, Decoders
  <1>7. CASE r[1] = "X"
    BY <1>7, SameOrderCancel DEF SPEC_LENGTHS, Decoders
  <1>8. CASE r[1] = "D"
    BY <1>8, SameOrderDelete DEF SPEC_LENGTHS, Decoders
  <1>9. CASE r[1] = "U"
    BY <1>9, SameOrderReplace DEF SPEC_LENGTHS, Decoders
  <1>10. CASE r[1] = "P"
    BY <1>10, SameTradeNonCross DEF SPEC_LENGTHS, Decoders
  <1>11. CASE r[1] = "R"
    BY <1>11, SameStockDirectory DEF SPEC_LENGTHS, Decoders
  <1> QED
    BY <1>1, <1>2, <1>3, <1>4, <1>5, <1>6, <1>7, <1>8, <1>9, <1>10, <1>11

(***************************************************************************)
(* book_replay and reference_book.py refuse the same records and make the  *)
(* same call of each other one, for any bytes: every offset and width of   *)
(* _apply is one the decoders have, and both tables say the same.          *)
(***************************************************************************)
THEOREM CallsTheSame == ParserSpec => []SameCall
  <1>1. PInv => SameCall
    <2> SUFFICES ASSUME PInv, python # Pending
                 PROVE  CASE cpp.result = "rejected" -> python = Rejected
                          [] cpp.result = "on_other" -> python.result = "call" /\ python.method = "nothing"
                          [] cpp.result = "on"       -> python = BookCall(cpp.message, cpp.fields)
                          [] OTHER                   -> TRUE
      BY DEF SameCall
    <2>1. python = Replayed(record) /\ record \in Seq(Byte)
      BY DEF PInv
    <2>2. CASE cpp = Pending
      BY <2>2 DEF Pending
    <2>3. CASE cpp # Pending /\ ~IsMessage
      <3>1. cpp = Rejected
        BY <2>3, MessageIff DEF PInv, Parsed
      <3>2. python = Rejected
        BY <2>1, <2>3, LengthsAgree DEF Replayed, IsMessage
      <3> QED
        BY <3>1, <3>2 DEF Rejected
    <2>4. CASE cpp # Pending /\ IsMessage
      <3>1. cpp = dispatch_record(record[1], record)
        BY <2>4, MessageIff DEF PInv, Parsed
      <3>2. record[1] \in DOMAIN SPEC_LENGTHS /\ Len(record) = SPEC_LENGTHS[record[1]]
        BY <2>4, LengthsAgree DEF IsMessage
      <3>3. python = _apply(record)
        BY <2>1, <3>2 DEF Replayed
      <3>4. CASE record[1] \notin DOMAIN Wire
        <4>1. cpp.result = "on_other"
          BY <2>4, <3>4, MessageParsed
        <4>2. record[1] \notin {"A", "F", "E", "C", "X", "D", "U", "P", "R"}
          BY <3>4, Decoded
        <4>3. python.result = "call" /\ python.method = "nothing"
          BY <3>3, <4>2 DEF _apply, Call
        <4> QED
          BY <4>1, <4>3
      <3>5. CASE record[1] \in DOMAIN Wire
        <4> DEFINE struct == Decoders[record[1]][2]
        <4>1. record[1] \in DOMAIN Decoders
          BY <3>5, DecodersFit
        <4>2. \/ cpp = [result |-> "aborted"]
              \/ cpp = [result |-> "on", message |-> Decoders[record[1]][1],
                        fields |-> decode(struct, record)]
          BY <3>1, <4>1 DEF dispatch_record
        <4>3. python = BookCall(Decoders[record[1]][1], decode(struct, record))
          BY <2>1, <3>2, <3>3, <3>5, CallsAgree
        <4> QED
          BY <4>2, <4>3
      <3> QED
        BY <3>4, <3>5
    <2> QED
      BY <2>2, <2>3, <2>4
  <1> QED
    BY <1>1, PInductive, PTL
=============================================================================
