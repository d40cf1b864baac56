---------------------------- MODULE FramerProofs ----------------------------
(***************************************************************************)
(* The safety properties of Framer, for every file, every length table and *)
(* every width of a byte and of size_t.                                    *)
(***************************************************************************)
EXTENDS Framer, TLAPS, SequenceTheorems

(* Any way of cutting the file into good records has a cut at the offset.   *)
OffsetForced ==
  \A starts \in SUBSET (0 .. size) : FramedBy(file, size, starts) => offset \in starts

(* Where the walk is.                                                       *)
Walk ==
  /\ offset <= size
  /\ touched <= size
  /\ outcome.bytes_consumed = offset
  /\ WellFramed(file, offset)
  /\ OffsetForced

(* What the outcome says.                                                   *)
Verdict ==
  /\ returned /\ outcome.error = None => offset = size
  /\ outcome.error # None => /\ returned
                             /\ outcome.error_offset = offset
                             /\ offset < size
                             /\ ~GoodRecord(file, offset)

IInv == TypeOK /\ Walk /\ Verdict /\ DeliveredTileThePrefix

-----------------------------------------------------------------------------
(* size_t subtraction does not wrap where the code uses it. *)
LEMMA MinusExact ==
  ASSUME NEW a \in Nat, NEW b \in Nat, b <= a, a < SizeMod
  PROVE  Minus(a, b) = a - b
  BY FilesAssumption DEF Minus

(* The file is a sequence of bytes, shorter than size_t can count. *)
LEMMA FileFacts ==
  ASSUME TypeOK
  PROVE  /\ file \in Seq(Byte)
         /\ size \in Nat
         /\ size < SizeMod
         /\ \A i \in 1 .. size : file[i] \in Byte
         /\ \A i \in Nat : ByteAt(i) \in Byte
  <1>1. file \in Seq(Byte) /\ size \in Nat /\ size + 2 < SizeMod
    BY FilesAssumption DEF TypeOK, size
  <1>2. \A i \in 1 .. size : file[i] \in Byte
    BY <1>1 DEF size
  <1>3. 0 \in Byte
    BY ByteAssumption DEF Byte
  <1> QED
    BY <1>1, <1>2, <1>3, FilesAssumption DEF ByteAt

(* The checks of the loop, without the wrap-around. *)
LEMMA Checks ==
  ASSUME TypeOK, InLoop
  PROVE  /\ PrefixFits <=> offset + 2 <= size
         /\ declared \in Nat
         /\ PrefixFits => declared = file[offset + 1] * ByteBase + file[offset + 2]
         /\ PrefixFits => (RecordFits <=> offset + 2 + declared <= size)
         /\ TypeReadable => /\ offset + 3 <= size
                            /\ type = file[offset + 3]
                            /\ type \in Byte
                            /\ expected = SpecLength[file[offset + 3]]
                            /\ expected \in Nat
  <1>1. offset \in Nat /\ offset < size
    BY DEF TypeOK, InLoop
  <1>2. Minus(size, offset) = size - offset
    BY <1>1, FileFacts, MinusExact
  <1>3. PrefixFits <=> offset + 2 <= size
    BY <1>1, <1>2, FileFacts DEF PrefixFits
  <1>4. declared \in Nat
    <2>1. offset + 1 \in Nat
      BY <1>1
    <2>2. ByteAt(offset) \in Byte /\ ByteAt(offset + 1) \in Byte
      BY <1>1, <2>1, FileFacts
    <2> QED
      BY <2>2, ByteAssumption DEF declared, Byte
  <1>5. ASSUME PrefixFits
        PROVE  /\ declared = file[offset + 1] * ByteBase + file[offset + 2]
               /\ RecordFits <=> offset + 2 + declared <= size
    <2>1. ByteAt(offset) = file[offset + 1] /\ ByteAt(offset + 1) = file[offset + 2]
      BY <1>1, <1>3, <1>5, FileFacts DEF ByteAt
    <2>2. Minus(Minus(size, offset), 2) = size - offset - 2
      BY <1>1, <1>2, <1>3, <1>5, FileFacts, MinusExact, FilesAssumption
    <2> QED
      BY <2>1, <2>2, <1>1, <1>4, FileFacts DEF declared, RecordFits
  <1>6. ASSUME TypeReadable
        PROVE  /\ offset + 3 <= size
               /\ type = file[offset + 3]
               /\ type \in Byte
               /\ expected = SpecLength[file[offset + 3]]
               /\ expected \in Nat
    <2>1. offset + 3 <= size
      BY <1>1, <1>4, <1>5, <1>6, FileFacts DEF TypeReadable
    <2>2. type = file[offset + 3] /\ type \in Byte
      BY <2>1, <1>1, FileFacts DEF type, ByteAt
    <2>3. expected \in Nat
      BY <2>2, LengthAssumption, ByteAssumption DEF expected, spec_message_length
    <2> QED
      BY <2>1, <2>2, <2>3 DEF expected, spec_message_length
  <1> QED
    BY <1>3, <1>4, <1>5, <1>6

(* frame_all delivers exactly when a good record starts at the offset. *)
LEMMA DeliversGoodRecords ==
  ASSUME TypeOK, InLoop
  PROVE  GoodRecord(file, offset) <=> TypeReadable /\ expected # 0 /\ expected = declared
  <1>1. offset \in Nat
    BY DEF TypeOK
  <1>2. ASSUME TypeReadable, expected # 0, expected = declared
        PROVE  GoodRecord(file, offset)
    <2>1. PrefixFits /\ RecordFits
      BY <1>2 DEF TypeReadable
    <2> QED
      BY <1>1, <1>2, <2>1, Checks DEF GoodRecord, size
  <1>3. ASSUME GoodRecord(file, offset)
        PROVE  TypeReadable /\ expected # 0 /\ expected = declared
    <2>1. PrefixFits
      BY <1>1, <1>3, Checks, FileFacts DEF GoodRecord, size
    <2>2. declared = SpecLength[file[offset + 3]] /\ declared # 0 /\ RecordFits
      BY <1>1, <1>3, <2>1, Checks DEF GoodRecord, size
    <2>3. TypeReadable
      BY <2>1, <2>2 DEF TypeReadable
    <2> QED
      BY <2>2, <2>3, Checks
  <1> QED
    BY <1>2, <1>3

-----------------------------------------------------------------------------
(* An error return keeps the walk where it is and gives the verdict. *)
LEMMA StopPreserves ==
  ASSUME IInv, InLoop, ~GoodRecord(file, offset),
         NEW error \in FrameError, NEW error_type \in Byte,
         NEW end \in Nat, end <= size,
         Stop(error, error_type, end)
  PROVE  IInv'
  <1> USE DEF IInv
  <1>1. TypeOK'
    BY DEF TypeOK, Stop, Touch
  <1>2. Walk'
    BY FileFacts DEF TypeOK, Walk, OffsetForced, Stop, Touch, size
  <1>3. Verdict'
    BY DEF TypeOK, Verdict, Stop, InLoop, size, FrameError, None
  <1>4. DeliveredTileThePrefix'
    BY DEF TypeOK, DeliveredTileThePrefix, Stop
  <1> QED
    BY <1>1, <1>2, <1>3, <1>4

(* A delivery extends the framed prefix by one record. *)
LEMMA DeliverPreserves ==
  ASSUME IInv, Deliver
  PROVE  IInv'
  <1> USE DEF IInv
  <1>1. InLoop /\ offset \in Nat /\ offset < size /\ size \in Nat
    BY FileFacts DEF Deliver, TypeReadable, InLoop, TypeOK
  <1>2. /\ GoodRecord(file, offset)
        /\ type = file[offset + 3]
        /\ type \in Byte
        /\ declared = SpecLength[file[offset + 3]]
        /\ declared \in Nat
        /\ offset + 2 + declared <= size
    BY <1>1, Checks, DeliversGoodRecords DEF Deliver, TypeReadable
  <1>3. offset' = EndOf(file, offset) /\ offset' = offset + 2 + declared
    BY <1>2 DEF Deliver, EndOf
  <1>4. offset' \in Nat /\ offset < offset' /\ offset' <= size
    BY <1>1, <1>2, <1>3
  <1>5. file' = file /\ size' = size
    BY DEF Deliver, size
  <1>6. TypeOK'
    <2>1. [at |-> offset, type |-> type, length |-> declared]
             \in [at : Nat, type : Byte, length : Nat]
      BY <1>1, <1>2
    <2>2. delivered' \in Seq([at : Nat, type : Byte, length : Nat])
      BY <2>1 DEF TypeOK, Deliver
    <2>3. touched' \in Nat
      BY <1>3, <1>4 DEF TypeOK, Deliver, Touch
    <2>4. outcome' \in [messages : Nat, bytes_consumed : Nat, error : FrameError \cup {None},
                         error_offset : Nat, error_type : Byte]
      <3>1. outcome.messages + 1 \in Nat
        BY DEF TypeOK
      <3>2. outcome' = [outcome EXCEPT !.messages = outcome.messages + 1,
                                       !.bytes_consumed = offset']
        BY DEF Deliver
      <3> QED
        BY <1>4, <3>1, <3>2 DEF TypeOK
    <2> QED
      BY <1>4, <1>5, <2>2, <2>3, <2>4 DEF TypeOK, Deliver
  <1>7. Walk'
    <2>1. offset' <= size' /\ touched' <= size' /\ outcome'.bytes_consumed = offset'
      BY <1>2, <1>3, <1>4, <1>5 DEF TypeOK, Walk, Deliver, Touch
    <2>2. WellFramed(file, offset')
      <3>1. PICK starts \in SUBSET (0 .. offset) : FramedBy(file, offset, starts)
        BY DEF Walk, WellFramed
      <3> DEFINE more == starts \cup {offset'}
      <3>2. more \in SUBSET (0 .. offset')
        BY <1>1, <1>4
      <3>3. ASSUME NEW at \in more \ {offset'}
            PROVE  GoodRecord(file, at) /\ EndOf(file, at) \in more
        <4>1. CASE at = offset
          BY <4>1, <1>2, <1>3
        <4>2. CASE at # offset
          BY <4>2, <3>1, <3>3 DEF FramedBy
        <4> QED
          BY <4>1, <4>2
      <3>4. FramedBy(file, offset', more)
        BY <3>1, <3>3 DEF FramedBy
      <3> QED
        BY <3>2, <3>4 DEF WellFramed
    <2>3. OffsetForced'
      <3>1. SUFFICES ASSUME NEW starts \in SUBSET (0 .. size), FramedBy(file, size, starts)
                     PROVE  offset' \in starts
        BY <1>5 DEF OffsetForced
      <3>2. offset \in starts \ {size}
        BY <1>1, <3>1 DEF Walk, OffsetForced
      <3> QED
        BY <1>3, <3>1, <3>2 DEF FramedBy
    <2> QED
      BY <1>5, <2>1, <2>2, <2>3 DEF Walk
  <1>8. Verdict'
    BY DEF TypeOK, Verdict, Deliver, TypeReadable, InLoop
  <1>9. DeliveredTileThePrefix'
    <2> DEFINE record == [at |-> offset, type |-> type, length |-> declared]
               n == Len(delivered)
    <2>1. /\ delivered \in Seq([at : Nat, type : Byte, length : Nat])
          /\ record \in [at : Nat, type : Byte, length : Nat]
          /\ delivered' = Append(delivered, record)
          /\ n \in Nat
      BY <1>1, <1>2 DEF TypeOK, Deliver
    <2>2. /\ Len(delivered') = n + 1
          /\ delivered'[n + 1] = record
          /\ \A i \in 1 .. n : delivered'[i] = delivered[i]
      BY <2>1
    <2>3. outcome'.messages = n + 1 /\ outcome'.bytes_consumed = offset'
      BY DEF TypeOK, Deliver, DeliveredTileThePrefix
    <2>4. offset' = delivered'[n + 1].at + 2 + delivered'[n + 1].length
      BY <1>3, <2>2
    <2>5. ASSUME NEW i \in 1 .. n + 1
          PROVE  /\ delivered'[i].at = IF i = 1 THEN 0
                      ELSE delivered'[i - 1].at + 2 + delivered'[i - 1].length
                 /\ GoodRecord(file, delivered'[i].at)
                 /\ delivered'[i].type = file[delivered'[i].at + 3]
                 /\ delivered'[i].length = SpecLength[delivered'[i].type]
      <3>1. CASE i = n + 1
        <4>1. delivered'[i] = record
          BY <2>2, <3>1
        <4>2. offset = IF n = 0 THEN 0 ELSE delivered[n].at + 2 + delivered[n].length
          BY DEF DeliveredTileThePrefix
        <4>3. n # 0 => delivered'[i - 1] = delivered[n]
          BY <2>1, <2>2, <3>1
        <4>4. delivered'[i].at = offset /\ delivered'[i].type = type /\ delivered'[i].length = declared
          BY <4>1
        <4>5. (i = 1 <=> n = 0)
          BY <2>1, <3>1
        <4>6. offset = IF i = 1 THEN 0 ELSE delivered'[i - 1].at + 2 + delivered'[i - 1].length
          BY <4>2, <4>3, <4>5
        <4> QED
          BY <1>2, <4>4, <4>6
      <3>2. CASE i \in 1 .. n
        <4>1. delivered'[i] = delivered[i] /\ (i # 1 => delivered'[i - 1] = delivered[i - 1])
          BY <2>1, <2>2, <3>2
        <4> QED
          BY <3>2, <4>1 DEF DeliveredTileThePrefix
      <3>3. i = n + 1 \/ i \in 1 .. n
        BY <2>1, <2>5
      <3> QED
        BY <3>1, <3>2, <3>3, Zenon
    <2> QED
      BY <1>5, <2>1, <2>2, <2>3, <2>4, <2>5 DEF DeliveredTileThePrefix
  <1> QED
    BY <1>6, <1>7, <1>8, <1>9

-----------------------------------------------------------------------------
(* The walk starts in the invariant. *)
LEMMA WalkStarts == Init => IInv
  <1> SUFFICES ASSUME Init PROVE IInv
    OBVIOUS
  <1>1. TypeOK
    <2>1. 0 \in Byte
      BY ByteAssumption DEF Byte
    <2>2. delivered \in Seq([at : Nat, type : Byte, length : Nat])
      BY DEF Init
    <2> QED
      BY <2>1, <2>2 DEF Init, TypeOK
  <1>2. WellFramed(file, 0)
    <2>1. FramedBy(file, 0, {0}) /\ {0} \in SUBSET (0 .. 0)
      BY DEF FramedBy
    <2> QED
      BY <2>1 DEF WellFramed
  <1>3. Walk
    BY <1>1, <1>2, FileFacts DEF Init, Walk, OffsetForced, FramedBy
  <1>4. Verdict /\ DeliveredTileThePrefix
    BY DEF Init, Verdict, DeliveredTileThePrefix
  <1> QED
    BY <1>1, <1>3, <1>4 DEF IInv

(* Every iteration of the loop, and the return after it, keeps it. *)
LEMMA WalkStep == IInv /\ [Next]_vars => IInv'
  <1> SUFFICES ASSUME IInv, [Next]_vars PROVE IInv'
    OBVIOUS
  <1> USE DEF IInv
  <1>1. offset \in Nat /\ size \in Nat
    BY FileFacts DEF TypeOK
  <1>2. CASE TruncatedPrefix
    <2>1. ~GoodRecord(file, offset) /\ 0 \in Byte /\ offset <= size
      BY <1>1, <1>2, DeliversGoodRecords, ByteAssumption
      DEF TruncatedPrefix, TypeReadable, InLoop, Byte
    <2> QED
      BY <1>1, <1>2, <2>1, StopPreserves DEF TruncatedPrefix, FrameError
  <1>3. CASE ZeroLength
    <2>1. ~GoodRecord(file, offset) /\ 0 \in Byte /\ offset + 2 <= size
      BY <1>1, <1>3, Checks, DeliversGoodRecords, ByteAssumption
      DEF ZeroLength, TypeReadable, Byte
    <2> QED
      BY <1>1, <1>3, <2>1, StopPreserves DEF ZeroLength, FrameError
  <1>4. CASE TruncatedRecord
    <2>1. ~GoodRecord(file, offset) /\ 0 \in Byte /\ offset + 2 <= size
      BY <1>1, <1>4, Checks, DeliversGoodRecords, ByteAssumption
      DEF TruncatedRecord, TypeReadable, Byte
    <2> QED
      BY <1>1, <1>4, <2>1, StopPreserves DEF TruncatedRecord, FrameError
  <1>5. CASE UnknownType
    <2>1. ~GoodRecord(file, offset) /\ type \in Byte /\ offset + 3 <= size /\ InLoop
      BY <1>1, <1>5, Checks, DeliversGoodRecords DEF UnknownType, TypeReadable
    <2> QED
      BY <1>1, <1>5, <2>1, StopPreserves DEF UnknownType, FrameError
  <1>6. CASE LengthMismatch
    <2>1. ~GoodRecord(file, offset) /\ type \in Byte /\ offset + 3 <= size /\ InLoop
      BY <1>1, <1>6, Checks, DeliversGoodRecords DEF LengthMismatch, TypeReadable
    <2> QED
      BY <1>1, <1>6, <2>1, StopPreserves DEF LengthMismatch, FrameError
  <1>7. CASE Deliver
    BY <1>7, DeliverPreserves
  <1>8. CASE ReturnAtEnd
    <2>1. TypeOK' /\ Walk' /\ DeliveredTileThePrefix'
      BY <1>8 DEF ReturnAtEnd, TypeOK, Walk, OffsetForced, DeliveredTileThePrefix, size
    <2>2. Verdict'
      BY <1>1, <1>8 DEF ReturnAtEnd, InLoop, Verdict, TypeOK, Walk, size
    <2> QED
      BY <2>1, <2>2
  <1>9. CASE UNCHANGED vars
    BY <1>9 DEF vars, TypeOK, Walk, OffsetForced, Verdict, DeliveredTileThePrefix, size
  <1> QED
    BY <1>2, <1>3, <1>4, <1>5, <1>6, <1>7, <1>8, <1>9 DEF Next

(***************************************************************************)
(* The inductive invariant of the walk in frame_all: the bytes before the  *)
(* offset are good records, any other framing of the file agrees with them *)
(* so far, and an error was returned only where no good record starts.     *)
(***************************************************************************)
THEOREM Inductive == Spec => []IInv
  BY WalkStarts, WalkStep, PTL DEF Spec

(* The types of frame_all's locals and of FrameOutcome. *)
THEOREM Typed == Spec => []TypeOK
  <1>1. IInv => TypeOK
    BY DEF IInv
  <1> QED
    BY <1>1, Inductive, PTL

(* For every file, frame_all keeps its reads inside the file. *)
THEOREM Bounded == Spec => []ReadsInBounds
  <1>1. IInv => ReadsInBounds
    BY DEF IInv, Walk, ReadsInBounds
  <1> QED
    BY <1>1, Inductive, PTL

(* For every file, what frame_all delivers are the records that tile the   *)
(* bytes it reports as consumed.                                           *)
THEOREM Tiles == Spec => []DeliveredTileThePrefix
  <1>1. IInv => DeliveredTileThePrefix
    BY DEF IInv
  <1> QED
    BY <1>1, Inductive, PTL

(* For every file, frame_all reports its error at the first violation. *)
THEOREM FirstViolation == Spec => []StopsAtFirstViolation
  <1>1. IInv => StopsAtFirstViolation
    BY DEF IInv, Walk, Verdict, StopsAtFirstViolation
  <1> QED
    BY <1>1, Inductive, PTL

(* In the invariant, no error after the return means a well-framed file. *)
LEMMA VerdictIsRight == IInv => CompleteIffWellFramed
  <1> SUFFICES ASSUME IInv, returned
               PROVE  outcome.error = None <=> WellFramed(file, size)
    BY DEF CompleteIffWellFramed
  <1>1. CASE outcome.error = None
    BY <1>1 DEF IInv, Walk, Verdict
  <1>2. CASE outcome.error # None
    <2>1. offset < size /\ ~GoodRecord(file, offset) /\ offset \in Nat /\ size \in Nat
      BY <1>2, FileFacts DEF IInv, Verdict, TypeOK
    <2>2. ASSUME NEW starts \in SUBSET (0 .. size), FramedBy(file, size, starts)
          PROVE  FALSE
      <3>1. offset \in starts \ {size}
        BY <2>1, <2>2 DEF IInv, Walk, OffsetForced
      <3> QED
        BY <2>1, <2>2, <3>1 DEF FramedBy
    <2> QED
      BY <1>2, <2>2 DEF WellFramed
  <1> QED
    BY <1>1, <1>2

(* For every file, frame_all reports no error exactly when the file is a   *)
(* sequence of good records.                                               *)
THEOREM Complete == Spec => []CompleteIffWellFramed
  BY VerdictIsRight, Inductive, PTL

-----------------------------------------------------------------------------
(* The walk ends *)

(* How many iterations are left at most.                                    *)
Fuel == (size - offset) + IF returned THEN 0 ELSE 1

(* The offset never passes the end. *)
LEMMA FuelFacts ==
  ASSUME IInv
  PROVE  Fuel \in Nat
  <1>1. offset \in Nat /\ size \in Nat /\ offset <= size /\ returned \in BOOLEAN
    BY FileFacts DEF IInv, TypeOK, Walk
  <1> QED
    BY <1>1 DEF Fuel

(* An iteration returns or moves the offset by a record and its prefix. *)
LEMMA StepBurnsFuel ==
  ASSUME IInv, Next
  PROVE  Fuel' \in Int /\ Fuel' < Fuel
  <1>1. offset \in Nat /\ size \in Nat /\ ~returned /\ size' = size
    BY FileFacts DEF IInv, TypeOK, Next, TruncatedPrefix, ZeroLength, TruncatedRecord,
       UnknownType, LengthMismatch, Deliver, ReturnAtEnd, TypeReadable, InLoop, Stop, size
  <1>2. CASE returned' /\ offset' = offset
    BY <1>1, <1>2 DEF Fuel
  <1>3. CASE Deliver
    <2>1. offset' = offset + 2 + declared /\ returned' = returned
      BY <1>3 DEF Deliver
    <2>2. declared \in Nat
      BY <1>3, Checks DEF IInv, Deliver, TypeReadable
    <2> QED
      BY <1>1, <2>1, <2>2 DEF Fuel
  <1>4. Deliver \/ (returned' /\ offset' = offset)
    BY DEF Next, TruncatedPrefix, ZeroLength, TruncatedRecord, UnknownType, LengthMismatch,
       ReturnAtEnd, Stop
  <1> QED
    BY <1>2, <1>3, <1>4

(***************************************************************************)
(* The loop of frame_all makes at most one iteration per byte of the file, *)
(* and one more to return: each step lowers a number that is never         *)
(* negative.  This is what Terminates needs beside the fairness.           *)
(***************************************************************************)
THEOREM Descends == Spec => [](Fuel \in Nat) /\ [][Fuel' < Fuel]_vars
  <1>1. IInv => Fuel \in Nat
    BY FuelFacts
  <1>2. IInv /\ [Next]_vars => [Fuel' < Fuel]_vars
    BY StepBurnsFuel
  <1> QED
    BY <1>1, <1>2, Inductive, PTL DEF Spec

-----------------------------------------------------------------------------
(* The same walk as a script sees it that reads the file piece by piece     *)

(* A read of n bytes at `at`, which comes back short at the end of the file. *)
Piece(at, n) == SubSeq(file, at + 1, IF at + n <= Len(file) THEN at + n ELSE Len(file))

Prefix == Piece(offset, 2)
Body   == Piece(offset + 2, declared)

(* What is in a piece. *)
LEMMA PieceFacts ==
  ASSUME IInv, NEW at \in 0 .. size, NEW n \in Nat
  PROVE  /\ Piece(at, n) \in Seq(Byte)
         /\ Len(Piece(at, n)) = IF at + n <= size THEN n ELSE size - at
         /\ \A i \in 1 .. Len(Piece(at, n)) : Piece(at, n)[i] = file[at + i]
  <1> DEFINE r    == Piece(at, n)
             last == IF at + n <= size THEN at + n ELSE size
  <1>1. size = Len(file) /\ size \in Nat /\ file \in Seq(Byte)
    BY FileFacts DEF IInv, size
  <1>2. r = SubSeq(file, at + 1, last)
    BY <1>1 DEF Piece
  <1>3. last \in Nat /\ at <= last /\ last <= Len(file) /\ at \in Nat
    BY <1>1
  <1>4. last - at = IF at + n <= size THEN n ELSE size - at
    BY <1>1
  <1> HIDE DEF last, r
  <1>5. /\ r \in Seq(Byte)
        /\ Len(r) = IF at + 1 <= last THEN last - (at + 1) + 1 ELSE 0
        /\ \A i \in 1 .. last - (at + 1) + 1 : r[i] = file[at + 1 + i - 1]
    <2>1. \A i \in at + 1 .. last : file[i] \in Byte
      BY <1>1, <1>3
    <2>2. at + 1 \in Int /\ last \in Int
      BY <1>3
    <2> QED
      BY <1>2, <2>1, <2>2, SubSeqProperties
  <1>6. Len(r) = last - at
    BY <1>3, <1>5
  <1>7. ASSUME NEW i \in 1 .. Len(r) PROVE r[i] = file[at + i]
    <2>1. i \in 1 .. last - (at + 1) + 1 /\ at + 1 + i - 1 = at + i
      BY <1>3, <1>6
    <2> QED
      BY <1>5, <2>1
  <1> QED
    BY <1>4, <1>5, <1>6, <1>7 DEF r

(* Reading the prefix is how the script compares sizes. *)
LEMMA PrefixRead ==
  ASSUME IInv, ~returned
  PROVE  /\ ~InLoop => Len(Prefix) = 0
         /\ InLoop /\ ~PrefixFits => Len(Prefix) = 1
         /\ InLoop /\ PrefixFits =>
              Len(Prefix) = 2 /\ Prefix[1] * ByteBase + Prefix[2] = declared
  <1> DEFINE p == Prefix
  <1>1. offset \in Nat /\ offset <= size /\ size \in Nat /\ TypeOK
    BY FileFacts DEF IInv, TypeOK, Walk
  <1>2. /\ Len(p) = IF offset + 2 <= size THEN 2 ELSE size - offset
        /\ \A i \in 1 .. Len(p) : p[i] = file[offset + i]
    <2>1. offset \in 0 .. size
      BY <1>1
    <2> QED
      BY <2>1, PieceFacts DEF Prefix
  <1> HIDE DEF p
  <1>3. ~InLoop => Len(p) = 0
    <2> SUFFICES ASSUME ~InLoop PROVE Len(p) = 0
      OBVIOUS
    <2>1. offset = size
      BY <1>1 DEF InLoop
    <2> QED
      BY <1>1, <1>2, <2>1
  <1>4. ASSUME InLoop PROVE offset < size /\ (PrefixFits <=> offset + 2 <= size)
    BY <1>1, <1>4, Checks DEF InLoop
  <1>5. ASSUME InLoop, ~PrefixFits PROVE Len(p) = 1
    BY <1>1, <1>2, <1>4, <1>5
  <1>6. ASSUME InLoop, PrefixFits
        PROVE  Len(p) = 2 /\ p[1] * ByteBase + p[2] = declared
    <2>1. Len(p) = 2
      BY <1>2, <1>4, <1>6
    <2>2. p[1] = file[offset + 1] /\ p[2] = file[offset + 2]
      BY <1>2, <2>1
    <2> QED
      BY <1>1, <1>6, <2>1, <2>2, Checks
  <1> QED
    BY <1>3, <1>5, <1>6 DEF p

(* Reading the record is how it notices that one is cut short. *)
LEMMA BodyRead ==
  ASSUME IInv, InLoop, PrefixFits
  PROVE  /\ declared \in Nat /\ Body \in Seq(Byte)
         /\ RecordFits => Len(Body) = declared
         /\ ~RecordFits => Len(Body) < declared
         /\ \A i \in 1 .. Len(Body) : Body[i] = file[offset + 2 + i]
  <1> DEFINE r == Body
  <1>1. offset \in Nat /\ size \in Nat /\ TypeOK
    BY FileFacts DEF IInv, TypeOK
  <1>2. /\ offset + 2 <= size /\ declared \in Nat
        /\ RecordFits <=> offset + 2 + declared <= size
    BY <1>1, Checks
  <1>3. offset + 2 \in 0 .. size
    BY <1>1, <1>2
  <1>4. /\ r \in Seq(Byte)
        /\ Len(r) = IF (offset + 2) + declared <= size THEN declared ELSE size - (offset + 2)
        /\ \A i \in 1 .. Len(r) : r[i] = file[(offset + 2) + i]
    BY <1>2, <1>3, PieceFacts DEF Body
  <1> HIDE DEF r
  <1>5. RecordFits => Len(r) = declared
    BY <1>2, <1>4
  <1>6. ~RecordFits => Len(r) < declared
    BY <1>1, <1>2, <1>4
  <1> QED
    BY <1>2, <1>4, <1>5, <1>6 DEF r

(* A record whose type may be read is whole to the script too, and the two  *)
(* look its length up alike. *)
LEMMA WholeRecord ==
  ASSUME IInv, TypeReadable
  PROVE  /\ Body # <<>> /\ Len(Body) = declared /\ Body \in Seq(Byte) /\ declared \in Nat
         /\ Body[1] = type /\ expected = SpecLength[Body[1]]
         /\ \A i \in 1 .. declared : Body[i] = file[offset + 2 + i]
  <1> DEFINE r == Body
  <1>1. TypeOK /\ InLoop /\ PrefixFits /\ declared # 0 /\ RecordFits
    BY DEF IInv, TypeReadable
  <1>2. type = file[offset + 3] /\ expected = SpecLength[file[offset + 3]] /\ offset \in Nat
    BY <1>1, Checks DEF TypeOK
  <1>3. /\ declared \in Nat /\ Len(r) = declared /\ r \in Seq(Byte)
        /\ \A i \in 1 .. Len(r) : r[i] = file[offset + 2 + i]
    BY <1>1, BodyRead
  <1> HIDE DEF r
  <1>4. r[1] = file[offset + 3]
    <2>1. 1 \in 1 .. Len(r) /\ offset + 2 + 1 = offset + 3
      BY <1>1, <1>2, <1>3
    <2>2. r[1] = file[offset + 2 + 1]
      BY <1>3, <2>1
    <2> QED
      BY <2>1, <2>2
  <1>5. r # <<>>
    BY <1>1, <1>3, EmptySeq
  <1> QED
    BY <1>2, <1>3, <1>4, <1>5 DEF r

-----------------------------------------------------------------------------
(* The ways frame_all returns.                                              *)
Returns == \/ TruncatedPrefix
           \/ ZeroLength
           \/ TruncatedRecord
           \/ UnknownType
           \/ LengthMismatch
           \/ ReturnAtEnd

(* The script's name for an error.                                          *)
ScriptError(error) == IF error = "ZeroLength" THEN "UnknownType" ELSE error

(* When the script leaves its loop, and why.                                *)
KnownBody == Body # <<>> /\ SpecLength[Body[1]] # 0
WholeBody == Len(Prefix) = 2 /\ Len(Body) = declared

Leaves(error) ==
  \/ error = None /\ Len(Prefix) = 0
  \/ error = "TruncatedPrefix" /\ Len(Prefix) = 1
  \/ error = "TruncatedRecord" /\ Len(Prefix) = 2 /\ Len(Body) < declared
  \/ error = "UnknownType" /\ WholeBody /\ ~KnownBody
  \/ error = "LengthMismatch" /\ WholeBody /\ KnownBody /\ SpecLength[Body[1]] # declared

(* An error return changes the verdict and nothing else. *)
LEMMA StopIsBreak ==
  ASSUME TypeOK, NEW error, NEW error_type, NEW end, Stop(error, error_type, end)
  PROVE  /\ outcome'.error = error
         /\ outcome'.bytes_consumed = outcome.bytes_consumed
         /\ outcome'.messages = outcome.messages
         /\ returned' = TRUE /\ UNCHANGED <<file, delivered>>
  <1>1. /\ outcome' = [outcome EXCEPT !.error = error, !.error_offset = offset,
                                      !.error_type = error_type]
        /\ returned' = TRUE /\ UNCHANGED <<file, delivered>>
    BY DEF Stop
  <1> QED
    BY <1>1 DEF TypeOK

(* frame_all returns where the script leaves its loop, for the same reason. *)
LEMMA ReturnsAgree ==
  ASSUME IInv, Returns
  PROVE  /\ ~returned /\ returned' = TRUE /\ UNCHANGED <<file, delivered>>
         /\ outcome'.bytes_consumed = outcome.bytes_consumed
         /\ outcome'.messages = outcome.messages
         /\ Leaves(ScriptError(outcome'.error))
  <1>1. TypeOK /\ ~returned
    BY DEF IInv, Returns, TruncatedPrefix, ZeroLength, TruncatedRecord, UnknownType,
           LengthMismatch, ReturnAtEnd, TypeReadable, InLoop
  <1> DEFINE ends == /\ ~returned /\ returned' = TRUE /\ UNCHANGED <<file, delivered>>
                     /\ outcome'.bytes_consumed = outcome.bytes_consumed
                     /\ outcome'.messages = outcome.messages
  <1>2. CASE TruncatedPrefix
    <2>1. InLoop /\ ~PrefixFits /\ Stop("TruncatedPrefix", 0, offset)
      BY <1>2 DEF TruncatedPrefix
    <2>2. Len(Prefix) = 1
      BY <1>1, <2>1, PrefixRead
    <2>3. ends /\ outcome'.error = "TruncatedPrefix"
      BY <1>1, <2>1, StopIsBreak
    <2>4. Leaves("TruncatedPrefix")
      BY <2>1, <2>2 DEF Leaves
    <2>5. ScriptError("TruncatedPrefix") = "TruncatedPrefix"
      BY DEF ScriptError
    <2> QED
      BY <2>3, <2>4, <2>5
  <1>3. CASE ZeroLength
    <2>1. InLoop /\ PrefixFits /\ declared = 0 /\ Stop("ZeroLength", 0, offset + 2)
      BY <1>3 DEF ZeroLength
    <2>2. Len(Prefix) = 2
      BY <1>1, <2>1, PrefixRead
    <2>3. RecordFits
      <3>1. offset + 2 <= size /\ (RecordFits <=> offset + 2 + declared <= size) /\ offset \in Nat
        BY <1>1, <2>1, Checks DEF TypeOK
      <3> QED
        BY <2>1, <3>1
    <2>4. Len(Body) = 0 /\ Body \in Seq(Byte)
      BY <2>1, <2>3, BodyRead
    <2>5. WholeBody /\ ~KnownBody
      BY <2>1, <2>2, <2>4, EmptySeq DEF WholeBody, KnownBody
    <2> QED
      BY <1>1, <2>1, <2>5, StopIsBreak DEF Leaves, ScriptError
  <1>4. CASE TruncatedRecord
    <2>1. InLoop /\ PrefixFits /\ ~RecordFits /\ Stop("TruncatedRecord", 0, offset + 2)
      BY <1>4 DEF TruncatedRecord
    <2>2. Len(Prefix) = 2 /\ Len(Body) < declared
      BY <1>1, <2>1, PrefixRead, BodyRead
    <2>3. ends /\ outcome'.error = "TruncatedRecord"
      BY <1>1, <2>1, StopIsBreak
    <2>4. Leaves("TruncatedRecord")
      BY <2>1, <2>2 DEF Leaves
    <2>5. ScriptError("TruncatedRecord") = "TruncatedRecord"
      BY DEF ScriptError
    <2> QED
      BY <2>3, <2>4, <2>5
  <1>5. ASSUME TypeReadable
        PROVE  WholeBody /\ (KnownBody <=> expected # 0) /\ expected = SpecLength[Body[1]]
    <2>1. InLoop /\ PrefixFits
      BY <1>5 DEF TypeReadable
    <2> QED
      BY <1>1, <1>5, <2>1, PrefixRead, WholeRecord DEF WholeBody, KnownBody
  <1>6. CASE UnknownType
    <2>1. TypeReadable /\ expected = 0 /\ Stop("UnknownType", type, offset + 3)
      BY <1>6 DEF UnknownType
    <2> QED
      BY <1>1, <1>5, <2>1, StopIsBreak DEF Leaves, ScriptError
  <1>7. CASE LengthMismatch
    <2>1. /\ TypeReadable /\ expected # 0 /\ expected # declared
          /\ Stop("LengthMismatch", type, offset + 3)
      BY <1>7 DEF LengthMismatch
    <2>2. ends /\ outcome'.error = "LengthMismatch"
      BY <1>1, <2>1, StopIsBreak
    <2>3. Leaves("LengthMismatch")
      BY <2>1, <1>5 DEF Leaves
    <2>4. ScriptError("LengthMismatch") = "LengthMismatch"
      BY DEF ScriptError
    <2> QED
      BY <2>2, <2>3, <2>4
  <1>8. CASE ReturnAtEnd
    <2>1. ~InLoop /\ returned' = TRUE /\ UNCHANGED <<file, outcome, delivered>>
      BY <1>8 DEF ReturnAtEnd
    <2>2. outcome.error = None
      BY <1>1 DEF IInv, Verdict
    <2>3. Len(Prefix) = 0
      BY <1>1, <2>1, PrefixRead
    <2> QED
      BY <1>1, <2>1, <2>2, <2>3 DEF Leaves, ScriptError, None
  <1> QED
    BY <1>2, <1>3, <1>4, <1>6, <1>7, <1>8 DEF Returns

(* A delivered record is one the script takes. *)
LEMMA DeliveryAgrees ==
  ASSUME IInv, Deliver
  PROVE  /\ ~returned /\ UNCHANGED <<file, returned>>
         /\ WholeBody /\ KnownBody /\ SpecLength[Body[1]] = declared
         /\ Body \in Seq(Byte) /\ Len(Body) = declared /\ Body[1] = type /\ type \in Byte
         /\ \A i \in 1 .. declared : Body[i] = file[offset + 2 + i]
         /\ outcome'.bytes_consumed = outcome.bytes_consumed + 2 + declared
         /\ outcome'.messages = outcome.messages + 1
         /\ outcome'.error = outcome.error
  <1>1. /\ TypeReadable /\ InLoop /\ PrefixFits /\ expected # 0 /\ expected = declared
        /\ ~returned /\ TypeOK /\ UNCHANGED <<file, returned>>
    BY DEF Deliver, TypeReadable, InLoop, IInv
  <1>2. WholeBody /\ KnownBody
    BY <1>1, PrefixRead, WholeRecord DEF WholeBody, KnownBody
  <1>3. /\ outcome'.bytes_consumed = outcome.bytes_consumed + 2 + declared
        /\ outcome'.error = outcome.error
        /\ outcome'.messages = outcome.messages + 1
    <2>1. outcome' = [outcome EXCEPT !.messages = outcome.messages + 1,
                                     !.bytes_consumed = offset']
      BY DEF Deliver
    <2>2. offset' = offset + 2 + declared /\ outcome.bytes_consumed = offset
      BY DEF Deliver, IInv, Walk
    <2> QED
      BY <1>1, <2>1, <2>2 DEF TypeOK
  <1>4. type \in Byte
    BY <1>1, Checks
  <1> QED
    BY <1>1, <1>2, <1>3, <1>4, WholeRecord
=============================================================================
