------------------------------- MODULE Framer -------------------------------
(***************************************************************************)
(* BinaryFILE framing: frame_all of include/itch/framer.hpp with the       *)
(* length table of src/message_table.cpp.                                  *)
(*                                                                         *)
(* Each action is one iteration of the while loop, or the return after it. *)
(* The file is any sequence of bytes.  Offsets are 0-based, as in the      *)
(* code, and size_t subtraction wraps, so a comparison made before the     *)
(* check that protects it would let the walk run off the end.              *)
(***************************************************************************)
EXTENDS Integers, Sequences

CONSTANTS
  ByteBase,    \* values of a byte: 256 in the code
  SizeMod,     \* size_t values: 2^64 in the code
  SpecLength,  \* kSpecLengths: the length of each type, 0 where undefined
  Files        \* the files to walk

Byte == 0 .. ByteBase - 1

ASSUME ByteAssumption   == ByteBase \in Nat /\ ByteBase > 1
ASSUME LengthAssumption == SpecLength \in [Byte -> 0 .. ByteBase * ByteBase - 1]
ASSUME FilesAssumption  == /\ SizeMod \in Nat
                           /\ Files \subseteq Seq(Byte)
                           /\ \A f \in Files : Len(f) + 2 < SizeMod

VARIABLES
  file,       \* the mapped bytes, never written
  offset,     \* of the length prefix of the next record
  outcome,    \* FrameOutcome
  returned,   \* frame_all has returned
  delivered,  \* history: what on_message was called with
  touched     \* history: one past the furthest byte read or handed out

vars == <<file, offset, outcome, returned, delivered, touched>>

FrameError == {"TruncatedPrefix", "ZeroLength", "TruncatedRecord",
               "UnknownType", "LengthMismatch"}
None == "None"

Init ==
  /\ file \in Files
  /\ offset = 0
  /\ outcome = [messages |-> 0, bytes_consumed |-> 0, error |-> None,
                error_offset |-> 0, error_type |-> 0]
  /\ returned = FALSE
  /\ delivered = <<>>
  /\ touched = 0

-----------------------------------------------------------------------------
size == Len(file)

Minus(a, b) == (a - b) % SizeMod

(* file[i]; a byte past the end is no byte of the file.                     *)
ByteAt(i) == IF i < size THEN file[i + 1] ELSE 0

spec_message_length(type) == SpecLength[type]

(* The operators named Slip... are deviations from the definition that      *)
(* follows them, which the checks must notice.                              *)

(* A loop that ignores what is shorter than a prefix.                       *)
SlipShortTail == ~returned /\ offset + 2 < size
InLoop        == ~returned /\ offset < size

(* size - offset - 2 >= 0, which unsigned arithmetic always grants.         *)
SlipUnsigned == Minus(Minus(size, offset), 2) >= 0
PrefixFits   == Minus(size, offset) >= 2

declared    == ByteAt(offset) * ByteBase + ByteAt(offset + 1)
RecordFits  == Minus(Minus(size, offset), 2) >= declared
type        == ByteAt(offset + 2)
expected    == spec_message_length(type)

Touch(end) == touched' = IF touched < end THEN end ELSE touched

(* The offset of the record's body reported for that of its prefix.         *)
SlipErrorOffset(error, error_type, end) ==
  /\ outcome' = [outcome EXCEPT !.error = error,
                                !.error_offset = offset + 2,
                                !.error_type = error_type]
  /\ returned' = TRUE
  /\ Touch(end)
  /\ UNCHANGED <<file, offset, delivered>>

(* Return with an error, having read the bytes before `end`.                *)
Stop(error, error_type, end) ==
  /\ outcome' = [outcome EXCEPT !.error = error,
                                !.error_offset = offset,
                                !.error_type = error_type]
  /\ returned' = TRUE
  /\ Touch(end)
  /\ UNCHANGED <<file, offset, delivered>>

TruncatedPrefix ==
  /\ InLoop
  /\ ~PrefixFits
  /\ Stop("TruncatedPrefix", 0, offset)

(* A zero length skipped with `continue`.                                   *)
SlipContinue ==
  /\ InLoop
  /\ PrefixFits
  /\ declared = 0
  /\ UNCHANGED vars

ZeroLength ==
  /\ InLoop
  /\ PrefixFits
  /\ declared = 0
  /\ Stop("ZeroLength", 0, offset + 2)

TruncatedRecord ==
  /\ InLoop
  /\ PrefixFits
  /\ declared # 0
  /\ ~RecordFits
  /\ Stop("TruncatedRecord", 0, offset + 2)

(* The record is whole: its type byte may be read.                          *)
TypeReadable == InLoop /\ PrefixFits /\ declared # 0 /\ RecordFits

UnknownType ==
  /\ TypeReadable
  /\ expected = 0
  /\ Stop("UnknownType", type, offset + 3)

(* The declared length reported in error_type.                              *)
SlipReportLength ==
  /\ TypeReadable
  /\ expected # 0
  /\ expected # declared
  /\ Stop("LengthMismatch", declared, offset + 3)

LengthMismatch ==
  /\ TypeReadable
  /\ expected # 0
  /\ expected # declared
  /\ Stop("LengthMismatch", type, offset + 3)

(* The two bytes of the prefix not skipped.                                 *)
SlipNoPrefix ==
  /\ TypeReadable
  /\ expected # 0
  /\ expected = declared
  /\ delivered' = Append(delivered, [at |-> offset, type |-> type, length |-> declared])
  /\ offset' = offset + declared
  /\ outcome' = [outcome EXCEPT !.messages = @ + 1, !.bytes_consumed = offset']
  /\ Touch(offset + 2 + declared)
  /\ UNCHANGED <<file, returned>>

Deliver ==
  /\ TypeReadable
  /\ expected # 0
  /\ expected = declared
  /\ delivered' = Append(delivered, [at |-> offset, type |-> type, length |-> declared])
  /\ offset' = offset + 2 + declared
  /\ outcome' = [outcome EXCEPT !.messages = @ + 1, !.bytes_consumed = offset']
  /\ Touch(offset + 2 + declared)
  /\ UNCHANGED <<file, returned>>

ReturnAtEnd ==
  /\ ~returned
  /\ ~InLoop
  /\ returned' = TRUE
  /\ UNCHANGED <<file, offset, outcome, delivered, touched>>

Next == \/ TruncatedPrefix
        \/ ZeroLength
        \/ TruncatedRecord
        \/ UnknownType
        \/ LengthMismatch
        \/ Deliver
        \/ ReturnAtEnd

(* A sequential loop keeps running until it returns.                        *)
Spec == Init /\ [][Next]_vars /\ WF_vars(Next)

-----------------------------------------------------------------------------
(* Properties *)

TypeOK ==
  /\ file \in Files
  /\ offset \in Nat
  /\ outcome \in [messages : Nat, bytes_consumed : Nat, error : FrameError \cup {None},
                  error_offset : Nat, error_type : Byte]
  /\ returned \in BOOLEAN
  /\ delivered \in Seq([at : Nat, type : Byte, length : Nat])
  /\ touched \in Nat

(* What the BinaryFILE format asks of a record that starts at `at`: a       *)
(* big-endian length, the length its type has, and all of its bytes.        *)
GoodRecord(f, at) ==
  /\ at + 3 <= Len(f)
  /\ SpecLength[f[at + 3]] # 0
  /\ SpecLength[f[at + 3]] = f[at + 1] * ByteBase + f[at + 2]
  /\ at + 2 + SpecLength[f[at + 3]] <= Len(f)

EndOf(f, at) == at + 2 + SpecLength[f[at + 3]]

(* The bytes of f before `end` are good records, one after the other:       *)
(* `starts` holds where each begins, and `end`.                             *)
FramedBy(f, end, starts) ==
  /\ {0, end} \subseteq starts
  /\ \A at \in starts \ {end} : GoodRecord(f, at) /\ EndOf(f, at) \in starts

WellFramed(f, end) == \E starts \in SUBSET (0 .. end) : FramedBy(f, end, starts)

(***************************************************************************)
(* frame_all never reads a byte outside the file, nor hands out a record   *)
(* that leaves it, whatever the file holds: each of the size comparisons   *)
(* comes before the read it protects, and none of them wraps.              *)
(***************************************************************************)
ReadsInBounds == touched <= size

(***************************************************************************)
(* The records handed to the callback follow each other without a gap or   *)
(* an overlap from the first byte to bytes_consumed, there are `messages`  *)
(* of them, and each has the length the specification gives its type: the  *)
(* precondition dispatch_record states and the decoders assert.            *)
(***************************************************************************)
DeliveredTileThePrefix ==
  LET n       == Len(delivered)
      end(i)  == delivered[i].at + 2 + delivered[i].length
  IN  /\ outcome.messages = n
      /\ outcome.bytes_consumed = offset
      /\ offset = IF n = 0 THEN 0 ELSE end(n)
      /\ \A i \in 1 .. n :
           /\ delivered[i].at = IF i = 1 THEN 0 ELSE end(i - 1)
           /\ GoodRecord(file, delivered[i].at)
           /\ delivered[i].type = file[delivered[i].at + 3]
           /\ delivered[i].length = SpecLength[delivered[i].type]

(***************************************************************************)
(* FrameOutcome::error is "empty iff the buffer framed cleanly to its end".*)
(***************************************************************************)
CompleteIffWellFramed ==
  returned => (outcome.error = None <=> WellFramed(file, size))

(***************************************************************************)
(* An error is reported at the first violation: the bytes before           *)
(* error_offset are well framed and were all delivered, and no good record *)
(* starts at error_offset.                                                 *)
(***************************************************************************)
StopsAtFirstViolation ==
  outcome.error # None =>
    /\ outcome.error_offset = outcome.bytes_consumed
    /\ outcome.error_offset < size
    /\ WellFramed(file, outcome.error_offset)
    /\ ~GoodRecord(file, outcome.error_offset)

(***************************************************************************)
(* The walk of any file ends: every iteration that does not return moves   *)
(* the offset.                                                             *)
(***************************************************************************)
Terminates == <>returned
=============================================================================
