-------------------------- MODULE ReferenceSession --------------------------
(***************************************************************************)
(* The loop that tools/reference_count.py (census, without --limit) and    *)
(* tools/reference_book.py (replay) both walk a session with.  It reads    *)
(* through a file object, so a read at the end comes back short, and it    *)
(* looks a type up in a dict before it compares lengths.  What is done     *)
(* with a record is a parameter.  The errors have the framer's names.      *)
(***************************************************************************)
EXTENDS Integers, Sequences

CONSTANTS
  ByteBase,     \* values of a byte
  SpecLength,   \* SPEC_LENGTHS: 0 where the dict has no entry
  Initial,      \* what the script may have gathered before the first record
  OnRecord(_,_) \* and what it has gathered after one more

VARIABLES
  session,   \* the file
  consumed,  \* where the next prefix starts
  gathered,
  error,     \* why the loop stopped, None at the end of the file
  finished   \* the loop has been left

refVars == <<session, consumed, gathered, error, finished>>

None == "None"

Init ==
  /\ consumed = 0
  /\ gathered \in Initial
  /\ error = None
  /\ finished = FALSE

-----------------------------------------------------------------------------
(* session.read(n) with the file position at `at`.                          *)
read(at, n) == SubSeq(session, at + 1, IF at + n <= Len(session) THEN at + n ELSE Len(session))

prefix   == read(consumed, 2)
declared == prefix[1] * ByteBase + prefix[2]
record   == read(consumed + 2, declared)

(* SPEC_LENGTHS.get(record[0:1]): None for an empty record too.             *)
Known    == record # <<>> /\ SpecLength[record[1]] # 0
Expected == SpecLength[record[1]] = declared

Break(e) ==
  /\ error' = e
  /\ finished' = TRUE
  /\ UNCHANGED <<session, consumed, gathered>>

EndOfFile == ~finished /\ Len(prefix) = 0 /\ Break(None)
ShortPrefix == ~finished /\ Len(prefix) = 1 /\ Break("TruncatedPrefix")

(* The cases of a whole prefix.                                             *)
ShortRecord == ~finished /\ Len(prefix) = 2 /\ Len(record) < declared /\ Break("TruncatedRecord")
Whole       == ~finished /\ Len(prefix) = 2 /\ Len(record) = declared

NoSuchType  == Whole /\ ~Known /\ Break("UnknownType")
WrongLength == Whole /\ Known /\ ~Expected /\ Break("LengthMismatch")

Take ==
  /\ Whole /\ Known /\ Expected
  /\ gathered' = OnRecord(gathered, record)
  /\ consumed' = consumed + 2 + declared
  /\ UNCHANGED <<session, error, finished>>

Next == EndOfFile \/ ShortPrefix \/ ShortRecord \/ NoSuchType \/ WrongLength \/ Take

Spec == Init /\ [][Next]_refVars
=============================================================================
