----------------------------- MODULE ReplayFile -----------------------------
(***************************************************************************)
(* main() of tools/book_replay.cpp over the bytes of a whole file: which   *)
(* records reach the book, and the exit code.  The framing is Framer's.    *)
(* What the book does with a record is OrderBook's and BookReplay's; here  *)
(* it only collects those that pass its locate check.                      *)
(*                                                                         *)
(* Layouts are scaled down by the constants: in the code the locate is the *)
(* 2 bytes at 1, and the stock of a Stock Directory the 8 bytes at 11.     *)
(***************************************************************************)
EXTENDS Framer, FiniteSets, SequencesExt

CONSTANTS
  LocateAt,       \* where in a record its locate is, a byte
  StockAt,        \* where in a Stock Directory the stock starts
  StockBytes,     \* how many bytes it has
  DirectoryType,  \* 'R'
  BookTypes,      \* the types some on() of OrderBook acts upon
  Blank,          \* ' '
  Symbols         \* what may be asked for on the command line

(* Every message has a locate, a Stock Directory has a stock, and no on()   *)
(* of the book is for a Stock Directory.                                    *)
ASSUME LayoutAssumption ==
  /\ LocateAt \in Nat /\ \A t \in Byte : SpecLength[t] # 0 => LocateAt < SpecLength[t]
  /\ DirectoryType \in Byte \ BookTypes
  /\ StockAt \in Nat /\ StockBytes \in Nat /\ StockAt + StockBytes <= SpecLength[DirectoryType]
  /\ Blank \in Byte

(* No symbol ends in a blank.                                               *)
ASSUME SymbolAssumption == \A s \in Symbols : s \in Seq(Byte) /\ (s = <<>> \/ Last(s) # Blank)

VARIABLES
  symbol_,
  locate_,    \* of the book; 0 until set_locate
  resolved_,
  applied,    \* history: the records that passed the book's locate check
  exit_code   \* what main() returned; Running before that

fileVars == <<file, offset, outcome, returned, delivered, touched,
              symbol_, locate_, resolved_, applied, exit_code>>

Running == -1

FileInit ==
  /\ Init
  /\ symbol_ \in Symbols
  /\ locate_ = 0
  /\ resolved_ = FALSE
  /\ applied = <<>>
  /\ exit_code = Running

-----------------------------------------------------------------------------
record       == SubSeq(file, offset + 3, offset + 2 + declared)
stock_locate == record[LocateAt + 1]
stock(r)     == SubSeq(r, StockAt + 1, StockAt + StockBytes)

(* Up to the first blank, as if a symbol could not begin with one.          *)
SlipTrimFirst(field) ==
  SubSeq(field, 1, (CHOOSE n \in 0 .. Len(field) :
    /\ \A i \in 1 .. n : field[i] # Blank
    /\ n = Len(field) \/ field[n + 1] = Blank))

(* The field up to find_last_not_of(' ').                                   *)
trim(field) ==
  SubSeq(field, 1, (CHOOSE n \in 0 .. Len(field) :
    /\ \A i \in n + 1 .. Len(field) : field[i] = Blank
    /\ n = 0 \/ field[n] # Blank))

Refuse ==
  /\ exit_code = Running /\ offset = 0 /\ ~returned
  /\ exit_code' = 2
  /\ UNCHANGED <<file, offset, outcome, returned, delivered, touched,
                 symbol_, locate_, resolved_, applied>>

Mapped == exit_code = Running /\ file # <<>>

(* A later announcement followed as well.                                   *)
SlipFollowLast ==
  /\ Mapped
  /\ Deliver
  /\ type = DirectoryType
  /\ IF trim(stock(record)) = symbol_
       THEN locate_' = stock_locate /\ resolved_' = TRUE
       ELSE UNCHANGED <<locate_, resolved_>>
  /\ UNCHANGED <<symbol_, applied, exit_code>>

(* BookReplayHandler::on(const StockDirectory&)                             *)
OnDirectory ==
  /\ Mapped
  /\ Deliver
  /\ type = DirectoryType
  /\ IF ~resolved_ /\ trim(stock(record)) = symbol_
       THEN locate_' = stock_locate /\ resolved_' = TRUE
       ELSE UNCHANGED <<locate_, resolved_>>
  /\ UNCHANGED <<symbol_, applied, exit_code>>

(* Every other overload forwards; on() of the book compares the locate.     *)
OnForwarded ==
  /\ Mapped
  /\ Deliver
  /\ type # DirectoryType
  /\ applied' = IF type \in BookTypes /\ stock_locate = locate_
                  THEN Append(applied, record) ELSE applied
  /\ UNCHANGED <<symbol_, locate_, resolved_, exit_code>>

FramingStops ==
  /\ Mapped
  /\ \/ TruncatedPrefix
     \/ ZeroLength
     \/ TruncatedRecord
     \/ UnknownType
     \/ LengthMismatch
     \/ ReturnAtEnd
  /\ UNCHANGED <<symbol_, locate_, resolved_, applied, exit_code>>

(* The framing error forgotten.                                             *)
SlipExitResolved ==
  /\ returned
  /\ exit_code = Running
  /\ exit_code' = IF resolved_ THEN 0 ELSE 1
  /\ UNCHANGED <<file, offset, outcome, returned, delivered, touched,
                 symbol_, locate_, resolved_, applied>>

(* Not announced: 1, without a summary.  Else the summary, then 0 or 1.     *)
Exit ==
  /\ returned
  /\ exit_code = Running
  /\ exit_code' = IF resolved_ /\ outcome.error = None THEN 0 ELSE 1
  /\ UNCHANGED <<file, offset, outcome, returned, delivered, touched,
                 symbol_, locate_, resolved_, applied>>

FileNext == Refuse \/ OnDirectory \/ OnForwarded \/ FramingStops \/ Exit

FileSpec == FileInit /\ [][FileNext]_fileVars /\ WF_fileVars(FileNext)

-----------------------------------------------------------------------------
(* Properties *)

(* The file can be cut into good records from `at` on, for each `at`.       *)
Frames(f) ==
  LET framed[at \in 0 .. Len(f)] ==
        at = Len(f) \/ (GoodRecord(f, at) /\ framed[EndOf(f, at)])
  IN  framed[0]

(* symbol.encode().ljust(8)                                                 *)
ljust(s) == s \o [i \in 1 .. (IF Len(s) < StockBytes THEN StockBytes - Len(s) ELSE 0) |-> Blank]

(* The record that was delivered i-th.                                      *)
DeliveredRecord(i) ==
  SubSeq(file, delivered[i].at + 3, delivered[i].at + 2 + delivered[i].length)

Announces(i) ==
  delivered[i].type = DirectoryType /\ stock(DeliveredRecord(i)) = ljust(symbol_)

FirstAnnounces(i) == Announces(i) /\ \A j \in 1 .. i - 1 : ~Announces(j)

(* The book messages that follow it and carry its locate.                   *)
OfTheSymbol ==
  {i \in DOMAIN delivered :
     /\ delivered[i].type \in BookTypes
     /\ \E k \in 1 .. i - 1 :
          FirstAnnounces(k) /\ DeliveredRecord(i)[LocateAt + 1] = DeliveredRecord(k)[LocateAt + 1]}

(***************************************************************************)
(* Of a file it could map, book_replay makes 0 exactly when the whole file *)
(* is well framed and announces the symbol somewhere, however its field is *)
(* padded.                                                                 *)
(***************************************************************************)
ReplayExitZero ==
  exit_code \in {0, 1} =>
    (exit_code = 0 <=> Frames(file) /\ \E i \in DOMAIN delivered : Announces(i))

(* What the session's author sees to: a book message is about a symbol, and *)
(* no symbol has locate 0.  Other messages, as System Events, carry it.     *)
BookLocatesNotZero ==
  \A i \in DOMAIN delivered :
    delivered[i].type \in BookTypes => DeliveredRecord(i)[LocateAt + 1] # 0

(***************************************************************************)
(* Of a file with BookLocatesNotZero, the book is given exactly the book   *)
(* messages that follow the FIRST announcement of the symbol and carry its *)
(* locate, in file order: not those before it, and none on account of a    *)
(* later announcement.  A book message with locate 0 it would be given     *)
(* before the announcement, as locate_ is 0 until then.                    *)
(***************************************************************************)
AppliedFollowAnnouncement ==
  /\ Len(applied) = Cardinality(OfTheSymbol)
  /\ \A i \in OfTheSymbol :
       applied[Cardinality({j \in OfTheSymbol : j <= i})] = DeliveredRecord(i)

(***************************************************************************)
(* Every run of the tool ends.                                             *)
(***************************************************************************)
ReplayExits == <>(exit_code # Running)

(* replay() of tools/reference_book.py: what one record adds.  _apply       *)
(* leaves a type it does not know alone.                                    *)
ReplayRecord(gathered, r) ==
  IF r[1] = DirectoryType
    THEN IF ~gathered.resolved /\ stock(r) = gathered.target
           THEN [gathered EXCEPT !.locate = r[LocateAt + 1], !.resolved = TRUE]
           ELSE gathered
    ELSE IF gathered.resolved /\ r[LocateAt + 1] = gathered.locate /\ r[1] \in BookTypes
           THEN [gathered EXCEPT !.applied = Append(@, r)]
           ELSE gathered

(* A record of no bytes has no type, to the script.                         *)
ReferenceReplay == INSTANCE ReferenceSession WITH
  Initial  <- {[target |-> ljust(s), locate |-> 0, resolved |-> FALSE, applied |-> <<>>] :
                 s \in Symbols},
  OnRecord <- ReplayRecord,
  session  <- file,
  consumed <- outcome.bytes_consumed,
  gathered <- [target |-> ljust(symbol_), locate |-> locate_,
               resolved |-> resolved_, applied |-> applied],
  error    <- IF outcome.error = "ZeroLength" THEN "UnknownType" ELSE outcome.error,
  finished <- returned

(***************************************************************************)
(* book_replay implements reference_book.py on every file it maps that has *)
(* BookLocatesNotZero: the two resolve the same locate at the same record, *)
(* although one trims the field and the other pads the symbol, apply the   *)
(* same records, and stop at the same byte for the same reason.  The       *)
(* script applies nothing before the announcement, the book what carries 0.*)
(***************************************************************************)
RefinesReferenceReplay == ReferenceReplay!Spec
=============================================================================
