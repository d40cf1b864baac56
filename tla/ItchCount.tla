------------------------------ MODULE ItchCount ------------------------------
(***************************************************************************)
(* tools/itch_count.cpp: a SessionCensus behind parse_all, and the verdict *)
(* main() turns into an exit code.  The framing is Framer's; a delivery    *)
(* also decodes the record's header and notes it in the census, because    *)
(* every overload of SessionCensus::on, and on_other, does.                *)
(*                                                                         *)
(* The layout of a header is scaled down by the constants: in the code the *)
(* timestamp is the 6 bytes at 5, and the event code of a System Event the *)
(* byte at 11.                                                             *)
(***************************************************************************)
EXTENDS Framer, FiniteSets

CONSTANTS
  TimestampAt,      \* where in a record its timestamp starts
  TimestampBytes,   \* how many bytes it has
  SystemEventType,  \* 'S'
  EventAt           \* where in a System Event its code is

(* Every type's records are long enough for what is decoded from them.      *)
ASSUME LayoutAssumption ==
  /\ TimestampAt \in Nat \ {0}
  /\ TimestampBytes \in Nat \ {0}
  /\ \A t \in Byte : SpecLength[t] # 0 => TimestampAt + TimestampBytes <= SpecLength[t]
  /\ SystemEventType \in Byte
  /\ EventAt \in Nat /\ EventAt < SpecLength[SystemEventType]

VARIABLES
  census,    \* SessionCensus
  exit_code  \* what main() returned; Running before that

countVars == <<file, offset, outcome, returned, delivered, touched, census, exit_code>>

Running == -1

CountInit ==
  /\ Init
  /\ census = [counts_ |-> [t \in Byte |-> 0], total_ |-> 0, backwards_timestamps_ |-> 0,
               first_timestamp_ns_ |-> 0, last_timestamp_ns_ |-> 0, system_events_ |-> <<>>]
  /\ exit_code = Running

-----------------------------------------------------------------------------
(* load_big_endian over the bytes of the file from `at`.                    *)
SlipLittleEndian(at, width) ==
  LET value[i \in 0 .. width] ==
        IF i = 0 THEN 0 ELSE value[i - 1] * ByteBase + ByteAt(at + width - i)
  IN  value[width]

load_big_endian(at, width) ==
  LET value[i \in 0 .. width] ==
        IF i = 0 THEN 0 ELSE value[i - 1] * ByteBase + ByteAt(at + i - 1)
  IN  value[width]

timestamp_ns == load_big_endian(offset + 2 + TimestampAt, TimestampBytes)

(* The prefix not skipped.                                                  *)
SlipEventAt == ByteAt(offset + EventAt)
event_code  == ByteAt(offset + 2 + EventAt)

note(c, message_type, timestamp) ==
  [c EXCEPT !.counts_[message_type] = @ + 1,
            !.first_timestamp_ns_   = IF c.total_ = 0 THEN timestamp ELSE @,
            !.backwards_timestamps_ =
               IF c.total_ # 0 /\ timestamp < c.last_timestamp_ns_ THEN @ + 1 ELSE @,
            !.last_timestamp_ns_    = timestamp,
            !.total_                = @ + 1]

(* Only the decoded overloads note their message.                           *)
SlipOtherNotNoted(c) ==
  IF type = SystemEventType
    THEN [note(c, type, timestamp_ns) EXCEPT !.system_events_ = Append(@, event_code)]
    ELSE c

(* SessionCensus::on for every decoded type, and on_other for the rest.     *)
SessionCensusOn(c) ==
  LET noted == note(c, type, timestamp_ns)
  IN  IF type = SystemEventType
        THEN [noted EXCEPT !.system_events_ = Append(@, event_code)]
        ELSE noted

(* Wrong arguments, or MappedFile throws: it does for an empty file.        *)
Refuse ==
  /\ exit_code = Running /\ offset = 0 /\ ~returned
  /\ exit_code' = 2
  /\ UNCHANGED <<file, offset, outcome, returned, delivered, touched, census>>

Mapped == exit_code = Running /\ file # <<>>

(* The record's type byte selects the decoder and the handler's overload.   *)
DispatchRecord ==
  /\ Mapped
  /\ Deliver
  /\ census' = SessionCensusOn(census)
  /\ UNCHANGED exit_code

(* parse_all returns what frame_all does.                                   *)
FramingStops ==
  /\ Mapped
  /\ \/ TruncatedPrefix
     \/ ZeroLength
     \/ TruncatedRecord
     \/ UnknownType
     \/ LengthMismatch
     \/ ReturnAtEnd
  /\ UNCHANGED <<census, exit_code>>

framed_completely    == outcome.error = None /\ outcome.bytes_consumed = size
counts_agree         == census.total_ = outcome.messages
timestamps_monotonic == census.backwards_timestamps_ = 0
healthy              == framed_completely /\ counts_agree /\ timestamps_monotonic

Exit ==
  /\ returned
  /\ exit_code = Running
  /\ exit_code' = IF healthy THEN 0 ELSE 1
  /\ UNCHANGED <<file, offset, outcome, returned, delivered, touched, census>>

CountNext == Refuse \/ DispatchRecord \/ FramingStops \/ Exit

CountSpec == CountInit /\ [][CountNext]_countVars /\ WF_countVars(CountNext)

-----------------------------------------------------------------------------
(* Properties *)

(***************************************************************************)
(* The census accounts for every record the framer delivered, by type and  *)
(* in total, at every moment: "counts agree with framer" can only print ok.*)
(***************************************************************************)
CensusAccountsForAll ==
  /\ census.total_ = outcome.messages
  /\ \A t \in Byte :
       census.counts_[t] = Cardinality({i \in DOMAIN delivered : delivered[i].type = t})

(* The timestamp bytes of the record at `at`, and their order as big-endian *)
(* numbers, byte by byte.                                                   *)
TimestampOf(at) == [i \in 1 .. TimestampBytes |-> file[at + 2 + TimestampAt + i]]

NotAfter(a, b) ==
  \/ a = b
  \/ \E k \in 1 .. TimestampBytes : a[k] < b[k] /\ \A j \in 1 .. k - 1 : a[j] = b[j]

(***************************************************************************)
(* Of a file it could map, main() makes 0 exactly when all of it is well   *)
(* framed and no record is stamped earlier than ANY record before it,      *)
(* although the census compares each timestamp only with the last one.     *)
(***************************************************************************)
ExitZeroIffHealthy ==
  exit_code \in {0, 1} =>
    (exit_code = 0 <=>
       /\ WellFramed(file, size)
       /\ \A i, j \in DOMAIN delivered :
            i < j => NotAfter(TimestampOf(delivered[i].at), TimestampOf(delivered[j].at)))

(***************************************************************************)
(* Every run of the tool ends, with a verdict unless it is 2.              *)
(***************************************************************************)
EventuallyExits == <>(exit_code # Running)

(* census() of tools/reference_count.py: what one record adds.              *)
CountRecord(gathered, record) ==
  [counts        |-> [gathered.counts EXCEPT ![record[1]] = @ + 1],
   system_events |-> IF record[1] = SystemEventType
                       THEN Append(gathered.system_events, record[EventAt + 1])
                       ELSE gathered.system_events,
   total         |-> gathered.total + 1]

(* A record of no bytes has no type, to the script.                         *)
ReferenceCount == INSTANCE ReferenceSession WITH
  Initial  <- {[counts |-> [t \in Byte |-> 0], system_events |-> <<>>, total |-> 0]},
  OnRecord <- CountRecord,
  session  <- file,
  consumed <- outcome.bytes_consumed,
  gathered <- [counts        |-> census.counts_,
               system_events |-> census.system_events_,
               total         |-> census.total_],
  error    <- IF outcome.error = "ZeroLength" THEN "UnknownType" ELSE outcome.error,
  finished <- returned

(***************************************************************************)
(* itch_count implements reference_count.py on every file it maps: record  *)
(* by record the same counts, the same event codes, the same total and the *)
(* same bytes consumed, and the walk stops at the same byte for the same   *)
(* reason.                                                                 *)
(***************************************************************************)
RefinesReferenceCount == ReferenceCount!Spec
=============================================================================
