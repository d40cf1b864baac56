------------------------------- MODULE Parser -------------------------------
(***************************************************************************)
(* One record on its way through both implementations: the type and length *)
(* check of frame_all and dispatch_record (include/itch/parser.hpp) with   *)
(* its decoders, down to the call OrderBook makes of it, and the same      *)
(* record in replay() and _apply() of tools/reference_book.py.  Decoders   *)
(* keep no state, so a behaviour is one record.                            *)
(*                                                                         *)
(* Records are built field by field, each field's bytes most significant   *)
(* first, as the feed (and RecordBuilder of tests/fixtures.hpp) does.      *)
(***************************************************************************)
EXTENDS Messages

CONSTANTS
  Byte,    \* the characters a byte can be
  Records  \* the records that can come: any type, any length, any bytes

ASSUME RecordsAssumption == Records \subseteq Seq(Byte) \ {<<>>}

VARIABLES
  NDEBUG,  \* TRUE: asserts compiled out; FALSE: a Debug build
  record,  \* the bytes between two prefixes, one at least
  cpp,     \* what the C++ program did with it
  python   \* what the script did with it

parserVars == <<NDEBUG, record, cpp, python>>

Pending == [result |-> "pending"]

-----------------------------------------------------------------------------
(* The feed: the fields of each message, in order, with their widths.       *)

WireHeader == <<<<"type", 1>>, <<"stock_locate", 2>>, <<"tracking_number", 2>>,
                <<"timestamp_ns", 6>>>>

WireAdd == WireHeader \o
  <<<<"order_reference", 8>>, <<"side", 1>>, <<"shares", 4>>, <<"stock", 8>>, <<"price", 4>>>>

WireExecuted == WireHeader \o
  <<<<"order_reference", 8>>, <<"executed_shares", 4>>, <<"match_number", 8>>>>

Wire ==
  [S |-> WireHeader \o <<<<"event_code", 1>>>>,
   A |-> WireAdd,
   F |-> WireAdd \o <<<<"attribution", 4>>>>,
   E |-> WireExecuted,
   C |-> WireExecuted \o <<<<"printable", 1>>, <<"execution_price", 4>>>>,
   X |-> WireHeader \o <<<<"order_reference", 8>>, <<"cancelled_shares", 4>>>>,
   D |-> WireHeader \o <<<<"order_reference", 8>>>>,
   U |-> WireHeader \o <<<<"original_order_reference", 8>>, <<"new_order_reference", 8>>,
                         <<"shares", 4>>, <<"price", 4>>>>,
   P |-> WireAdd \o <<<<"match_number", 8>>>>,
   R |-> WireHeader \o
         <<<<"stock", 8>>, <<"market_category", 1>>, <<"financial_status_indicator", 1>>,
           <<"round_lot_size", 4>>, <<"round_lots_only", 1>>, <<"issue_classification", 1>>,
           <<"issue_sub_type", 2>>, <<"authenticity", 1>>,
           <<"short_sale_threshold_indicator", 1>>, <<"ipo_flag", 1>>,
           <<"luld_reference_price_tier", 1>>, <<"etp_flag", 1>>,
           <<"etp_leverage_factor", 4>>, <<"inverse_indicator", 1>>>>]

MessageName ==
  [S |-> "SystemEvent", A |-> "AddOrder", F |-> "AddOrderWithMpid", E |-> "OrderExecuted",
   C |-> "OrderExecutedWithPrice", X |-> "OrderCancel", D |-> "OrderDelete",
   U |-> "OrderReplace", P |-> "TradeNonCross", R |-> "StockDirectory"]

(* Where the k-th field of a format starts.                                 *)
StartOf(fields, k) ==
  LET end[i \in 0 .. Len(fields)] == IF i = 0 THEN 0 ELSE end[i - 1] + fields[i][2]
  IN  end[k - 1]

(* The number a field stands for, its bytes most significant first.         *)
BigEndian(bytes) == [i \in 0 .. Len(bytes) - 1 |-> bytes[Len(bytes) - i]]

(* What was sent in a field: text, one character, or a number.  Timestamps  *)
(* have 48 bits and are kept in 64.                                         *)
SentField(name, bytes) ==
  CASE name \in {"stock", "attribution", "issue_sub_type"} -> bytes
    [] name = "timestamp_ns" -> BigEndian(<<NUL, NUL>> \o bytes)
    [] OTHER -> IF Len(bytes) = 1 THEN bytes[1] ELSE BigEndian(bytes)

Sent(r) ==
  LET fields    == Wire[r[1]]
      number(n) == CHOOSE k \in DOMAIN fields : fields[k][1] = n
      bytes(k)  == SubSeq(r, StartOf(fields, k) + 1, StartOf(fields, k) + fields[k][2])
  IN  [n \in {fields[k][1] : k \in DOMAIN fields} |-> SentField(n, bytes(number(n)))]

-----------------------------------------------------------------------------
(* tools/reference_book.py *)

SPEC_LENGTHS ==
  [S |-> 12, R |-> 39, H |-> 25, Y |-> 20, L |-> 26, V |-> 35, W |-> 12, K |-> 28,
   J |-> 35, h |-> 21, A |-> 36, F |-> 40, E |-> 31, C |-> 36, X |-> 23, D |-> 19,
   U |-> 35, P |-> 44, Q |-> 40, B |-> 19, I |-> 50, N |-> 20]

(* record[from:to], and struct.unpack of it with a big-endian format.       *)
Slice(r, from, to)  == SubSeq(r, from + 1, to)
unpack(r, from, to) == BigEndian(Slice(r, from, to))

(* The call that is made of a record: its locate, the method, arguments.    *)
Call(locate, method, arguments) ==
  [result |-> "call", locate |-> locate, method |-> method, arguments |-> arguments]

Rejected == [result |-> "rejected"]

_apply(r) ==
  LET locate    == unpack(r, 1, 3)
      reference == unpack(r, 11, 19)
      side      == IF r[20] = "B" THEN "Buy" ELSE "Sell"
  IN  CASE r[1] \in {"A", "F"} ->
             Call(locate, "add", <<reference, side, unpack(r, 20, 24), unpack(r, 32, 36)>>)
        [] r[1] \in {"E", "C"} -> Call(locate, "execute", <<reference, unpack(r, 19, 23)>>)
        [] r[1] = "X" -> Call(locate, "cancel", <<reference, unpack(r, 19, 23)>>)
        [] r[1] = "D" -> Call(locate, "delete", <<reference>>)
        [] r[1] = "U" -> Call(locate, "replace", <<reference, unpack(r, 19, 27),
                                                   unpack(r, 27, 31), unpack(r, 31, 35)>>)
        [] r[1] = "P" -> Call(locate, "trade", <<>>)
        [] r[1] = "R" -> Call(locate, "directory", Slice(r, 11, 19))
        [] OTHER -> Call(locate, "nothing", <<>>)

ReplayRecord ==
  /\ python = Pending
  /\ python' = IF record[1] \notin DOMAIN SPEC_LENGTHS THEN Rejected
               ELSE IF SPEC_LENGTHS[record[1]] # Len(record) THEN Rejected
               ELSE _apply(record)
  /\ UNCHANGED <<NDEBUG, record, cpp>>

-----------------------------------------------------------------------------
(* dispatch_record *)

(* The overload of on() each case calls, and the struct it decodes into.    *)
Decoders ==
  [A |-> <<"AddOrder", AddOrder>>, D |-> <<"OrderDelete", OrderDelete>>,
   E |-> <<"OrderExecuted", OrderExecuted>>, X |-> <<"OrderCancel", OrderCancel>>,
   U |-> <<"OrderReplace", OrderReplace>>, F |-> <<"AddOrderWithMpid", AddOrderWithMpid>>,
   C |-> <<"OrderExecutedWithPrice", OrderExecutedWithPrice>>,
   P |-> <<"TradeNonCross", TradeNonCross>>, S |-> <<"SystemEvent", SystemEvent>>,
   R |-> <<"StockDirectory", StockDirectory>>]

(* The record goes to on() decoded, to on_other() as it is, or nowhere.     *)
dispatch_record(type, r) ==
  IF type \notin DOMAIN Decoders
    THEN [result |-> "on_other", type |-> type, record |-> r]
  ELSE IF ~NDEBUG /\ ~AssertsHold(type, Decoders[type][2], r)
    THEN [result |-> "aborted"]
  ELSE [result |-> "on", message |-> Decoders[type][1], fields |-> decode(Decoders[type][2], r)]

(* frame_all's check of the type and the length, then the callback.         *)
ParseRecord ==
  /\ cpp = Pending
  /\ cpp' = IF spec_message_length(record[1]) # Len(record) THEN Rejected
            ELSE dispatch_record(record[1], record)
  /\ UNCHANGED <<NDEBUG, record, python>>

(* Which of a message's fields OrderBook::on and BookReplayHandler::on use. *)
BookCall(message, m) ==
  CASE message \in {"AddOrder", "AddOrderWithMpid"} ->
         Call(m.stock_locate, "add", <<m.order_reference,
              IF m.side = "B" THEN "Buy" ELSE "Sell", m.shares, m.price>>)
    [] message \in {"OrderExecuted", "OrderExecutedWithPrice"} ->
         Call(m.stock_locate, "execute", <<m.order_reference, m.executed_shares>>)
    [] message = "OrderCancel" ->
         Call(m.stock_locate, "cancel", <<m.order_reference, m.cancelled_shares>>)
    [] message = "OrderDelete" -> Call(m.stock_locate, "delete", <<m.order_reference>>)
    [] message = "OrderReplace" ->
         Call(m.stock_locate, "replace", <<m.original_order_reference,
              m.new_order_reference, m.shares, m.price>>)
    [] message = "TradeNonCross" -> Call(m.stock_locate, "trade", <<>>)
    [] message = "StockDirectory" -> Call(m.stock_locate, "directory", m.stock)
    [] OTHER -> Call(m.stock_locate, "nothing", <<>>)

-----------------------------------------------------------------------------
(* The specification *)

ParserInit ==
  /\ NDEBUG \in BOOLEAN
  /\ record \in Records
  /\ cpp = Pending
  /\ python = Pending

ParserNext == ParseRecord \/ ReplayRecord

ParserSpec == ParserInit /\ [][ParserNext]_parserVars

-----------------------------------------------------------------------------
(* Properties *)

(* The length of the messages of a type: their fields', where we know them. *)
LengthOf(type) ==
  IF type \in DOMAIN Wire THEN StartOf(Wire[type], Len(Wire[type]) + 1) ELSE SPEC_LENGTHS[type]

IsMessage == record[1] \in DOMAIN SPEC_LENGTHS /\ Len(record) = LengthOf(record[1])

(***************************************************************************)
(* A message reaches the overload of on() meant for its type with exactly  *)
(* the values that were sent in every field, 48-bit timestamps included;   *)
(* one that is not decoded reaches on_other() whole.  No message of the    *)
(* specification is refused: its table entry is the sum of its fields.     *)
(***************************************************************************)
DecodesWhatWasSent ==
  IsMessage /\ cpp.result \notin {"pending", "aborted"} =>
    cpp = IF record[1] \in DOMAIN Wire
            THEN [result |-> "on", message |-> MessageName[record[1]], fields |-> Sent(record)]
            ELSE [result |-> "on_other", type |-> record[1], record |-> record]

(***************************************************************************)
(* The asserts of the decoders and of ByteReader, on sizes and on offsets, *)
(* cannot fire on a record the framer lets through: a Debug build stops    *)
(* at a side byte that is neither 'B' nor 'S', and at nothing else.        *)
(***************************************************************************)
OnlyTheSideAborts ==
  cpp # Pending =>
    (cpp.result = "aborted" <=>
       /\ ~NDEBUG /\ IsMessage
       /\ record[1] \in {"A", "F", "P"} /\ ~is_valid_side(Sent(record).side))

(***************************************************************************)
(* book_replay and reference_book.py, written apart, refuse the same       *)
(* records and make the same call of each of the others: same locate, same *)
(* operation, same numbers, for every byte of every field either uses.     *)
(***************************************************************************)
SameCall ==
  python # Pending =>
    CASE cpp.result = "rejected" -> python = Rejected
      [] cpp.result = "on_other" -> python.result = "call" /\ python.method = "nothing"
      [] cpp.result = "on"       -> python = BookCall(cpp.message, cpp.fields)
      [] OTHER                   -> TRUE
=============================================================================
