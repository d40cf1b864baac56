------------------------------ MODULE Messages ------------------------------
(***************************************************************************)
(* The message layouts of include/itch/messages.hpp, the accessors of      *)
(* include/itch/byte_reader.hpp and the table of src/message_table.cpp.    *)
(*                                                                         *)
(* A byte is a character; a record is the sequence of its bytes.  An       *)
(* unsigned integer is its base-256 digits, by significance: digit 0 is    *)
(* the lowest.  A decoder is the struct it fills, each field given as the  *)
(* accessor it calls and the offset it passes.                             *)
(***************************************************************************)
EXTENDS Integers, Sequences, FiniteSets

NUL == "NUL"  \* the byte 0

kSpecLengths ==
  [S |-> 12, A |-> 36, F |-> 40, E |-> 31, C |-> 36, X |-> 23, D |-> 19, U |-> 35,
   P |-> 44, R |-> 39, H |-> 25, Y |-> 20, L |-> 26, V |-> 35, W |-> 12, K |-> 28,
   J |-> 35, h |-> 21, Q |-> 40, B |-> 19, I |-> 50, N |-> 20]

spec_message_length(type) ==
  IF type \in DOMAIN kSpecLengths THEN kSpecLengths[type] ELSE 0

-----------------------------------------------------------------------------
(* ByteReader *)

(* What a little-endian host finds in an integer it copied bytes into.      *)
memcpy(bytes) == [i \in 0 .. Len(bytes) - 1 |-> bytes[i + 1]]

byteswap(value) == [i \in DOMAIN value |-> value[Cardinality(DOMAIN value) - 1 - i]]

(* The byte swap left out.                                                  *)
SlipNoSwap(source) == memcpy(source)
load_big_endian(source) == byteswap(memcpy(source))

(* The accessors, as what a decoder asks of one: it asserts that the bytes  *)
(* from `at` to `at + width` are in the record, and returns them as `as`.   *)
read_char(at)     == [as |-> "char",  at |-> at, width |-> 1]
read_u16(at)      == [as |-> "uint",  at |-> at, width |-> 2]
read_u32(at)      == [as |-> "uint",  at |-> at, width |-> 4]
read_u64(at)      == [as |-> "uint",  at |-> at, width |-> 8]
read_u48(at)      == [as |-> "u48",   at |-> at, width |-> 6]
read_alpha(n, at) == [as |-> "alpha", at |-> at, width |-> n]

InRecord(record, read) == read.at + read.width <= Len(record)

(* A byte past the end is no byte of the record.                            *)
ByteAt(record, i) == IF i < Len(record) THEN record[i + 1] ELSE NUL

Value(record, read) ==
  LET bytes == [i \in 1 .. read.width |-> ByteAt(record, read.at + i - 1)]
  IN  CASE read.as = "char"  -> bytes[1]
        [] read.as = "uint"  -> load_big_endian(bytes)
        [] read.as = "u48"   -> load_big_endian(<<NUL, NUL>> \o bytes)
        [] read.as = "alpha" -> bytes

-----------------------------------------------------------------------------
(* The decoders *)

(* A struct that holds another, as the members of both.                     *)
StructOf(base, own) ==
  [f \in DOMAIN base \cup DOMAIN own |-> IF f \in DOMAIN base THEN base[f] ELSE own[f]]

MessageHeader == [type |-> read_char(0), stock_locate |-> read_u16(1),
                  tracking_number |-> read_u16(3), timestamp_ns |-> read_u48(5)]

SystemEvent == StructOf(MessageHeader, [event_code |-> read_char(11)])

AddOrder == StructOf(MessageHeader,
  [order_reference |-> read_u64(11), side |-> read_char(19), shares |-> read_u32(20),
   stock |-> read_alpha(8, 24), price |-> read_u32(32)])

AddOrderWithMpid == StructOf(AddOrder, [attribution |-> read_alpha(4, 36)])

OrderExecuted == StructOf(MessageHeader,
  [order_reference |-> read_u64(11), executed_shares |-> read_u32(19),
   match_number |-> read_u64(23)])

OrderExecutedWithPrice == StructOf(OrderExecuted,
  [printable |-> read_char(31), execution_price |-> read_u32(32)])

OrderCancel == StructOf(MessageHeader,
  [order_reference |-> read_u64(11), cancelled_shares |-> read_u32(19)])

OrderDelete == StructOf(MessageHeader, [order_reference |-> read_u64(11)])

(* Shares and price taken from where an 'A' has them.                       *)
SlipReplaceLikeAdd == StructOf(MessageHeader,
  [original_order_reference |-> read_u64(11), new_order_reference |-> read_u64(19),
   shares |-> read_u32(28), price |-> read_u32(32)])

(* The two references taken for each other.                                 *)
SlipReplaceSwapped == StructOf(MessageHeader,
  [original_order_reference |-> read_u64(19), new_order_reference |-> read_u64(11),
   shares |-> read_u32(27), price |-> read_u32(31)])

OrderReplace == StructOf(MessageHeader,
  [original_order_reference |-> read_u64(11), new_order_reference |-> read_u64(19),
   shares |-> read_u32(27), price |-> read_u32(31)])

TradeNonCross == StructOf(AddOrder, [match_number |-> read_u64(36)])

StockDirectory == StructOf(MessageHeader,
  [stock |-> read_alpha(8, 11), market_category |-> read_char(19),
   financial_status_indicator |-> read_char(20), round_lot_size |-> read_u32(21),
   round_lots_only |-> read_char(25), issue_classification |-> read_char(26),
   issue_sub_type |-> read_alpha(2, 27), authenticity |-> read_char(29),
   short_sale_threshold_indicator |-> read_char(30), ipo_flag |-> read_char(31),
   luld_reference_price_tier |-> read_char(32), etp_flag |-> read_char(33),
   etp_leverage_factor |-> read_u32(34), inverse_indicator |-> read_char(38)])

is_valid_side(value) == value \in {"B", "S"}

(* The asserts of a decoder for records of `type`, in the order they run.   *)
(* The three structs with a side are the three decoders that check it.      *)
AssertsHold(type, struct, record) ==
  /\ Len(record) = spec_message_length(type)
  /\ \A f \in DOMAIN struct : InRecord(record, struct[f])
  /\ "side" \in DOMAIN struct => is_valid_side(Value(record, struct.side))

decode(struct, record) == [f \in DOMAIN struct |-> Value(record, struct[f])]
=============================================================================
