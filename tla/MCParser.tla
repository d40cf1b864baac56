------------------------------ MODULE MCParser ------------------------------
EXTENDS Parser

CONSTANTS
  Marks,      \* the bytes a record is made of, besides its type
  BadTypes,   \* types the specification does not define
  MaxLength   \* bound: the longest record of a wrong length

MCByte == DOMAIN SPEC_LENGTHS \cup BadTypes \cup Marks

(* A message with the byte x in one place and y in all others.  No field    *)
(* can be read one byte off, or turned around, without a difference.        *)
Marked(type, place, x, y) ==
  [i \in 1 .. LengthOf(type) |-> IF i = 1 THEN type ELSE IF i = place THEN x ELSE y]

FeedMessages == {Marked(type, place, x, y) :
                   type \in DOMAIN SPEC_LENGTHS, place \in 2 .. MaxLength, x, y \in Marks}

(* A type and any number of bytes.                                          *)
Others(y) == {[i \in 1 .. n |-> IF i = 1 THEN type ELSE y] :
                type \in DOMAIN SPEC_LENGTHS \cup BadTypes, n \in 1 .. MaxLength}

MCRecords == FeedMessages \cup UNION {Others(y) : y \in Marks}
=============================================================================
