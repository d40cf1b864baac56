---------------------------- MODULE MCItchCount ----------------------------
EXTENDS ItchCount

CONSTANT MaxPieces  \* bound: how many pieces a file is made of

(* Type 1 is any record but a System Event, 3 bytes; type 2 a System Event, *)
(* 4 bytes.  Each carries a timestamp of two bytes.                         *)
Lengths == [b \in Byte |-> CASE b = 1 -> 3 [] b = 2 -> 4 [] OTHER -> 0]

Good == {<<0, 3, 1, hi, lo>> : hi \in {0, 1}, lo \in {0, 1}}
          \cup {<<1, 0, 2, hi, lo, code>> : hi \in {0, 1}, lo \in {0, 1}, code \in {1, 2}}

(* A stray byte, a zero length, a record cut short, an unknown type and a   *)
(* length one short.                                                        *)
Bad == {<<0>>, <<0, 0>>, <<0, 3, 1>>, <<0, 1, 3>>, <<0, 2, 1, 0>>}

Joined(pieces) ==
  LET upTo[i \in 0 .. Len(pieces)] == IF i = 0 THEN <<>> ELSE upTo[i - 1] \o pieces[i]
  IN  upTo[Len(pieces)]

AllFiles == {Joined(p) : p \in UNION {[1 .. n -> Good \cup Bad] : n \in 0 .. MaxPieces}}
=============================================================================
