---------------------------- MODULE MCReplayFile ----------------------------
EXTENDS ReplayFile

CONSTANT MaxPieces  \* bound: how many pieces a file is made of

(* Type 1 is a Stock Directory with a stock of two bytes, type 2 a book     *)
(* message, type 3 a message nothing acts upon.  0 is the blank.  No book   *)
(* message carries locate 0 (BookLocatesNotZero); one that nothing acts     *)
(* upon does, as the System Events that open and close a session.           *)
Lengths == [b \in Byte |-> CASE b = 1 -> 4 [] b \in {2, 3} -> 2 [] OTHER -> 0]

Stocks == {<<1, 0>>, <<0, 1>>, <<0, 0>>}
Good == {<<1, 0, 1, l>> \o s : l \in {1, 2}, s \in Stocks}
          \cup {<<0, 2, 2, 1>>, <<0, 2, 2, 2>>, <<0, 2, 3, 0>>, <<0, 2, 3, 1>>}

(* A stray byte, a zero length, an unknown type, a length one short.        *)
Bad == {<<0>>, <<0, 0>>, <<0, 1, 0>>, <<0, 1, 2>>}

AllFiles == {FlattenSeq(p) : p \in UNION {[1 .. n -> Good \cup Bad] : n \in 0 .. MaxPieces}}

AllSymbols == {<<1>>, <<0, 1>>, <<>>, <<1, 0, 1>>}
=============================================================================
