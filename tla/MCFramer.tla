------------------------------ MODULE MCFramer ------------------------------
EXTENDS Framer, FiniteSets

CONSTANT MaxFileLength  \* bound on the size of the files walked

(* Three types of 1, 2 and 4 bytes; the last has a length prefix whose high *)
(* byte is not zero.  Type 0 is undefined.                                  *)
Lengths == [b \in Byte |-> CASE b = 1 -> 1 [] b = 2 -> 2 [] b = 3 -> 4 [] OTHER -> 0]

AllFiles == UNION {[1 .. n -> Byte] : n \in 0 .. MaxFileLength}
=============================================================================
