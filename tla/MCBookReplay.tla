---------------------------- MODULE MCBookReplay ----------------------------
EXTENDS BookReplay

CONSTANTS AAPL, MSFT

Listing == [l \in Locate \ {0} |-> IF l = 1 THEN AAPL ELSE MSFT]

Symmetry == Permutations(OrderRef) \cup Permutations(Node)
=============================================================================
