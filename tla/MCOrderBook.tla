----------------------------- MODULE MCOrderBook -----------------------------
EXTENDS OrderBook

Symmetry == Permutations(OrderRef) \cup Permutations(Node)
=============================================================================
