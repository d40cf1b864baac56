----------------------------- MODULE MCCheckRep -----------------------------
(***************************************************************************)
(* OrderBook::check_rep() against the three facts its comment says it      *)
(* confirms, on books no sequence of messages produces.  check_rep is an   *)
(* audit, so what counts is its verdict on a damaged book; the steps below *)
(* damage one part of the representation at a time, independently of the   *)
(* others.  List nodes keep distinct addresses, as they do in any process. *)
(***************************************************************************)
EXTENDS OrderBook

Symmetry == Permutations(OrderRef) \cup Permutations(Node)

WithLevel(side, price, level) ==
  [book EXCEPT !.levels[side] = MapPut(@, price, level)]

Damaged(b) == book' = b /\ UNCHANGED <<locate_, stats_, aborted>>

(* A queue gains a node that neither its total nor the index knows of.      *)
StrayNode ==
  \E side \in Side, price \in Price, node \in FreeNodes(book), r \in OrderRef :
    Damaged(WithLevel(side, price,
      [LevelAt(book, side, price) EXCEPT !.orders =
         Append(@, [node |-> node, order_reference |-> r, shares |-> 1])]))

(* A total changes, or a level appears with nothing in it.                  *)
WrongTotal ==
  \E side \in Side, price \in Price, total \in Total :
    Damaged(WithLevel(side, price,
      [LevelAt(book, side, price) EXCEPT !.total_shares = total]))

(* The index gains or changes an entry, pointing anywhere.                  *)
WrongIndex ==
  \E r \in OrderRef, location \in OrderLocation :
    Damaged([book EXCEPT !.orders_ = MapPut(@, r, location)])

DamageNext == StrayNode \/ WrongTotal \/ WrongIndex

DamageSpec == Init /\ [][DamageNext]_vars

(***************************************************************************)
(* check_rep's comment: it "Confirms every order in orders_ points at a    *)
(* real position in the level its own record names, every level's          *)
(* total_shares matches the sum of its queue, and no level is left in the  *)
(* map with an empty queue".  The code never looks at an order from the    *)
(* index side: it walks the queues and compares counts.  For every damaged *)
(* book, its verdict is TRUE exactly when the three facts hold and no      *)
(* queued order is missing from the index.                                 *)
(***************************************************************************)
CheckRepExact ==
  check_rep(book) <=>
    /\ PositionsLive(book)
    /\ TotalsExact(book)
    /\ NoEmptyLevel(book)
    /\ NoOrphan(book)
=============================================================================
