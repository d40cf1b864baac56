---------------------------- MODULE ReferenceBook ----------------------------
(***************************************************************************)
(* tools/reference_book.py: the independent replay the C++ one is          *)
(* cross-checked against.  It keeps no queues: an order is its side, price *)
(* and shares, a level is only a total, and a level exists while its total *)
(* is not zero.  Integers are Python's, without a width.                   *)
(***************************************************************************)
EXTENDS Integers, Containers

CONSTANTS Locate, OrderRef, Price, Shares, SideByte, Stock, Target

VARIABLES
  resolved,  \* replay(): the target symbol has been announced
  locate,    \* book.locate; 0 stands for None
  book,      \* [orders, levels: bid_levels and ask_levels by side]
  tallies,   \* adds, executions, cancels, deletes, replaces, trades
  raised     \* a KeyError has ended the script

vars == <<resolved, locate, book, tallies, raised>>

Init ==
  /\ resolved = FALSE
  /\ locate = 0
  /\ book = [orders |-> EmptyMap, levels |-> [s \in {"Buy", "Sell"} |-> EmptyMap]]
  /\ tallies = [n \in {"adds", "executions", "cancels", "deletes", "replaces", "trades"} |-> 0]
  /\ raised = FALSE

-----------------------------------------------------------------------------
(* Book *)

(* Which of the two dicts a side byte selects: anything but "B" is an ask.  *)
LevelsOf(side) == IF side = "Buy" THEN "Buy" ELSE "Sell"

InsertOrder(b, reference, side, price, shares) ==
  LET levels == b.levels[LevelsOf(side)]
      before == IF price \in DOMAIN levels THEN levels[price] ELSE 0
  IN  [orders |-> MapPut(b.orders, reference,
                         [side |-> side, price |-> price, shares |-> shares]),
       levels |-> [b.levels EXCEPT ![LevelsOf(side)] = MapPut(levels, price, before + shares)]]

ReduceOrRemove(b, reference, shares_removed, remove_all) ==
  IF reference \notin DOMAIN b.orders THEN b
  ELSE LET order   == b.orders[reference]
           levels  == b.levels[LevelsOf(order.side)]
           removed == IF remove_all THEN order.shares ELSE shares_removed
           total   == levels[order.price] - removed
           left    == order.shares - removed
       IN  [orders |-> IF remove_all \/ left = 0
                         THEN MapErase(b.orders, reference)
                         ELSE MapPut(b.orders, reference, [order EXCEPT !.shares = left]),
            levels |-> [b.levels EXCEPT ![LevelsOf(order.side)] =
                          IF total = 0 THEN MapErase(levels, order.price)
                                       ELSE MapPut(levels, order.price, total)]]

(* levels[order.price] -= removed, on a price that has no level.            *)
Raises(b, reference) ==
  /\ reference \in DOMAIN b.orders
  /\ b.orders[reference].price \notin
       DOMAIN b.levels[LevelsOf(b.orders[reference].side)]

-----------------------------------------------------------------------------
(* replay() and _apply(): one action per message kind that is applied *)

Tallied(name) == tallies' = [tallies EXCEPT ![name] = @ + 1]

Applies(stock_locate) == ~raised /\ resolved /\ stock_locate = locate

add(stock_locate, reference, side, price, shares) ==
  /\ Applies(stock_locate)
  /\ book' = InsertOrder(book, reference, side, price, shares)
  /\ Tallied("adds")
  /\ UNCHANGED <<resolved, locate, raised>>

(* execute, cancel and delete differ in the tally and in remove_all.        *)
Remove(stock_locate, reference, shares, remove_all, tally) ==
  /\ Applies(stock_locate)
  /\ ~Raises(book, reference)
  /\ book' = ReduceOrRemove(book, reference, shares, remove_all)
  /\ Tallied(tally)
  /\ UNCHANGED <<resolved, locate, raised>>

execute(stock_locate, reference, shares) ==
  Remove(stock_locate, reference, shares, FALSE, "executions")
cancel(stock_locate, reference, shares) ==
  Remove(stock_locate, reference, shares, FALSE, "cancels")
delete(stock_locate, reference) ==
  Remove(stock_locate, reference, 0, TRUE, "deletes")

replace(stock_locate, original, new, shares, price) ==
  /\ Applies(stock_locate)
  /\ original \in DOMAIN book.orders
  /\ ~Raises(book, original)
  /\ book' = InsertOrder(ReduceOrRemove(book, original, 0, TRUE),
                         new, book.orders[original].side, price, shares)
  /\ Tallied("replaces")
  /\ UNCHANGED <<resolved, locate, raised>>

trade(stock_locate) ==
  /\ Applies(stock_locate)
  /\ Tallied("trades")
  /\ UNCHANGED <<resolved, locate, book, raised>>

KeyError(stock_locate, reference) ==
  /\ Applies(stock_locate)
  /\ Raises(book, reference)
  /\ raised' = TRUE
  /\ UNCHANGED <<resolved, locate, book, tallies>>

directory(stock_locate, stock) ==
  /\ ~raised
  /\ ~resolved
  /\ stock = Target
  /\ locate' = stock_locate
  /\ resolved' = TRUE
  /\ UNCHANGED <<book, tallies, raised>>

Next ==
  \/ \E l \in Locate, s \in Stock : directory(l, s)
  \/ \E l \in Locate : trade(l)
  \/ \E l \in Locate, r \in OrderRef : delete(l, r) \/ KeyError(l, r)
  \/ \E l \in Locate, r \in OrderRef, n \in Shares : execute(l, r, n) \/ cancel(l, r, n)
  \/ \E l \in Locate, r \in OrderRef, s \in SideByte, p \in Price, n \in Shares :
       add(l, r, s, p, n)
  \/ \E l \in Locate, r \in OrderRef, new \in OrderRef, n \in Shares, p \in Price :
       replace(l, r, new, n, p)

Spec == Init /\ [][Next]_vars
=============================================================================
