------------------------------ MODULE OrderBook ------------------------------
(***************************************************************************)
(* The single-symbol, price-time-priority limit order book: class          *)
(* OrderBook of include/itch/order_book.hpp and src/order_book.cpp.        *)
(*                                                                         *)
(* Each on() overload is one action over the decoded message it receives.  *)
(* The book does not validate the feed, so this module lets ANY message of *)
(* the right shape arrive: references may repeat, a reduction may exceed   *)
(* what rests, an add may carry zero shares or a side byte that is neither *)
(* 'B' nor 'S'.  BookReplay restricts the messages to those of an exchange *)
(* that keeps its own rules.                                               *)
(*                                                                         *)
(* A std::list iterator is the address of a list node.  Node is the set of *)
(* addresses; an insertion takes any address no live node has, so a freed  *)
(* address may come back (as an allocator's does) and a stale iterator     *)
(* would silently name a different order.                                  *)
(***************************************************************************)
EXTENDS Integers, FiniteSets, Sequences, SequencesExt, Containers

CONSTANTS
  Locate,    \* stock_locate values (uint16); 0 is "not resolved yet"
  OrderRef,  \* order reference numbers (uint64, only ever compared)
  Price,     \* PriceTicks (uint32)
  Node,      \* list-node addresses; bounds how many orders can rest at once
  ShareMod,  \* uint32 share counts live modulo this (2^32 in the code)
  TotalMod,  \* uint64 level totals live modulo this (2^64 in the code)
  TallyMod,  \* uint64 statistics live modulo this (2^64 in the code)
  NDEBUG     \* TRUE: asserts compiled out (RelWithDebInfo); FALSE: Debug build

ASSUME LocateAssumption == Locate \subseteq Nat /\ 0 \in Locate
ASSUME PriceAssumption  == Price \subseteq Nat
ASSUME WidthAssumption  == /\ ShareMod \in Nat \ {0}
                           /\ TotalMod \in Nat \ {0}
                           /\ TallyMod \in Nat \ {0}
ASSUME BuildAssumption  == NDEBUG \in BOOLEAN

VARIABLES
  locate_,  \* the one locate this book accepts; 0 until set_locate
  book,     \* [levels: bids_ and asks_ by side, orders_: the reference index]
  stats_,   \* OrderBook::Stats
  aborted   \* an assert has fired in a Debug build: the process is gone

vars == <<locate_, book, stats_, aborted>>

-----------------------------------------------------------------------------
(* Types *)

Buy  == "Buy"
Sell == "Sell"
Side == {Buy, Sell}

(* What static_cast<Side>(byte) can leave in message.side when the assert   *)
(* on is_valid_side is compiled out.                                        *)
SideByte == Side \cup {"Other"}

Shares == 0 .. ShareMod - 1
Total  == 0 .. TotalMod - 1
Tally  == 0 .. TallyMod - 1

RestingOrder  == [node : Node, order_reference : OrderRef, shares : Shares]
PriceLevel    == [orders : Seq(RestingOrder), total_shares : Total]
OrderLocation == [side : Side, price : Price, position : Node]

IsBook(b) ==
  /\ b = [levels |-> b.levels, orders_ |-> b.orders_]
  /\ b.levels = [s \in Side |-> b.levels[s]]
  /\ \A s \in Side : IsMapOf(b.levels[s], Price, PriceLevel)
  /\ IsMapOf(b.orders_, OrderRef, OrderLocation)

StatNames == {"adds", "executions", "cancels", "deletes", "replaces", "trades"}

(* Decoded messages, reduced to the fields the book reads.                  *)
AddOrder         == [stock_locate : Locate, order_reference : OrderRef,
                     side : SideByte, shares : Shares, price : Price]
AddOrderWithMpid == [order : AddOrder, attribution : {"mpid"}]
OrderExecuted    == [stock_locate : Locate, order_reference : OrderRef,
                     executed_shares : Shares]
OrderExecutedWithPrice == [executed : OrderExecuted, execution_price : Price]
OrderCancel      == [stock_locate : Locate, order_reference : OrderRef,
                     cancelled_shares : Shares]
OrderDelete      == [stock_locate : Locate, order_reference : OrderRef]
OrderReplace     == [stock_locate : Locate, original_order_reference : OrderRef,
                     new_order_reference : OrderRef, shares : Shares, price : Price]

-----------------------------------------------------------------------------
(* Reading the containers *)

NoLevel   == [orders |-> <<>>, total_shares |-> 0]
EmptyBook == [levels |-> [s \in Side |-> EmptyMap], orders_ |-> EmptyMap]

(* operator[] on a price map: the level, default-constructed when missing.  *)
LevelAt(b, side, price) ==
  IF price \in DOMAIN b.levels[side] THEN b.levels[side][price] ELSE NoLevel

(* The addresses of all list nodes in the book.                             *)
LiveNodes(b) ==
  UNION {UNION {{b.levels[s][p].orders[i].node : i \in DOMAIN b.levels[s][p].orders}
                : p \in DOMAIN b.levels[s]} : s \in Side}

FreeNodes(b) == Node \ LiveNodes(b)

(* Where in `queue` the node an iterator names is.                          *)
PositionIn(queue, position) ==
  CHOOSE i \in DOMAIN queue : queue[i].node = position

-----------------------------------------------------------------------------
(* The two private mutators, as functions from a book to a book.  The       *)
(* operators named Slip... are deviations from the definition that follows  *)
(* them, which the checks must notice.                                      *)

SlipPushFront(queue, order) == <<order>> \o queue
push_back(queue, order) == Append(queue, order)

insert_order(b, side, reference, price, shares, node) ==
  LET level == LevelAt(b, side, price)
      added == [node |-> node, order_reference |-> reference, shares |-> shares]
  IN  [levels  |-> [b.levels EXCEPT ![side] = MapPut(@, price,
                      [orders       |-> push_back(level.orders, added),
                       total_shares |-> (level.total_shares + shares) % TotalMod])],
       orders_ |-> Emplace(b.orders_, reference,
                      [side |-> side, price |-> price, position |-> node])]

reduce_or_remove_in(b, location, reference, shares_removed, remove_all) ==
  LET levels  == b.levels[location.side]
      level   == levels[location.price]
      at      == PositionIn(level.orders, location.position)
      resting == level.orders[at]
      removed == IF remove_all THEN resting.shares ELSE shares_removed
      left    == (resting.shares - removed) % ShareMod
      total   == (level.total_shares - removed) % TotalMod
      gone    == remove_all \/ left = 0
      queue   == IF gone THEN RemoveAt(level.orders, at)
                         ELSE ReplaceAt(level.orders, at, [resting EXCEPT !.shares = left])
  IN  [levels  |-> [b.levels EXCEPT ![location.side] =
                      IF queue = <<>>
                        THEN MapErase(levels, location.price)
                        ELSE MapPut(levels, location.price,
                                    [orders |-> queue, total_shares |-> total])],
       orders_ |-> IF gone THEN MapErase(b.orders_, reference) ELSE b.orders_]

(* orders_.erase(reference) forgotten.                                      *)
SlipKeepReference(b, reference, shares_removed, remove_all) ==
  IF reference \in DOMAIN b.orders_
    THEN [reduce_or_remove_in(b, b.orders_[reference], reference, shares_removed, remove_all)
            EXCEPT !.orders_ = b.orders_]
    ELSE b

(* levels.erase(level_it) forgotten.                                        *)
SlipKeepLevel(b, reference, shares_removed, remove_all) ==
  IF reference \in DOMAIN b.orders_
    THEN LET at == b.orders_[reference]
         IN  [reduce_or_remove_in(b, at, reference, shares_removed, remove_all)
                EXCEPT !.levels[at.side] =
                  IF at.price \in DOMAIN @ THEN @ ELSE MapPut(@, at.price, NoLevel)]
    ELSE b

reduce_or_remove(b, reference, shares_removed, remove_all) ==
  IF reference \in DOMAIN b.orders_
    THEN reduce_or_remove_in(b, b.orders_[reference], reference, shares_removed, remove_all)
    ELSE b

(* assert(removed <= resting.shares) left out.                              *)
SlipNoShareAssert(b, reference, shares_removed) ==
  reference \in DOMAIN b.orders_ =>
    b.orders_[reference].price \in DOMAIN b.levels[b.orders_[reference].side]

(* The asserts reduce_or_remove_in makes on the way, for a reduction.  With *)
(* remove_all the second compares resting.shares with itself, and the first *)
(* holds while IteratorsNeverDangle does, so a delete or a replace cannot   *)
(* be what aborts.                                                          *)
ReductionAsserts(b, reference, shares_removed) ==
  reference \in DOMAIN b.orders_ =>
    LET location == b.orders_[reference]
        level    == b.levels[location.side][location.price]
    IN  /\ location.price \in DOMAIN b.levels[location.side]
        /\ shares_removed <= level.orders[PositionIn(level.orders, location.position)].shares

-----------------------------------------------------------------------------
(* Accessors *)

(* bids_ declared without std::greater.                                     *)
SlipAscending(side, prices) == Min(prices)

(* *bids_.begin(): bids_ is sorted by std::greater, asks_ by std::less.     *)
BestPrice(side, prices) == IF side = Buy THEN Max(prices) ELSE Min(prices)

(* best_bid() and best_ask(): a set with at most one level, the nullopt     *)
(* being the empty set.                                                     *)
Best(b, side) ==
  LET levels == b.levels[side]
  IN  IF DOMAIN levels = {} THEN {}
      ELSE LET price == BestPrice(side, DOMAIN levels)
           IN  {[price |-> price, shares |-> levels[price].total_shares]}

order_count(b) == Cardinality(DOMAIN b.orders_)

(* The walk check_rep makes over one queue.                                 *)
SumShares(queue) ==
  LET sum[i \in 0 .. Len(queue)] ==
        IF i = 0 THEN 0 ELSE sum[i - 1] + queue[i].shares
  IN  sum[Len(queue)]

LevelTotalExact(level) == level.total_shares = SumShares(level.orders) % TotalMod

CheckSide(b, side) ==
  \A price \in DOMAIN b.levels[side] :
    LET level == b.levels[side][price]
    IN  /\ level.orders # <<>>
        /\ \A i \in DOMAIN level.orders :
             LET resting == level.orders[i]
             IN  /\ resting.order_reference \in DOMAIN b.orders_
                 /\ b.orders_[resting.order_reference] =
                      [side |-> side, price |-> price, position |-> resting.node]
        /\ LevelTotalExact(level)

(* total_orders: how many list nodes the walk visits.                       *)
QueuedOrders(b) ==
  LET OnSide(s) == MapThenSumSet(LAMBDA p : Len(b.levels[s][p].orders),
                                 DOMAIN b.levels[s])
  IN  OnSide(Buy) + OnSide(Sell)

(* The final comparison of counts left out.                                 *)
SlipNoCount(b) == CheckSide(b, Buy) /\ CheckSide(b, Sell)

check_rep(b) ==
  /\ CheckSide(b, Buy)
  /\ CheckSide(b, Sell)
  /\ QueuedOrders(b) = order_count(b)

-----------------------------------------------------------------------------
(* Actions: one per public mutator *)

Init ==
  /\ locate_ = 0
  /\ book = EmptyBook
  /\ stats_ = [n \in StatNames |-> 0]
  /\ aborted = FALSE

Count(name) == stats_' = [stats_ EXCEPT ![name] = (@ + 1) % TallyMod]

(* An assert whose condition is false: nothing happens in a build without   *)
(* asserts, the process dies in one that has them.                          *)
AssertFails(condition) ==
  /\ ~NDEBUG
  /\ ~condition
  /\ aborted' = TRUE
  /\ UNCHANGED <<locate_, book, stats_>>

AssertPasses(condition) == (NDEBUG \/ condition) /\ UNCHANGED aborted

set_locate(locate) ==
  /\ ~aborted
  /\ LET asserted == locate_ = 0 /\ locate # 0
     IN  \/ /\ AssertPasses(asserted)
            /\ locate_' = locate
            /\ UNCHANGED <<book, stats_>>
         \/ AssertFails(asserted)

(* The locate comparison every mutator starts with.                         *)
Accepts(message) == ~aborted /\ message.stock_locate = locate_

(* OrderLocation given message.side as it came.                             *)
SlipRawSide(message) ==
  /\ Accepts(message)
  /\ message.order_reference \notin DOMAIN book.orders_
  /\ \E node \in FreeNodes(book) :
       book' = [insert_order(book, IF message.side = Buy THEN Buy ELSE Sell,
                             message.order_reference, message.price, message.shares, node)
                  EXCEPT !.orders_[message.order_reference].side = message.side]
  /\ Count("adds")
  /\ UNCHANGED <<locate_, aborted>>

OnAddOrder(message) ==
  /\ Accepts(message)
  /\ \E node \in FreeNodes(book) :
       book' = insert_order(book, IF message.side = Buy THEN Buy ELSE Sell,
                            message.order_reference, message.price,
                            message.shares, node)
  /\ Count("adds")
  /\ UNCHANGED <<locate_, aborted>>

OnAddOrderWithMpid(message) == OnAddOrder(message.order)

ReduceShares(reference, shares_removed, stat) ==
  LET asserted == ReductionAsserts(book, reference, shares_removed)
  IN  \/ /\ AssertPasses(asserted)
         /\ book' = reduce_or_remove(book, reference, shares_removed, FALSE)
         /\ Count(stat)
         /\ UNCHANGED locate_
      \/ AssertFails(asserted)

OnOrderExecuted(message) ==
  /\ Accepts(message)
  /\ ReduceShares(message.order_reference, message.executed_shares, "executions")

OnOrderExecutedWithPrice(message) == OnOrderExecuted(message.executed)

OnOrderCancel(message) ==
  /\ Accepts(message)
  /\ ReduceShares(message.order_reference, message.cancelled_shares, "cancels")

OnOrderDelete(message) ==
  /\ Accepts(message)
  /\ book' = reduce_or_remove(book, message.order_reference, 0, TRUE)
  /\ Count("deletes")
  /\ UNCHANGED <<locate_, aborted>>

(* An unknown original reference returns before anything is counted.        *)
OnOrderReplace(message) ==
  /\ Accepts(message)
  /\ message.original_order_reference \in DOMAIN book.orders_
  /\ LET side    == book.orders_[message.original_order_reference].side
         without == reduce_or_remove(book, message.original_order_reference, 0, TRUE)
     IN  \E node \in FreeNodes(without) :
           book' = insert_order(without, side, message.new_order_reference,
                                message.price, message.shares, node)
  /\ Count("replaces")
  /\ UNCHANGED <<locate_, aborted>>

(* ++stats_.replaces moved above the lookup.                                *)
SlipCountUnknown(message) ==
  /\ Accepts(message)
  /\ message.original_order_reference \notin DOMAIN book.orders_
  /\ Count("replaces")
  /\ UNCHANGED <<locate_, book, aborted>>

OnUnknownReplace(message) ==
  /\ Accepts(message)
  /\ message.original_order_reference \notin DOMAIN book.orders_
  /\ UNCHANGED vars

(* A non-cross trade has no book effect.                                    *)
OnTradeNonCross(locate) ==
  /\ ~aborted
  /\ locate = locate_
  /\ Count("trades")
  /\ UNCHANGED <<locate_, book, aborted>>

(* A message about an order or a trade that carries another locate.         *)
OnOtherLocate(locate) ==
  /\ ~aborted
  /\ locate # locate_
  /\ UNCHANGED vars

(* System events, directories and undecoded types, whatever their locate.   *)
OnNoBookEffect == ~aborted /\ UNCHANGED vars

Next ==
  \/ \E locate \in Locate : set_locate(locate)
  \/ \E m \in AddOrder : OnAddOrder(m)
  \/ \E m \in AddOrderWithMpid : OnAddOrderWithMpid(m)
  \/ \E m \in OrderExecuted : OnOrderExecuted(m)
  \/ \E m \in OrderExecutedWithPrice : OnOrderExecutedWithPrice(m)
  \/ \E m \in OrderCancel : OnOrderCancel(m)
  \/ \E m \in OrderDelete : OnOrderDelete(m)
  \/ \E m \in OrderReplace : OnOrderReplace(m)
  \/ \E m \in OrderReplace : OnUnknownReplace(m)
  \/ \E locate \in Locate : OnTradeNonCross(locate)
  \/ \E locate \in Locate : OnOtherLocate(locate)
  \/ OnNoBookEffect

Spec == Init /\ [][Next]_vars

-----------------------------------------------------------------------------
(* Properties *)

TypeOK ==
  /\ locate_ \in Locate
  /\ IsBook(book)
  /\ stats_ \in [StatNames -> Tally]
  /\ aborted \in BOOLEAN

(* Every list node has its own address.                                     *)
NodesUnique(b) ==
  \A s, t \in Side : \A p \in DOMAIN b.levels[s], q \in DOMAIN b.levels[t] :
    \A i \in DOMAIN b.levels[s][p].orders, j \in DOMAIN b.levels[t][q].orders :
      b.levels[s][p].orders[i].node = b.levels[t][q].orders[j].node
        => s = t /\ p = q /\ i = j

(* The iterator recorded for a reference is that of a node still in the     *)
(* queue the record names, and the node is that reference's.                *)
PositionsLive(b) ==
  \A r \in DOMAIN b.orders_ :
    LET at == b.orders_[r]
    IN  /\ at.price \in DOMAIN b.levels[at.side]
        /\ \E i \in DOMAIN b.levels[at.side][at.price].orders :
             LET resting == b.levels[at.side][at.price].orders[i]
             IN  resting.node = at.position /\ resting.order_reference = r

NoEmptyLevel(b) ==
  \A s \in Side : \A p \in DOMAIN b.levels[s] : b.levels[s][p].orders # <<>>

TotalsExact(b) ==
  \A s \in Side : \A p \in DOMAIN b.levels[s] : LevelTotalExact(b.levels[s][p])

(* No list node is missing from the reference index.                        *)
NoOrphan(b) ==
  \A s \in Side : \A p \in DOMAIN b.levels[s] :
    \A i \in DOMAIN b.levels[s][p].orders :
      LET resting == b.levels[s][p].orders[i]
      IN  /\ resting.order_reference \in DOMAIN b.orders_
          /\ b.orders_[resting.order_reference].position = resting.node

(***************************************************************************)
(* Whatever messages arrive, in a build with or without asserts, no        *)
(* iterator in orders_ ever dangles: *location.position and                *)
(* level.orders.erase(location.position) in reduce_or_remove_in always     *)
(* touch the live node of the reference being reduced, in the level that   *)
(* find(location.price) returns, even when references repeat and freed     *)
(* addresses are reused.                                                   *)
(***************************************************************************)
IteratorsNeverDangle == PositionsLive(book) /\ NodesUnique(book)

(***************************************************************************)
(* Whatever messages arrive, a level is erased with its last order, so     *)
(* best_bid and best_ask, which look only at begin(), never report a price *)
(* at which nothing rests.                                                 *)
(***************************************************************************)
BestHasOrders == NoEmptyLevel(book)

(***************************************************************************)
(* With asserts compiled in, total_shares is the sum of the queue after    *)
(* every message of every feed: the assert in reduce_or_remove_in is what  *)
(* keeps a 32-bit share count and a 64-bit total from wrapping apart.      *)
(***************************************************************************)
AssertsKeepTotals == ~NDEBUG => TotalsExact(book)

(***************************************************************************)
(* "Every on() is a no-op until set_locate() has run" (order_book.hpp).    *)
(***************************************************************************)
NoOpUntilSetLocate ==
  locate_ = 0 => book = EmptyBook /\ stats_ = [n \in StatNames |-> 0]

=============================================================================
