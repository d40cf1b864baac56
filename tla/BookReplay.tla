----------------------------- MODULE BookReplay -----------------------------
(***************************************************************************)
(* tools/book_replay.cpp: BookReplayHandler in front of an OrderBook, fed  *)
(* with the session of an exchange that keeps its rules.  Every action is  *)
(* one record of the session, sent by the exchange and taken all the way   *)
(* through the handler and the book.                                       *)
(*                                                                         *)
(* The handler learns which locate to follow from the first Stock          *)
(* Directory message of its symbol.  Orders that entered before that never *)
(* reach the book, and nor does the order a replace makes of one of them:  *)
(* `missed` remembers which.                                               *)
(***************************************************************************)
EXTENDS OrderBook, Exchange

CONSTANTS
  Stock,    \* symbols, as trim() leaves them
  symbol_,  \* the one being replayed
  StockOf,  \* which symbol each locate other than 0 stands for
  MaxTrades \* bound: how many trades are counted before no more are sent

ASSUME StockAssumption == StockOf \in [Locate \ {0} -> Stock]
ASSUME MaxTradesAssumption == MaxTrades \in Nat

VARIABLES
  resolved_,  \* BookReplayHandler::resolved_
  missed      \* history: references the book never saw enter

replayVars == <<locate_, book, stats_, aborted, live, arrivals, resolved_, missed>>

ReplayInit ==
  /\ Init
  /\ ExchangeInit
  /\ resolved_ = FALSE
  /\ missed = {}

-----------------------------------------------------------------------------
ReplayAdd(m) ==
  /\ SendAdd(m)
  /\ OnAddOrder(m) \/ OnOtherLocate(m.stock_locate)
  /\ missed' = IF resolved_ THEN missed ELSE missed \cup {m.order_reference}
  /\ UNCHANGED resolved_

ReplayAddWithMpid(m) ==
  /\ SendAdd(m.order)
  /\ OnAddOrderWithMpid(m) \/ OnOtherLocate(m.order.stock_locate)
  /\ missed' = IF resolved_ THEN missed ELSE missed \cup {m.order.order_reference}
  /\ UNCHANGED resolved_

ReplayExecuted(m) ==
  /\ SendReduction(m, m.executed_shares)
  /\ OnOrderExecuted(m) \/ OnOtherLocate(m.stock_locate)
  /\ UNCHANGED <<resolved_, missed>>

ReplayExecutedWithPrice(m) ==
  /\ SendReduction(m.executed, m.executed.executed_shares)
  /\ OnOrderExecutedWithPrice(m) \/ OnOtherLocate(m.executed.stock_locate)
  /\ UNCHANGED <<resolved_, missed>>

ReplayCancel(m) ==
  /\ SendReduction(m, m.cancelled_shares)
  /\ OnOrderCancel(m) \/ OnOtherLocate(m.stock_locate)
  /\ UNCHANGED <<resolved_, missed>>

ReplayDelete(m) ==
  /\ SendDelete(m)
  /\ OnOrderDelete(m) \/ OnOtherLocate(m.stock_locate)
  /\ UNCHANGED <<resolved_, missed>>

ReplayReplace(m) ==
  /\ SendReplace(m)
  /\ OnOrderReplace(m) \/ OnUnknownReplace(m) \/ OnOtherLocate(m.stock_locate)
  /\ missed' = IF resolved_ /\ m.original_order_reference \notin missed
                 THEN missed ELSE missed \cup {m.new_order_reference}
  /\ UNCHANGED resolved_

ReplayTrade(locate) ==
  /\ SendOther
  /\ locate # 0
  /\ stats_["trades"] < MaxTrades
  /\ OnTradeNonCross(locate) \/ OnOtherLocate(locate)
  /\ UNCHANGED <<resolved_, missed>>

(* The test of resolved_ left out.                                          *)
SlipResolveAgain(locate) ==
  IF StockOf[locate] = symbol_
    THEN set_locate(locate) /\ resolved_' = TRUE
    ELSE OnNoBookEffect /\ UNCHANGED resolved_

(* BookReplayHandler::on(const StockDirectory&)                             *)
OnStockDirectory(locate) ==
  IF ~resolved_ /\ StockOf[locate] = symbol_
    THEN set_locate(locate) /\ resolved_' = TRUE
    ELSE OnNoBookEffect /\ UNCHANGED resolved_

ReplayDirectory(locate) ==
  /\ SendOther
  /\ locate # 0
  /\ OnStockDirectory(locate)
  /\ UNCHANGED missed

ReplayOther ==
  /\ SendOther
  /\ OnNoBookEffect
  /\ UNCHANGED <<resolved_, missed>>

ReplayNext ==
  \/ \E m \in AddOrder : ReplayAdd(m)
  \/ \E m \in AddOrderWithMpid : ReplayAddWithMpid(m)
  \/ \E m \in OrderExecuted : ReplayExecuted(m)
  \/ \E m \in OrderExecutedWithPrice : ReplayExecutedWithPrice(m)
  \/ \E m \in OrderCancel : ReplayCancel(m)
  \/ \E m \in OrderDelete : ReplayDelete(m)
  \/ \E m \in OrderReplace : ReplayReplace(m)
  \/ \E locate \in Locate : ReplayTrade(locate)
  \/ \E locate \in Locate : ReplayDirectory(locate)
  \/ ReplayOther

ReplaySpec == ReplayInit /\ [][ReplayNext]_replayVars

-----------------------------------------------------------------------------
(* Properties *)

(* The exchange's orders that the book is meant to hold.                    *)
Followed == {r \in DOMAIN live : /\ resolved_
                                 /\ live[r].locate = locate_
                                 /\ r \notin missed}

FollowedAt(side, price) ==
  {r \in Followed : live[r].side = side /\ live[r].price = price}

(* r precedes s in a sequence without repetitions.                          *)
Before(sequence, r, s) ==
  \E i, j \in DOMAIN sequence : i < j /\ sequence[i] = r /\ sequence[j] = s

(***************************************************************************)
(* On a session whose exchange keeps its rules, check_rep() would return   *)
(* true after every record, wherever in the session the directory message  *)
(* stands: the audit the tests call holds throughout a replay.             *)
(***************************************************************************)
RepHolds == check_rep(book)

(***************************************************************************)
(* On such a session none of the asserts in set_locate or                  *)
(* reduce_or_remove_in fires in a Debug build, although nothing in the     *)
(* code checks the feed first.                                             *)
(***************************************************************************)
NeverAborts == ~aborted

(***************************************************************************)
(* Price-time priority: at every price of either side, the queue holds     *)
(* exactly the exchange's live orders there, with their remaining shares,  *)
(* in the order in which they joined it.  A partial execution or cancel    *)
(* keeps an order's place; a replace, even at its old price, goes to the   *)
(* back.                                                                   *)
(***************************************************************************)
QueuesMirrorExchange ==
  \A side \in Side, price \in Price :
    LET queue        == LevelAt(book, side, price).orders
        reference(i) == queue[i].order_reference
    IN  /\ {reference(i) : i \in DOMAIN queue} = FollowedAt(side, price)
        /\ \A i \in DOMAIN queue : queue[i].shares = live[reference(i)].shares
        /\ \A i, j \in DOMAIN queue : i < j => Before(arrivals, reference(i), reference(j))

(***************************************************************************)
(* best_bid() is the exchange's highest live bid and best_ask() its lowest *)
(* live ask, each with all the shares that rest there, and nullopt exactly *)
(* when that side is empty.                                                *)
(***************************************************************************)
TopOfBook ==
  \A side \in Side :
    LET prices == {live[r].price : r \in {x \in Followed : live[x].side = side}}
    IN  IF prices = {} THEN Best(book, side) = {}
        ELSE \E best \in Best(book, side) :
               /\ best.price \in prices
               /\ \A p \in prices : IF side = Buy THEN p <= best.price ELSE best.price <= p
               /\ best.shares = MapThenSumSet(LAMBDA r : live[r].shares,
                                              FollowedAt(side, best.price))

(* What the reference script would hold: no queues and no iterators.        *)
RefOrders ==
  [r \in DOMAIN book.orders_ |->
     LET at    == book.orders_[r]
         queue == book.levels[at.side][at.price].orders
     IN  [side   |-> at.side,
          price  |-> at.price,
          shares |-> queue[PositionIn(queue, at.position)].shares]]

RefLevels ==
  [s \in Side |-> [p \in DOMAIN book.levels[s] |-> book.levels[s][p].total_shares]]

Reference == INSTANCE ReferenceBook WITH
  Target   <- symbol_,
  resolved <- resolved_,
  locate   <- locate_,
  book     <- [orders |-> RefOrders, levels |-> RefLevels],
  tallies  <- stats_,
  raised   <- FALSE

(***************************************************************************)
(* The C++ replay implements the reference script: record by record the    *)
(* two hold the same orders, levels and tallies, the script never meets a  *)
(* KeyError, and so the summaries the two tools print agree.               *)
(***************************************************************************)
RefinesReference == Reference!Spec
=============================================================================
