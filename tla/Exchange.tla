------------------------------ MODULE Exchange ------------------------------
(***************************************************************************)
(* The session file's author.  The repository contains no exchange; this   *)
(* module states the rules the code relies on a Nasdaq session to follow:  *)
(* a reference is used once per session, adds and replaces carry shares,   *)
(* reductions never exceed what rests, and every message about an order    *)
(* carries the locate its add carried.  Locate 0 belongs to no symbol.     *)
(*                                                                         *)
(* A Stock Directory message may come at any time, more than once, and     *)
(* after orders of its symbol: the replay of a partial file sees that.     *)
(***************************************************************************)
EXTENDS Integers, Sequences, SequencesExt, Containers

VARIABLES
  live,     \* reference -> the order as the exchange holds it
  arrivals  \* the references in the order their orders joined a queue

ExchangeInit ==
  /\ live = EmptyMap
  /\ arrivals = <<>>

Enter(m, side) ==
  [locate |-> m.stock_locate, side |-> side, price |-> m.price, shares |-> m.shares]

Unused(reference) == ~Contains(arrivals, reference)

(* A message about a resting order of the message's own symbol.             *)
Concerns(m, reference) ==
  /\ reference \in DOMAIN live
  /\ live[reference].locate = m.stock_locate

SendAdd(m) ==
  /\ m.stock_locate # 0
  /\ Unused(m.order_reference)
  /\ m.shares > 0
  /\ m.side \in {"Buy", "Sell"}
  /\ live' = MapPut(live, m.order_reference, Enter(m, m.side))
  /\ arrivals' = Append(arrivals, m.order_reference)

SendReduction(m, shares) ==
  /\ Concerns(m, m.order_reference)
  /\ LET order == live[m.order_reference]
     IN  /\ shares \in 1 .. order.shares
         /\ live' = IF shares = order.shares
                      THEN MapErase(live, m.order_reference)
                      ELSE MapPut(live, m.order_reference,
                                  [order EXCEPT !.shares = @ - shares])
  /\ UNCHANGED arrivals

SendDelete(m) ==
  /\ Concerns(m, m.order_reference)
  /\ live' = MapErase(live, m.order_reference)
  /\ UNCHANGED arrivals

(* A replace keeps the side and loses its place in the queue.               *)
SendReplace(m) ==
  /\ Concerns(m, m.original_order_reference)
  /\ Unused(m.new_order_reference)
  /\ m.shares > 0
  /\ live' = MapPut(MapErase(live, m.original_order_reference), m.new_order_reference,
                    Enter(m, live[m.original_order_reference].side))
  /\ arrivals' = Append(arrivals, m.new_order_reference)

(* Trades, directories, system events: nothing rests or leaves.             *)
SendOther == UNCHANGED <<live, arrivals>>
=============================================================================
