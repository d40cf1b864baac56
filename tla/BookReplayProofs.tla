-------------------------- MODULE BookReplayProofs --------------------------
(***************************************************************************)
(* A replay of any session of an exchange that keeps its rules: the book   *)
(* and the exchange hold the same orders, so nothing asserts and every     *)
(* query is right, for every number of symbols, references, prices and     *)
(* orders at rest.                                                         *)
(***************************************************************************)
EXTENDS BookReplay, OrderBookProofs

-----------------------------------------------------------------------------
(* Books and what they mirror *)

GoodBook(b) == BookInv(b) /\ NoOrphan(b) /\ TotalsExact(b) /\ FiniteBook(b)

RefAt(b, s, p, i) == OrderAt(b, s, p, i).order_reference

(* The book holds the orders named in `held`, as `orders` describes them.   *)
Mirrors(b, held, orders) ==
  /\ DOMAIN b.orders_ = held
  /\ \A s \in Side : \A p, i : Slot(b, s, p, i) =>
       /\ RefAt(b, s, p, i) \in held
       /\ orders[RefAt(b, s, p, i)].side = s
       /\ orders[RefAt(b, s, p, i)].price = p
       /\ orders[RefAt(b, s, p, i)].shares = OrderAt(b, s, p, i).shares

(* Every queue is in the order of `joined`.                                 *)
InOrder(b, joined) ==
  \A s \in Side : \A p, i, j :
    Slot(b, s, p, i) /\ Slot(b, s, p, j) /\ i < j
      => Before(joined, RefAt(b, s, p, i), RefAt(b, s, p, j))

(* NoOrphan, in terms of places. *)
LEMMA OrphanSlots ==
  ASSUME NEW b
  PROVE  NoOrphan(b) <=>
           \A s \in Side : \A p, i : Slot(b, s, p, i) =>
             /\ RefAt(b, s, p, i) \in DOMAIN b.orders_
             /\ b.orders_[RefAt(b, s, p, i)].position = OrderAt(b, s, p, i).node
  <1>1. ASSUME NoOrphan(b), NEW s \in Side, NEW p, NEW i, Slot(b, s, p, i)
        PROVE  /\ RefAt(b, s, p, i) \in DOMAIN b.orders_
               /\ b.orders_[RefAt(b, s, p, i)].position = OrderAt(b, s, p, i).node
    BY <1>1 DEF NoOrphan, Slot, OrderAt, RefAt
  <1>2. ASSUME \A s \in Side : \A p, i : Slot(b, s, p, i) =>
                 /\ RefAt(b, s, p, i) \in DOMAIN b.orders_
                 /\ b.orders_[RefAt(b, s, p, i)].position = OrderAt(b, s, p, i).node,
               NEW s \in Side, NEW p \in DOMAIN b.levels[s], NEW i \in DOMAIN b.levels[s][p].orders
        PROVE  /\ b.levels[s][p].orders[i].order_reference \in DOMAIN b.orders_
               /\ b.orders_[b.levels[s][p].orders[i].order_reference].position
                    = b.levels[s][p].orders[i].node
    <2>1. Slot(b, s, p, i) /\ OrderAt(b, s, p, i) = b.levels[s][p].orders[i]
      BY DEF Slot, OrderAt
    <2> QED
      BY <1>2, <2>1 DEF RefAt
  <1> QED
    BY <1>1, <1>2 DEF NoOrphan

(* Places are numbered. *)
LEMMA SlotNumber ==
  ASSUME NEW b, IsBook(b), NEW s \in Side, NEW p, NEW i, Slot(b, s, p, i)
  PROVE  i \in Nat
  <1>1. DOMAIN b.levels[s][p].orders = 1 .. Len(b.levels[s][p].orders)
    BY LevelFacts DEF Slot
  <1> QED
    BY <1>1 DEF Slot

(* In a good book a reference has one place, and its record says where. *)
LEMMA PlaceFacts ==
  ASSUME NEW b, GoodBook(b)
  PROVE  /\ \A s \in Side : \A p, i : Slot(b, s, p, i) =>
              /\ RefAt(b, s, p, i) \in DOMAIN b.orders_
              /\ b.orders_[RefAt(b, s, p, i)].side = s
              /\ b.orders_[RefAt(b, s, p, i)].price = p
              /\ PlaceOf(b, RefAt(b, s, p, i)) = i
         /\ \A r \in DOMAIN b.orders_ :
              /\ b.orders_[r].side \in Side
              /\ Slot(b, b.orders_[r].side, b.orders_[r].price, PlaceOf(b, r))
              /\ RefAt(b, b.orders_[r].side, b.orders_[r].price, PlaceOf(b, r)) = r
  <1>1. BookInv(b) /\ IsBook(b) /\ NodesUnique(b) /\ PositionsLive(b) /\ NoOrphan(b)
    BY DEF GoodBook, BookInv
  <1>2. Indexed(b)
    BY <1>1, IndexExact
  <1>3. ASSUME NEW r \in DOMAIN b.orders_
        PROVE  /\ b.orders_[r].side \in Side
               /\ Slot(b, b.orders_[r].side, b.orders_[r].price, PlaceOf(b, r))
               /\ RefAt(b, b.orders_[r].side, b.orders_[r].price, PlaceOf(b, r)) = r
               /\ OrderAt(b, b.orders_[r].side, b.orders_[r].price, PlaceOf(b, r)).node
                    = b.orders_[r].position
    BY <1>1, PositionFacts DEF Slot, RefAt, OrderAt, QueueOf
  <1>4. ASSUME NEW s \in Side, NEW p, NEW i, Slot(b, s, p, i)
        PROVE  /\ RefAt(b, s, p, i) \in DOMAIN b.orders_
               /\ b.orders_[RefAt(b, s, p, i)].side = s
               /\ b.orders_[RefAt(b, s, p, i)].price = p
               /\ PlaceOf(b, RefAt(b, s, p, i)) = i
    <2> DEFINE r == RefAt(b, s, p, i)
    <2>1. /\ r \in DOMAIN b.orders_
          /\ b.orders_[r] = [side |-> s, price |-> p, position |-> OrderAt(b, s, p, i).node]
      BY <1>2, <1>4 DEF Indexed, RefAt
    <2> HIDE DEF r
    <2>2. /\ b.orders_[r].side = s
          /\ b.orders_[r].price = p
          /\ b.orders_[r].position = OrderAt(b, s, p, i).node
      BY <2>1
    <2>3. Slot(b, s, p, PlaceOf(b, r)) /\ OrderAt(b, s, p, PlaceOf(b, r)).node = OrderAt(b, s, p, i).node
      BY <1>3, <2>1, <2>2
    <2>4. PlaceOf(b, r) = i
      BY <1>1, <1>4, <2>3, SameSlot
    <2> QED
      BY <2>1, <2>2, <2>4 DEF r
  <1> QED
    BY <1>3, <1>4

-----------------------------------------------------------------------------
(* insert_order *)

(* Inserting an order the index does not know keeps a book good. *)
LEMMA InsertGood ==
  ASSUME NEW b, GoodBook(b),
         NEW side \in Side, NEW reference \in OrderRef \ DOMAIN b.orders_, NEW price \in Price,
         NEW shares \in Shares, NEW node \in FreeNodes(b),
         NEW c, c = insert_order(b, side, reference, price, shares, node)
  PROVE  /\ GoodBook(c)
         /\ DOMAIN c.orders_ = DOMAIN b.orders_ \cup {reference}
         /\ \E last : SlotsAdded(b, c, side, price, last,
                        [node |-> node, order_reference |-> reference, shares |-> shares])
  <1> DEFINE location == [side |-> side, price |-> price, position |-> node]
             added == [node |-> node, order_reference |-> reference, shares |-> shares]
  <1>1. /\ BookInv(b) /\ IsBook(b) /\ NoOrphan(b) /\ TotalsExact(b) /\ FiniteBook(b)
        /\ node \in Node
    BY FreeSlots DEF GoodBook, BookInv
  <1>2. BookInv(c)
    BY <1>1, InsertPreserves
  <1>3. TotalsExact(c)
    BY <1>1, InsertTotals
  <1>4. PICK last : SlotsAdded(b, c, side, price, last, added)
    BY <1>1, InsertSlots
  <1>5. /\ DOMAIN c.levels[side] = DOMAIN b.levels[side] \cup {price}
        /\ \A s \in Side \ {side} : c.levels[s] = b.levels[s]
        /\ c.orders_ = Emplace(b.orders_, reference, location)
    <2> HIDE DEF location, added
    <2>1. /\ location = [side |-> side, price |-> price, position |-> node]
          /\ added = [node |-> node, order_reference |-> reference, shares |-> shares]
      BY DEF location, added
    <2> QED
      BY <1>1, <2>1, InsertShape
  <1>6. /\ DOMAIN c.orders_ = DOMAIN b.orders_ \cup {reference}
        /\ \A r \in DOMAIN b.orders_ : c.orders_[r] = b.orders_[r]
        /\ c.orders_[reference].position = node
    <2> DEFINE index == b.orders_
    <2>1. reference \notin DOMAIN index
      OBVIOUS
    <2> HIDE DEF location, index
    <2>2. /\ DOMAIN MapPut(index, reference, location) = DOMAIN index \cup {reference}
          /\ \A r \in DOMAIN index : MapPut(index, reference, location)[r] = index[r]
          /\ MapPut(index, reference, location)[reference] = location
      BY <2>1 DEF MapPut
    <2>3. c.orders_ = MapPut(index, reference, location)
      BY <1>5, <2>1 DEF Emplace, index
    <2>4. location.position = node
      BY DEF location
    <2> QED
      BY <2>2, <2>3, <2>4 DEF index
  <1>7. FiniteBook(c)
    <2>1. IsFiniteSet(DOMAIN b.levels[side] \cup {price}) /\ IsFiniteSet(DOMAIN b.orders_ \cup {reference})
      BY <1>1, FS_AddElement DEF FiniteBook
    <2> QED
      BY <1>1, <1>5, <1>6, <2>1 DEF FiniteBook
  <1>8. NoOrphan(c)
    <2>1. ASSUME NEW s \in Side, NEW p, NEW i, Slot(c, s, p, i)
          PROVE  /\ RefAt(c, s, p, i) \in DOMAIN c.orders_
                 /\ c.orders_[RefAt(c, s, p, i)].position = OrderAt(c, s, p, i).node
      <3>1. CASE s = side /\ p = price /\ i = last
        <4>1. OrderAt(c, s, p, i) = added
          BY <1>4, <3>1 DEF SlotsAdded
        <4>2. RefAt(c, s, p, i) = reference /\ OrderAt(c, s, p, i).node = node
          BY <4>1 DEF RefAt
        <4> QED
          BY <1>6, <4>2
      <3>2. CASE ~(s = side /\ p = price /\ i = last)
        <4>1. Slot(b, s, p, i) /\ OrderAt(c, s, p, i) = OrderAt(b, s, p, i)
          BY <1>4, <2>1, <3>2 DEF SlotsAdded
        <4>2. /\ RefAt(b, s, p, i) \in DOMAIN b.orders_
              /\ b.orders_[RefAt(b, s, p, i)].position = OrderAt(b, s, p, i).node
          BY <1>1, <4>1, OrphanSlots
        <4> QED
          BY <1>6, <4>1, <4>2 DEF RefAt
      <3> QED
        BY <3>1, <3>2
    <2> QED
      BY <2>1, OrphanSlots
  <1> QED
    BY <1>2, <1>3, <1>4, <1>6, <1>7, <1>8 DEF GoodBook

(* `held` with one more order.                                              *)
JoinedBy(held, orders, r, side, price, shares, now, after) ==
  /\ now = held \cup {r}
  /\ \A t \in held : after[t] = orders[t]
  /\ after[r].side = side /\ after[r].price = price /\ after[r].shares = shares

(* The new order joins what the book mirrors, behind all others. *)
LEMMA InsertMirrors ==
  ASSUME NEW b, NEW c, NEW side \in Side, NEW price, NEW last, NEW added,
         SlotsAdded(b, c, side, price, last, added),
         NEW reference, reference = added.order_reference,
         DOMAIN c.orders_ = DOMAIN b.orders_ \cup {reference},
         NEW held, NEW orders, Mirrors(b, held, orders), NEW now, NEW after,
         JoinedBy(held, orders, reference, side, price, added.shares, now, after)
  PROVE  Mirrors(c, now, after)
  <1> USE DEF JoinedBy
  <1>1. ASSUME NEW s \in Side, NEW p, NEW i, Slot(c, s, p, i)
        PROVE  /\ RefAt(c, s, p, i) \in now
               /\ after[RefAt(c, s, p, i)].side = s
               /\ after[RefAt(c, s, p, i)].price = p
               /\ after[RefAt(c, s, p, i)].shares = OrderAt(c, s, p, i).shares
    <2>1. CASE s = side /\ p = price /\ i = last
      <3>1. OrderAt(c, s, p, i) = added
        BY <2>1 DEF SlotsAdded
      <3> QED
        BY <2>1, <3>1 DEF RefAt
    <2>2. CASE ~(s = side /\ p = price /\ i = last)
      <3>1. Slot(b, s, p, i) /\ OrderAt(c, s, p, i) = OrderAt(b, s, p, i)
        BY <1>1, <2>2 DEF SlotsAdded
      <3>2. /\ RefAt(b, s, p, i) \in held
            /\ orders[RefAt(b, s, p, i)].side = s
            /\ orders[RefAt(b, s, p, i)].price = p
            /\ orders[RefAt(b, s, p, i)].shares = OrderAt(b, s, p, i).shares
        BY <3>1 DEF Mirrors
      <3> QED
        BY <3>1, <3>2 DEF RefAt
    <2> QED
      BY <2>1, <2>2
  <1>2. DOMAIN c.orders_ = now
    BY DEF Mirrors
  <1> QED
    BY <1>1, <1>2 DEF Mirrors

(* What was before stays before when a sequence grows. *)
LEMMA BeforeGrows ==
  ASSUME NEW S, NEW joined \in Seq(S), NEW x \in S
  PROVE  /\ \A r, t : Before(joined, r, t) => Before(Append(joined, x), r, t)
         /\ \A r : Contains(joined, r) => Before(Append(joined, x), r, x)
  <1> DEFINE n == Len(joined)
             more == Append(joined, x)
  <1>1. /\ DOMAIN more = 1 .. n + 1
        /\ DOMAIN joined = 1 .. n
        /\ \A i \in 1 .. n : more[i] = joined[i]
        /\ more[n + 1] = x
        /\ n \in Nat
    BY AppendProperties
  <1> HIDE DEF more, n
  <1>2. ASSUME NEW r, NEW t, Before(joined, r, t) PROVE Before(more, r, t)
    <2>1. PICK i \in DOMAIN joined, j \in DOMAIN joined : i < j /\ joined[i] = r /\ joined[j] = t
      BY <1>2 DEF Before
    <2>2. i \in DOMAIN more /\ j \in DOMAIN more /\ more[i] = r /\ more[j] = t
      BY <1>1, <2>1
    <2> QED
      BY <2>1, <2>2 DEF Before
  <1>3. ASSUME NEW r, Contains(joined, r) PROVE Before(more, r, x)
    <2>1. PICK i \in 1 .. n : joined[i] = r
      BY <1>3 DEF Contains, n
    <2>2. i \in DOMAIN more /\ n + 1 \in DOMAIN more /\ i < n + 1 /\ more[i] = r /\ more[n + 1] = x
      BY <1>1, <2>1
    <2> QED
      BY <2>2 DEF Before
  <1> QED
    BY <1>2, <1>3 DEF more

(* The new order goes behind all that arrived before it. *)
LEMMA InsertInOrder ==
  ASSUME NEW b, NEW c, NEW side \in Side, NEW price, NEW last, NEW added,
         SlotsAdded(b, c, side, price, last, added),
         NEW S, NEW joined \in Seq(S), NEW reference \in S, reference = added.order_reference,
         InOrder(b, joined), last \in Int,
         \A s \in Side : \A p, i : Slot(b, s, p, i) =>
           i \in Int /\ Contains(joined, RefAt(b, s, p, i))
  PROVE  InOrder(c, Append(joined, reference))
  <1> DEFINE New(s, p, i) == s = side /\ p = price /\ i = last
  <1>1. ASSUME NEW s \in Side, NEW p, NEW i, NEW j, Slot(c, s, p, i), Slot(c, s, p, j), i < j
        PROVE  Before(Append(joined, reference), RefAt(c, s, p, i), RefAt(c, s, p, j))
    <2>1. ASSUME NEW k, Slot(c, s, p, k), ~New(s, p, k)
          PROVE  Slot(b, s, p, k) /\ RefAt(c, s, p, k) = RefAt(b, s, p, k)
      BY <2>1 DEF SlotsAdded, RefAt
    <2>2. CASE ~New(s, p, i) /\ ~New(s, p, j)
      <3>1. Before(joined, RefAt(c, s, p, i), RefAt(c, s, p, j))
        BY <1>1, <2>1, <2>2 DEF InOrder
      <3> QED
        BY <3>1, BeforeGrows
    <2>3. CASE ~New(s, p, i) /\ New(s, p, j)
      <3>1. RefAt(c, s, p, j) = reference
        BY <2>3 DEF SlotsAdded, RefAt
      <3>2. Contains(joined, RefAt(c, s, p, i))
        BY <1>1, <2>1, <2>3
      <3> QED
        BY <3>1, <3>2, BeforeGrows
    <2>4. CASE New(s, p, i)
      <3>1. ~New(s, p, j)
        BY <1>1, <2>4
      <3>2. Slot(b, s, p, j) /\ j < i /\ j \in Int /\ i \in Int
        BY <1>1, <2>1, <2>4, <3>1 DEF SlotsAdded
      <3> QED
        BY <1>1, <3>2
    <2> QED
      BY <2>2, <2>3, <2>4
  <1> QED
    BY <1>1 DEF InOrder

AllIn(held, joined) == \A r \in held : Contains(joined, r)

(* insert_order of an order that arrives now. *)
LEMMA InsertKeeps ==
  ASSUME NEW b, GoodBook(b), NEW held, NEW orders, Mirrors(b, held, orders),
         NEW joined \in Seq(OrderRef), InOrder(b, joined), AllIn(held, joined),
         NEW side \in Side, NEW r \in OrderRef, r \notin held, NEW price \in Price,
         NEW shares \in Shares, NEW node \in FreeNodes(b),
         NEW c, c = insert_order(b, side, r, price, shares, node),
         NEW now, NEW after, JoinedBy(held, orders, r, side, price, shares, now, after)
  PROVE  GoodBook(c) /\ Mirrors(c, now, after) /\ InOrder(c, Append(joined, r))
  <1> DEFINE added == [node |-> node, order_reference |-> r, shares |-> shares]
  <1>1. r \notin DOMAIN b.orders_
    BY DEF Mirrors
  <1>2. /\ GoodBook(c)
        /\ DOMAIN c.orders_ = DOMAIN b.orders_ \cup {r}
        /\ \E last : SlotsAdded(b, c, side, price, last, added)
    BY <1>1, InsertGood
  <1>3. PICK last : SlotsAdded(b, c, side, price, last, added)
    BY <1>2
  <1>4. r = added.order_reference /\ shares = added.shares
    OBVIOUS
  <1> HIDE DEF added
  <1>5. JoinedBy(held, orders, r, side, price, added.shares, now, after)
    BY <1>4
  <1>6. Mirrors(c, now, after)
    BY <1>2, <1>3, <1>4, <1>5, InsertMirrors
  <1>7. ASSUME NEW s \in Side, NEW p, NEW i, Slot(b, s, p, i)
        PROVE  i \in Int /\ Contains(joined, RefAt(b, s, p, i))
    <2>1. IsBook(b)
      BY DEF GoodBook, BookInv
    <2>2. i \in Nat
      BY <1>7, <2>1, SlotNumber
    <2>3. RefAt(b, s, p, i) \in held
      BY <1>7 DEF Mirrors
    <2> QED
      BY <2>2, <2>3 DEF AllIn
  <1>8. last \in Int
    <2>1. IsBook(c) /\ Slot(c, side, price, last)
      BY <1>2, <1>3 DEF GoodBook, BookInv, SlotsAdded
    <2>2. last \in Nat
      BY <2>1, SlotNumber
    <2> QED
      BY <2>2
  <1>9. InOrder(c, Append(joined, r))
    BY <1>3, <1>4, <1>7, <1>8, InsertInOrder
  <1> QED
    BY <1>2, <1>6, <1>9

-----------------------------------------------------------------------------
(* reduce_or_remove, when no more is taken than rests *)

(* c is b after the order r was left with `left` shares, or erased at zero. *)
ReducedTo(b, c, r, left) ==
  /\ SlotsShrunk(b, c, b.orders_[r].side, b.orders_[r].price, left = 0, PlaceOf(b, r), left)
  /\ \A s \in Side : \A p :
       ~(s = b.orders_[r].side /\ p = b.orders_[r].price) => SlotsKept(b, c, s, p)
  /\ DOMAIN c.orders_ = IF left = 0 THEN DOMAIN b.orders_ \ {r} ELSE DOMAIN b.orders_
  /\ \A t \in DOMAIN c.orders_ : c.orders_[t] = b.orders_[t]

(* Where the order at a place of c was in b. *)
Was(b, r, left, s, p, i) ==
  IF s = b.orders_[r].side /\ p = b.orders_[r].price
    THEN From(left = 0, PlaceOf(b, r), i) ELSE i

(* Every order of the reduced book was in the book before, in the same      *)
(* queue and behind the same others, and only r lost shares. *)
LEMMA ReducedPlaces ==
  ASSUME NEW b, GoodBook(b), NEW r \in DOMAIN b.orders_, NEW left \in Nat,
         NEW c, IsBook(c), ReducedTo(b, c, r, left)
  PROVE  \A s \in Side : \A p, i : Slot(c, s, p, i) =>
           /\ Slot(b, s, p, Was(b, r, left, s, p, i))
           /\ RefAt(c, s, p, i) = RefAt(b, s, p, Was(b, r, left, s, p, i))
           /\ OrderAt(c, s, p, i).node = OrderAt(b, s, p, Was(b, r, left, s, p, i)).node
           /\ left = 0 => RefAt(c, s, p, i) # r
           /\ OrderAt(c, s, p, i).shares
                = IF RefAt(c, s, p, i) = r THEN left
                  ELSE OrderAt(b, s, p, Was(b, r, left, s, p, i)).shares
           /\ \A j : Slot(c, s, p, j) /\ i < j =>
                Was(b, r, left, s, p, i) < Was(b, r, left, s, p, j)
  <1> DEFINE k    == PlaceOf(b, r)
             s0   == b.orders_[r].side
             p0   == b.orders_[r].price
             gone == left = 0
  <1>1. /\ s0 \in Side /\ Slot(b, s0, p0, k) /\ RefAt(b, s0, p0, k) = r
        /\ \A s \in Side : \A p, i : Slot(b, s, p, i) /\ RefAt(b, s, p, i) = r
             => s = s0 /\ p = p0 /\ i = k
    BY PlaceFacts
  <1>2. IsBook(b)
    BY DEF GoodBook, BookInv
  <1>3. ASSUME NEW s \in Side, NEW p, NEW i, Slot(c, s, p, i) PROVE i \in Nat
    BY <1>3, SlotNumber
  <1>4. k \in Nat
    BY <1>1, <1>2, SlotNumber
  <1>5. /\ SlotsShrunk(b, c, s0, p0, gone, k, left)
        /\ \A s \in Side : \A p : ~(s = s0 /\ p = p0) => SlotsKept(b, c, s, p)
        /\ \A s, p, i : Was(b, r, left, s, p, i)
             = IF s = s0 /\ p = p0 THEN From(gone, k, i) ELSE i
    BY DEF ReducedTo, Was
  <1> SUFFICES ASSUME NEW s \in Side, NEW p, NEW i, Slot(c, s, p, i)
               PROVE  /\ Slot(b, s, p, Was(b, r, left, s, p, i))
                      /\ RefAt(c, s, p, i) = RefAt(b, s, p, Was(b, r, left, s, p, i))
                      /\ OrderAt(c, s, p, i).node = OrderAt(b, s, p, Was(b, r, left, s, p, i)).node
                      /\ left = 0 => RefAt(c, s, p, i) # r
                      /\ OrderAt(c, s, p, i).shares
                           = IF RefAt(c, s, p, i) = r THEN left
                             ELSE OrderAt(b, s, p, Was(b, r, left, s, p, i)).shares
                      /\ \A j : Slot(c, s, p, j) /\ i < j =>
                           Was(b, r, left, s, p, i) < Was(b, r, left, s, p, j)
    OBVIOUS
  <1> DEFINE was == Was(b, r, left, s, p, i)
  <1> HIDE DEF k, s0, p0, was
  <1>6. CASE ~(s = s0 /\ p = p0)
    <2>1. was = i /\ \A j : Was(b, r, left, s, p, j) = j
      BY <1>5, <1>6 DEF was
    <2>2. Slot(b, s, p, i) /\ OrderAt(c, s, p, i) = OrderAt(b, s, p, i)
      BY <1>5, <1>6 DEF SlotsKept
    <2>3. RefAt(b, s, p, i) # r /\ RefAt(c, s, p, i) = RefAt(b, s, p, i)
      BY <1>1, <1>6, <2>2 DEF RefAt
    <2> QED
      BY <2>1, <2>2, <2>3 DEF was
  <1>7. CASE s = s0 /\ p = p0
    <2>1. was = From(gone, k, i) /\ \A j : Was(b, r, left, s, p, j) = From(gone, k, j)
      BY <1>5, <1>7 DEF was
    <2>2. /\ Slot(b, s, p, was)
          /\ OrderAt(c, s, p, i).node = OrderAt(b, s, p, was).node
          /\ OrderAt(c, s, p, i).order_reference = OrderAt(b, s, p, was).order_reference
          /\ OrderAt(c, s, p, i).shares
               = IF ~gone /\ i = k THEN left ELSE OrderAt(b, s, p, was).shares
      BY <1>5, <1>7, <2>1 DEF SlotsShrunk
    <2>3. RefAt(c, s, p, i) = RefAt(b, s, p, was)
      BY <2>2 DEF RefAt
    <2>4. RefAt(b, s, p, was) = r <=> was = k
      BY <1>1, <1>7, <2>2
    <2>5. was = k <=> ~gone /\ i = k
      BY <1>3, <1>4, <2>1 DEF From
    <2>6. ASSUME NEW j, Slot(c, s, p, j), i < j
          PROVE  From(gone, k, i) < From(gone, k, j)
      BY <1>3, <1>4, <2>6 DEF From
    <2>7. \A j : Slot(c, s, p, j) /\ i < j =>
            Was(b, r, left, s, p, i) < Was(b, r, left, s, p, j)
      BY <2>1, <2>6
    <2>8. /\ left = 0 => RefAt(c, s, p, i) # r
          /\ OrderAt(c, s, p, i).shares
               = IF RefAt(c, s, p, i) = r THEN left ELSE OrderAt(b, s, p, was).shares
      BY <2>2, <2>3, <2>4, <2>5
    <2> QED
      BY <2>2, <2>3, <2>7, <2>8 DEF was
  <1> QED
    BY <1>6, <1>7

(* Taking no more than rests keeps a book good, and wraps nothing. *)
LEMMA ReduceGood ==
  ASSUME NEW b, GoodBook(b), NEW r \in DOMAIN b.orders_,
         NEW n \in Shares, NEW remove_all \in BOOLEAN,
         ~remove_all => n <= RestingShares(b, r),
         NEW left, left = RestingShares(b, r) - Removed(b, r, n, remove_all),
         NEW c, c = reduce_or_remove(b, r, n, remove_all)
  PROVE  /\ GoodBook(c)
         /\ left \in Nat /\ left \in Shares /\ (remove_all => left = 0)
         /\ ReducedTo(b, c, r, left)
         /\ \E total : Reduced(b, b.orders_[r], r, total, left = 0,
                              ShrunkQueue(QueueOf(b, r), PlaceOf(b, r), left, left = 0), c)
  <1> DEFINE x       == RestingShares(b, r)
             removed == Removed(b, r, n, remove_all)
             index   == b.orders_
  <1>1. /\ BookInv(b) /\ IsBook(b) /\ NoOrphan(b) /\ TotalsExact(b) /\ FiniteBook(b)
    BY DEF GoodBook, BookInv
  <1>2. r \in OrderRef
    BY <1>1 DEF IsBook, IsMapOf
  <1>3. c = reduce_or_remove_in(b, b.orders_[r], r, n, remove_all)
    BY DEF reduce_or_remove
  <1>4. PICK rest \in Shares, gone \in BOOLEAN, total \in Total :
          /\ Reduced(b, b.orders_[r], r, total, gone,
                     ShrunkQueue(QueueOf(b, r), PlaceOf(b, r), rest, gone), c)
          /\ gone = (remove_all \/ rest = 0)
          /\ rest = (x - removed) % ShareMod
    BY <1>1, <1>3, ReduceShape
  <1>5. x \in Shares
    <2>1. /\ b.orders_[r].side \in Side
          /\ b.orders_[r].price \in DOMAIN b.levels[b.orders_[r].side]
          /\ PlaceOf(b, r) \in DOMAIN QueueOf(b, r)
      BY <1>1, PositionFacts
    <2>2. QueueOf(b, r) \in Seq(RestingOrder)
      BY <1>1, <2>1, LevelFacts DEF QueueOf
    <2>3. QueueOf(b, r)[PlaceOf(b, r)] \in RestingOrder
      BY <2>1, <2>2
    <2> QED
      BY <2>3 DEF RestingOrder, RestingShares
  <1>6. x \in 0 .. ShareMod - 1 /\ removed \in 0 .. x /\ (remove_all => removed = x)
    BY <1>5 DEF Removed, Shares
  <1> HIDE DEF x, removed
  <1>7. left = x - removed
    BY DEF x, removed
  <1>8. left \in Nat /\ left < ShareMod /\ (remove_all => left = 0)
    BY <1>6, <1>7, WidthAssumption
  <1>9. rest = left
    <2>1. left % ShareMod = left
      BY <1>8, WidthAssumption
    <2> QED
      BY <1>4, <1>7, <2>1
  <1>10. gone = (left = 0)
    BY <1>4, <1>8, <1>9
  <1>11. BookInv(c)
    BY <1>1, <1>4, ReducedPreserves
  <1>12. TotalsExact(c)
    BY <1>1, <1>2, ReduceTotals
  <1>13. /\ SlotsShrunk(b, c, b.orders_[r].side, b.orders_[r].price, left = 0, PlaceOf(b, r), left)
         /\ \A s \in Side : \A p :
              ~(s = b.orders_[r].side /\ p = b.orders_[r].price) => SlotsKept(b, c, s, p)
    BY <1>1, <1>4, <1>9, <1>10, ReducedSlots
  <1>14. /\ DOMAIN c.orders_ = IF left = 0 THEN DOMAIN b.orders_ \ {r} ELSE DOMAIN b.orders_
         /\ \A t \in DOMAIN c.orders_ : c.orders_[t] = b.orders_[t]
    <2>1. c.orders_ = IF gone THEN MapErase(index, r) ELSE index
      BY <1>4 DEF Reduced
    <2> HIDE DEF index
    <2>2. /\ DOMAIN MapErase(index, r) = DOMAIN index \ {r}
          /\ \A t \in DOMAIN index \ {r} : MapErase(index, r)[t] = index[t]
      BY DEF MapErase, Restrict
    <2> QED
      BY <1>10, <2>1, <2>2 DEF index
  <1>15. ReducedTo(b, c, r, left)
    BY <1>13, <1>14 DEF ReducedTo
  <1>16. FiniteBook(c)
    <2>1. IsFiniteSet(DOMAIN c.orders_)
      BY <1>1, <1>14, FS_Subset DEF FiniteBook
    <2>2. ASSUME NEW s \in Side PROVE IsFiniteSet(DOMAIN c.levels[s])
      <3>1. DOMAIN c.levels[s] \in SUBSET DOMAIN b.levels[s]
        BY <1>4 DEF Reduced
      <3> QED
        BY <1>1, <3>1, FS_Subset DEF FiniteBook
    <2> QED
      BY <2>1, <2>2 DEF FiniteBook
  <1>17. NoOrphan(c)
    <2>1. ASSUME NEW s \in Side, NEW p, NEW i, Slot(c, s, p, i)
          PROVE  /\ RefAt(c, s, p, i) \in DOMAIN c.orders_
                 /\ c.orders_[RefAt(c, s, p, i)].position = OrderAt(c, s, p, i).node
      <3> DEFINE was == Was(b, r, left, s, p, i)
      <3>1. IsBook(c)
        BY <1>11 DEF BookInv
      <3>2. /\ Slot(b, s, p, was)
            /\ RefAt(c, s, p, i) = RefAt(b, s, p, was)
            /\ OrderAt(c, s, p, i).node = OrderAt(b, s, p, was).node
            /\ left = 0 => RefAt(c, s, p, i) # r
        BY <1>8, <1>15, <2>1, <3>1, ReducedPlaces
      <3> HIDE DEF was
      <3>3. /\ RefAt(b, s, p, was) \in DOMAIN b.orders_
            /\ b.orders_[RefAt(b, s, p, was)].position = OrderAt(b, s, p, was).node
        BY <1>1, <3>2, OrphanSlots
      <3> QED
        BY <1>14, <3>2, <3>3
    <2> QED
      BY <2>1, OrphanSlots
  <1> QED
    BY <1>4, <1>8, <1>9, <1>10, <1>11, <1>12, <1>15, <1>16, <1>17 DEF GoodBook

(* What is left of `held` when r is left with `left` shares, or gone.        *)
LeftIn(held, orders, r, left, now, after) ==
  /\ now = IF left = 0 THEN held \ {r} ELSE held
  /\ \A t \in held \ {r} : after[t] = orders[t]
  /\ left # 0 => /\ after[r].side = orders[r].side
                 /\ after[r].price = orders[r].price
                 /\ after[r].shares = left

(* What the book mirrors shrinks with it. *)
LEMMA ReduceMirrors ==
  ASSUME NEW b, GoodBook(b), NEW r \in DOMAIN b.orders_, NEW left \in Nat,
         NEW c, IsBook(c), ReducedTo(b, c, r, left),
         NEW held, NEW orders, Mirrors(b, held, orders),
         NEW now, NEW after, LeftIn(held, orders, r, left, now, after)
  PROVE  Mirrors(c, now, after)
  <1> USE DEF LeftIn
  <1>1. DOMAIN c.orders_ = now
    BY DEF Mirrors, ReducedTo
  <1>2. ASSUME NEW s \in Side, NEW p, NEW i, Slot(c, s, p, i)
        PROVE  /\ RefAt(c, s, p, i) \in now
               /\ after[RefAt(c, s, p, i)].side = s
               /\ after[RefAt(c, s, p, i)].price = p
               /\ after[RefAt(c, s, p, i)].shares = OrderAt(c, s, p, i).shares
    <2> DEFINE was == Was(b, r, left, s, p, i)
               t   == RefAt(c, s, p, i)
    <2>1. /\ Slot(b, s, p, was)
          /\ t = RefAt(b, s, p, was)
          /\ left = 0 => t # r
          /\ OrderAt(c, s, p, i).shares = IF t = r THEN left ELSE OrderAt(b, s, p, was).shares
      BY <1>2, ReducedPlaces
    <2> HIDE DEF was, t
    <2>2. /\ t \in held
          /\ orders[t].side = s
          /\ orders[t].price = p
          /\ orders[t].shares = OrderAt(b, s, p, was).shares
      BY <2>1 DEF Mirrors
    <2>3. t \in now /\ after[t].side = s /\ after[t].price = p /\ after[t].shares = OrderAt(c, s, p, i).shares
      <3>1. CASE t = r
        BY <2>1, <2>2, <3>1
      <3>2. CASE t # r
        BY <2>1, <2>2, <3>2
      <3> QED
        BY <3>1, <3>2
    <2> QED
      BY <2>3 DEF t
  <1> QED
    BY <1>1, <1>2 DEF Mirrors

(* The queues keep their order of arrival when one order shrinks. *)
LEMMA ReduceInOrder ==
  ASSUME NEW b, GoodBook(b), NEW r \in DOMAIN b.orders_, NEW left \in Nat,
         NEW c, IsBook(c), ReducedTo(b, c, r, left), NEW joined, InOrder(b, joined)
  PROVE  InOrder(c, joined)
  <1>1. ASSUME NEW s \in Side, NEW p, NEW i, NEW j, Slot(c, s, p, i), Slot(c, s, p, j), i < j
        PROVE  Before(joined, RefAt(c, s, p, i), RefAt(c, s, p, j))
    <2> DEFINE wasI == Was(b, r, left, s, p, i)
               wasJ == Was(b, r, left, s, p, j)
    <2>1. /\ Slot(b, s, p, wasI) /\ RefAt(c, s, p, i) = RefAt(b, s, p, wasI)
          /\ Slot(b, s, p, wasJ) /\ RefAt(c, s, p, j) = RefAt(b, s, p, wasJ)
          /\ wasI < wasJ
      BY <1>1, ReducedPlaces
    <2> HIDE DEF wasI, wasJ
    <2> QED
      BY <2>1 DEF InOrder
  <1> QED
    BY <1>1 DEF InOrder

-----------------------------------------------------------------------------
(* The inductive invariant of a replay *)

(* An order as the exchange holds it.                                       *)
ExchangeOrder ==
  [locate : Locate \ {0}, side : Side, price : Price, shares : Shares \ {0}]

(* What the exchange's own rules keep: a reference is used once.            *)
SessionInv ==
  /\ IsMapOf(live, OrderRef, ExchangeOrder)
  /\ arrivals \in Seq(OrderRef)
  /\ \A i, j \in DOMAIN arrivals : arrivals[i] = arrivals[j] => i = j
  /\ \A r \in DOMAIN live \cup missed : Contains(arrivals, r)

(* Until the symbol is announced, every live order is a missed one.         *)
HandlerInv ==
  /\ resolved_ \in BOOLEAN
  /\ resolved_ <=> locate_ # 0
  /\ ~resolved_ => DOMAIN live \subseteq missed

(* The book is sound, and holds the orders followed in order of arrival.    *)
MirrorInv ==
  /\ GoodBook(book)
  /\ Mirrors(book, Followed, live)
  /\ InOrder(book, arrivals)

RInv == SessionInv /\ HandlerInv /\ MirrorInv /\ ~aborted

(***************************************************************************)
(* A replay is a run of the order book: what is proved of OrderBook for    *)
(* every feed holds here.                                                  *)
(***************************************************************************)
THEOREM ReplayIsAFeed == ReplaySpec => Spec
  <1>1. ReplayInit => Init
    BY DEF ReplayInit
  <1>2. [ReplayNext]_replayVars => [Next]_vars
    <2> SUFFICES ASSUME [ReplayNext]_replayVars PROVE [Next]_vars
      OBVIOUS
    <2>1. ASSUME NEW m \in AddOrder, ReplayAdd(m) PROVE [Next]_vars
      <3>1. OnAddOrder(m) \/ UNCHANGED vars
        BY <2>1 DEF ReplayAdd, OnOtherLocate
      <3> QED
        BY <3>1 DEF Next
    <2>2. ASSUME NEW m \in AddOrderWithMpid, ReplayAddWithMpid(m) PROVE [Next]_vars
      <3>1. OnAddOrderWithMpid(m) \/ UNCHANGED vars
        BY <2>2 DEF ReplayAddWithMpid, OnOtherLocate
      <3> QED
        BY <3>1 DEF Next
    <2>3. ASSUME NEW m \in OrderExecuted, ReplayExecuted(m) PROVE [Next]_vars
      <3>1. OnOrderExecuted(m) \/ UNCHANGED vars
        BY <2>3 DEF ReplayExecuted, OnOtherLocate
      <3> QED
        BY <3>1 DEF Next
    <2>4. ASSUME NEW m \in OrderExecutedWithPrice, ReplayExecutedWithPrice(m) PROVE [Next]_vars
      <3>1. OnOrderExecutedWithPrice(m) \/ UNCHANGED vars
        BY <2>4 DEF ReplayExecutedWithPrice, OnOtherLocate
      <3> QED
        BY <3>1 DEF Next
    <2>5. ASSUME NEW m \in OrderCancel, ReplayCancel(m) PROVE [Next]_vars
      <3>1. OnOrderCancel(m) \/ UNCHANGED vars
        BY <2>5 DEF ReplayCancel, OnOtherLocate
      <3> QED
        BY <3>1 DEF Next
    <2>6. ASSUME NEW m \in OrderDelete, ReplayDelete(m) PROVE [Next]_vars
      <3>1. OnOrderDelete(m) \/ UNCHANGED vars
        BY <2>6 DEF ReplayDelete, OnOtherLocate
      <3> QED
        BY <3>1 DEF Next
    <2>7. ASSUME NEW m \in OrderReplace, ReplayReplace(m) PROVE [Next]_vars
      <3>1. OnOrderReplace(m) \/ UNCHANGED vars
        BY <2>7 DEF ReplayReplace, OnOtherLocate, OnUnknownReplace
      <3> QED
        BY <3>1 DEF Next
    <2>8. ASSUME NEW locate \in Locate, ReplayTrade(locate) PROVE [Next]_vars
      <3>1. OnTradeNonCross(locate) \/ UNCHANGED vars
        BY <2>8 DEF ReplayTrade, OnOtherLocate
      <3> QED
        BY <3>1 DEF Next
    <2>9. ASSUME NEW locate \in Locate, ReplayDirectory(locate) PROVE [Next]_vars
      <3>1. set_locate(locate) \/ UNCHANGED vars
        BY <2>9 DEF ReplayDirectory, OnStockDirectory, OnNoBookEffect
      <3> QED
        BY <3>1 DEF Next
    <2>10. CASE ReplayOther
      BY <2>10 DEF ReplayOther, OnNoBookEffect
    <2>11. CASE UNCHANGED replayVars
      BY <2>11 DEF replayVars, vars
    <2> QED
      BY <2>1, <2>2, <2>3, <2>4, <2>5, <2>6, <2>7, <2>8, <2>9, <2>10, <2>11 DEF ReplayNext
  <1> QED
    BY <1>1, <1>2, PTL DEF ReplaySpec, Spec

-----------------------------------------------------------------------------
(* The exchange *)

(* What a sequence holds when an element joins it. *)
LEMMA ContainsGrows ==
  ASSUME NEW S, NEW joined \in Seq(S), NEW x \in S
  PROVE  /\ Append(joined, x) \in Seq(S)
         /\ \A t : Contains(joined, t) => Contains(Append(joined, x), t)
         /\ Contains(Append(joined, x), x)
         /\ (\A i, j \in DOMAIN joined : joined[i] = joined[j] => i = j) /\ ~Contains(joined, x)
              => \A i, j \in DOMAIN Append(joined, x) :
                   Append(joined, x)[i] = Append(joined, x)[j] => i = j
  <1> DEFINE n == Len(joined)
             more == Append(joined, x)
  <1>1. /\ more \in Seq(S)
        /\ Len(more) = n + 1
        /\ DOMAIN more = 1 .. n + 1
        /\ DOMAIN joined = 1 .. n
        /\ \A i \in 1 .. n : more[i] = joined[i]
        /\ more[n + 1] = x
        /\ n \in Nat
    BY AppendProperties
  <1>2. \A t : Contains(joined, t) <=> \E i \in 1 .. n : joined[i] = t
    BY DEF Contains
  <1>3. \A t : Contains(more, t) <=> \E i \in 1 .. n + 1 : more[i] = t
    BY <1>1 DEF Contains
  <1> HIDE DEF more, n
  <1>4. \A t : Contains(joined, t) => Contains(more, t)
    BY <1>1, <1>2, <1>3
  <1>5. Contains(more, x)
    BY <1>1, <1>3
  <1>6. ASSUME \A i, j \in DOMAIN joined : joined[i] = joined[j] => i = j,
               ~Contains(joined, x),
               NEW i \in DOMAIN more, NEW j \in DOMAIN more, more[i] = more[j]
        PROVE  i = j
    BY <1>1, <1>2, <1>6
  <1> QED
    BY <1>1, <1>4, <1>5, <1>6 DEF more

(* An order enters under a reference that was never used; another may leave. *)
LEMMA EntryKeepsSession ==
  ASSUME SessionInv, NEW r \in OrderRef, Unused(r),
         IsMapOf(live', DOMAIN live \cup {r}, ExchangeOrder),
         arrivals' = Append(arrivals, r), missed' \subseteq missed \cup {r}
  PROVE  SessionInv'
  <1>1. /\ arrivals \in Seq(OrderRef)
        /\ \A i, j \in DOMAIN arrivals : arrivals[i] = arrivals[j] => i = j
        /\ \A t \in DOMAIN live \cup missed : Contains(arrivals, t)
        /\ DOMAIN live \subseteq OrderRef
        /\ ~Contains(arrivals, r)
    BY DEF SessionInv, Unused, IsMapOf
  <1>2. /\ arrivals' \in Seq(OrderRef)
        /\ \A t : Contains(arrivals, t) => Contains(arrivals', t)
        /\ Contains(arrivals', r)
        /\ \A i, j \in DOMAIN arrivals' : arrivals'[i] = arrivals'[j] => i = j
    BY <1>1, ContainsGrows
  <1>3. IsMapOf(live', OrderRef, ExchangeOrder)
    BY <1>1 DEF IsMapOf
  <1>4. \A t \in DOMAIN live' \cup missed' : Contains(arrivals', t)
    BY <1>1, <1>2 DEF IsMapOf
  <1> QED
    BY <1>2, <1>3, <1>4 DEF SessionInv

(* What Add Order makes of the exchange's orders. *)
LEMMA SendAddFacts ==
  ASSUME SessionInv, NEW m \in AddOrder, SendAdd(m)
  PROVE  /\ m.order_reference \in OrderRef /\ Unused(m.order_reference)
         /\ m.order_reference \notin DOMAIN live \cup missed
         /\ m.side \in Side /\ m.price \in Price /\ m.shares \in Shares \ {0}
         /\ m.stock_locate \in Locate \ {0}
         /\ DOMAIN live' = DOMAIN live \cup {m.order_reference}
         /\ \A t \in DOMAIN live : live'[t] = live[t]
         /\ live'[m.order_reference] = [locate |-> m.stock_locate, side |-> m.side,
                                        price |-> m.price, shares |-> m.shares]
         /\ IsMapOf(live', DOMAIN live \cup {m.order_reference}, ExchangeOrder)
         /\ arrivals' = Append(arrivals, m.order_reference)
  <1> DEFINE r == m.order_reference
             order == [locate |-> m.stock_locate, side |-> m.side,
                       price |-> m.price, shares |-> m.shares]
  <1>1. /\ r \in OrderRef /\ Unused(r) /\ m.side \in Side /\ m.price \in Price
        /\ m.shares \in Shares \ {0} /\ m.stock_locate \in Locate \ {0}
        /\ live' = MapPut(live, r, order)
        /\ arrivals' = Append(arrivals, r)
    BY DEF AddOrder, SendAdd, Side, Buy, Sell, Enter, Shares
  <1>2. r \notin DOMAIN live \cup missed
    BY <1>1 DEF SessionInv, Unused
  <1>3. order \in ExchangeOrder
    BY <1>1 DEF ExchangeOrder
  <1>4. live \in [DOMAIN live -> ExchangeOrder]
    BY DEF SessionInv, IsMapOf
  <1> HIDE DEF order
  <1>5. /\ DOMAIN live' = DOMAIN live \cup {r}
        /\ \A t \in DOMAIN live : live'[t] = live[t]
        /\ live'[r] = order
        /\ IsMapOf(live', DOMAIN live \cup {r}, ExchangeOrder)
    BY <1>1, <1>2, <1>3, <1>4 DEF MapPut, IsMapOf
  <1> QED
    BY <1>1, <1>2, <1>5 DEF order

(* What Order Replace makes of them. *)
LEMMA SendReplaceFacts ==
  ASSUME SessionInv, NEW m \in OrderReplace, SendReplace(m)
  PROVE  /\ m.original_order_reference \in DOMAIN live
         /\ live[m.original_order_reference].locate = m.stock_locate
         /\ live[m.original_order_reference].side \in Side
         /\ m.new_order_reference \in OrderRef /\ Unused(m.new_order_reference)
         /\ m.new_order_reference \notin DOMAIN live \cup missed
         /\ m.price \in Price /\ m.shares \in Shares \ {0}
         /\ m.stock_locate \in Locate \ {0}
         /\ DOMAIN live' = (DOMAIN live \ {m.original_order_reference})
                             \cup {m.new_order_reference}
         /\ \A t \in DOMAIN live \ {m.original_order_reference} : live'[t] = live[t]
         /\ live'[m.new_order_reference]
              = [locate |-> m.stock_locate, side |-> live[m.original_order_reference].side,
                 price |-> m.price, shares |-> m.shares]
         /\ IsMapOf(live', DOMAIN live \cup {m.new_order_reference}, ExchangeOrder)
         /\ arrivals' = Append(arrivals, m.new_order_reference)
  <1> DEFINE o == m.original_order_reference
             r == m.new_order_reference
             side == live[o].side
             order == [locate |-> m.stock_locate, side |-> side,
                       price |-> m.price, shares |-> m.shares]
  <1>1. /\ r \in OrderRef /\ Unused(r) /\ m.price \in Price
        /\ o \in DOMAIN live /\ live[o].locate = m.stock_locate
        /\ m.shares \in Shares \ {0}
        /\ live' = MapPut(MapErase(live, o), r, order)
        /\ arrivals' = Append(arrivals, r)
    BY DEF OrderReplace, SendReplace, Enter, Concerns, Shares
  <1>2. r \notin DOMAIN live \cup missed
    BY <1>1 DEF SessionInv, Unused
  <1>3. live \in [DOMAIN live -> ExchangeOrder] /\ live[o] \in ExchangeOrder
    BY <1>1 DEF SessionInv, IsMapOf
  <1>4. side \in Side /\ m.stock_locate \in Locate \ {0}
    BY <1>1, <1>3 DEF ExchangeOrder
  <1>5. order \in ExchangeOrder
    BY <1>1, <1>4 DEF ExchangeOrder
  <1> HIDE DEF order, side
  <1> DEFINE rest == MapErase(live, o)
  <1>6. /\ DOMAIN rest = DOMAIN live \ {o}
        /\ \A t \in DOMAIN live \ {o} : rest[t] = live[t]
    BY DEF MapErase, Restrict
  <1> HIDE DEF rest
  <1>7. live' = MapPut(rest, r, order)
    BY <1>1 DEF rest
  <1>8. /\ DOMAIN live' = (DOMAIN live \ {o}) \cup {r}
        /\ \A t \in DOMAIN live \ {o} : live'[t] = live[t]
        /\ live'[r] = order
        /\ live' = [t \in (DOMAIN live \ {o}) \cup {r} |-> live'[t]]
    BY <1>2, <1>6, <1>7 DEF MapPut
  <1>9. IsMapOf(live', DOMAIN live \cup {r}, ExchangeOrder)
    BY <1>3, <1>5, <1>8 DEF IsMapOf
  <1> QED
    BY <1>1, <1>2, <1>4, <1>8, <1>9 DEF order, side

(* The order under r is left with `left` shares, or is gone.                *)
Lessened(r, left) ==
  /\ DOMAIN live' = IF left = 0 THEN DOMAIN live \ {r} ELSE DOMAIN live
  /\ \A t \in DOMAIN live \ {r} : live'[t] = live[t]
  /\ left # 0 => /\ live'[r].locate = live[r].locate
                 /\ live'[r].side = live[r].side
                 /\ live'[r].price = live[r].price
                 /\ live'[r].shares = left
  /\ IsMapOf(live', DOMAIN live, ExchangeOrder)
  /\ arrivals' = arrivals

(* What an execution or a cancel makes of the exchange's orders. *)
LEMMA SendReductionFacts ==
  ASSUME SessionInv, NEW m, NEW n, SendReduction(m, n)
  PROVE  /\ m.order_reference \in DOMAIN live
         /\ live[m.order_reference].locate = m.stock_locate
         /\ n \in 1 .. live[m.order_reference].shares
         /\ Lessened(m.order_reference, live[m.order_reference].shares - n)
  <1> DEFINE r    == m.order_reference
             x    == live[r].shares
             left == x - n
             order == [live[r] EXCEPT !.shares = @ - n]
  <1>1. /\ r \in DOMAIN live /\ live[r].locate = m.stock_locate
        /\ n \in 1 .. x
        /\ live' = IF n = x THEN MapErase(live, r) ELSE MapPut(live, r, order)
        /\ arrivals' = arrivals
    BY DEF SendReduction, Concerns
  <1>2. live \in [DOMAIN live -> ExchangeOrder] /\ live[r] \in ExchangeOrder
    BY <1>1 DEF SessionInv, IsMapOf
  <1>3. x \in Nat /\ x < ShareMod
    BY <1>2, WidthAssumption DEF ExchangeOrder, Shares
  <1>4. left \in Nat /\ (left = 0 <=> n = x) /\ left < ShareMod
    <2> HIDE DEF x
    <2> QED
      BY <1>1, <1>3, WidthAssumption
  <1>5. CASE n = x
    <2>1. /\ DOMAIN live' = DOMAIN live \ {r}
          /\ \A t \in DOMAIN live \ {r} : live'[t] = live[t]
          /\ IsMapOf(live', DOMAIN live, ExchangeOrder)
      BY <1>1, <1>2, <1>5 DEF MapErase, Restrict, IsMapOf
    <2>2. left = 0
      BY <1>4, <1>5
    <2> HIDE DEF left
    <2>3. Lessened(r, left)
      BY <1>1, <2>1, <2>2 DEF Lessened
    <2> QED
      BY <1>1, <2>3 DEF left
  <1>6. CASE n # x
    <2>1. left # 0 /\ left \in Shares \ {0}
      BY <1>4, <1>6, WidthAssumption DEF Shares
    <2>2. /\ order.locate = live[r].locate /\ order.side = live[r].side
          /\ order.price = live[r].price /\ order.shares = left
          /\ order \in ExchangeOrder
      BY <1>2, <2>1 DEF ExchangeOrder
    <2> HIDE DEF order, left
    <2>3. /\ DOMAIN live' = DOMAIN live
          /\ \A t \in DOMAIN live \ {r} : live'[t] = live[t]
          /\ live'[r] = order
          /\ IsMapOf(live', DOMAIN live, ExchangeOrder)
      BY <1>1, <1>2, <1>6, <2>2 DEF MapPut, IsMapOf
    <2>4. Lessened(r, left)
      BY <1>1, <2>1, <2>2, <2>3 DEF Lessened
    <2> QED
      BY <1>1, <2>4 DEF left
  <1> QED
    BY <1>5, <1>6

(* What a delete makes of them. *)
LEMMA SendDeleteFacts ==
  ASSUME SessionInv, NEW m, SendDelete(m)
  PROVE  /\ m.order_reference \in DOMAIN live
         /\ live[m.order_reference].locate = m.stock_locate
         /\ Lessened(m.order_reference, 0)
  <1> DEFINE r == m.order_reference
  <1>1. /\ r \in DOMAIN live /\ live[r].locate = m.stock_locate
        /\ live' = MapErase(live, r)
        /\ arrivals' = arrivals
    BY DEF SendDelete, Concerns
  <1>2. live \in [DOMAIN live -> ExchangeOrder]
    BY <1>1 DEF SessionInv, IsMapOf
  <1>3. /\ DOMAIN live' = DOMAIN live \ {r}
        /\ \A t \in DOMAIN live \ {r} : live'[t] = live[t]
        /\ IsMapOf(live', DOMAIN live, ExchangeOrder)
    BY <1>1, <1>2 DEF MapErase, Restrict, IsMapOf
  <1> QED
    BY <1>1, <1>3 DEF Lessened

(* The exchange's own rules survive a reduction. *)
LEMMA LessenedKeepsSession ==
  ASSUME SessionInv, NEW r, NEW left, Lessened(r, left), missed' = missed
  PROVE  SessionInv'
  <1>1. DOMAIN live' \subseteq DOMAIN live /\ IsMapOf(live', OrderRef, ExchangeOrder)
    BY DEF Lessened, SessionInv, IsMapOf
  <1>2. arrivals' = arrivals
    BY DEF Lessened
  <1>3. \A t \in DOMAIN live' \cup missed' : Contains(arrivals', t)
    BY <1>1, <1>2 DEF SessionInv
  <1> QED
    BY <1>1, <1>2, <1>3 DEF SessionInv

-----------------------------------------------------------------------------
(* Records that leave the book alone *)

(* What the book mirrors may change elsewhere. *)
LEMMA SameMirrors ==
  ASSUME NEW b, NEW held, NEW orders, NEW after, Mirrors(b, held, orders),
         \A r \in held : after[r] = orders[r]
  PROVE  Mirrors(b, held, after)
  BY DEF Mirrors

(* A record about an order the book is not to hold keeps the invariant. *)
LEMMA UntouchedKeeps ==
  ASSUME RInv, SessionInv', HandlerInv', book' = book, aborted' = aborted,
         Followed' = Followed, \A r \in Followed : live'[r] = live[r],
         arrivals' = arrivals \/ \E x \in OrderRef : arrivals' = Append(arrivals, x)
  PROVE  RInv'
  <1>1. GoodBook(book) /\ Mirrors(book, Followed, live) /\ InOrder(book, arrivals) /\ ~aborted
    BY DEF RInv, MirrorInv
  <1>2. arrivals \in Seq(OrderRef)
    BY DEF RInv, SessionInv
  <1>3. Mirrors(book, Followed, live')
    BY <1>1, SameMirrors
  <1>4. InOrder(book, arrivals')
    <2>1. \A r, t : Before(arrivals, r, t) => Before(arrivals', r, t)
      BY <1>2, BeforeGrows
    <2> QED
      BY <1>1, <2>1 DEF InOrder
  <1>5. GoodBook(book') /\ Mirrors(book', Followed', live') /\ InOrder(book', arrivals')
    BY <1>1, <1>3, <1>4
  <1> QED
    BY <1>1, <1>5 DEF RInv, MirrorInv

(* In particular an execution, a cancel or a delete of such an order. *)
LEMMA LessenedElsewhere ==
  ASSUME RInv, NEW r \in DOMAIN live, NEW left, Lessened(r, left), r \notin Followed,
         UNCHANGED <<locate_, book, aborted, resolved_, missed>>
  PROVE  RInv'
  <1>1. SessionInv'
    BY LessenedKeepsSession DEF RInv
  <1>2. /\ DOMAIN live' \subseteq DOMAIN live
        /\ DOMAIN live \ {r} \subseteq DOMAIN live'
        /\ \A t \in DOMAIN live \ {r} : live'[t] = live[t]
        /\ r \in DOMAIN live' => live'[r].locate = live[r].locate
        /\ arrivals' = arrivals
    BY DEF Lessened
  <1>3. HandlerInv'
    BY <1>2 DEF RInv, HandlerInv
  <1>4. \A t \in Followed : t \in DOMAIN live \ {r}
    BY DEF Followed
  <1>5. Followed' = Followed
    BY <1>2 DEF Followed
  <1> QED
    BY <1>1, <1>2, <1>3, <1>4, <1>5, UntouchedKeeps

-----------------------------------------------------------------------------
(* Records that change the book *)

(* The order a record names rests in the book as the exchange holds it. *)
LEMMA RestsAsHeld ==
  ASSUME RInv, NEW r \in Followed
  PROVE  /\ r \in DOMAIN book.orders_
         /\ RestingShares(book, r) = live[r].shares
         /\ book.orders_[r].side = live[r].side
         /\ book.orders_[r].price = live[r].price
         /\ book.orders_[r].price \in DOMAIN book.levels[book.orders_[r].side]
  <1> DEFINE s == book.orders_[r].side
             p == book.orders_[r].price
             k == PlaceOf(book, r)
  <1>1. GoodBook(book) /\ Mirrors(book, Followed, live)
    BY DEF RInv, MirrorInv
  <1>2. r \in DOMAIN book.orders_
    BY <1>1 DEF Mirrors
  <1>3. s \in Side /\ Slot(book, s, p, k) /\ RefAt(book, s, p, k) = r
    BY <1>1, <1>2, PlaceFacts
  <1>4. live[r].side = s /\ live[r].price = p /\ live[r].shares = OrderAt(book, s, p, k).shares
    BY <1>1, <1>3 DEF Mirrors
  <1>5. RestingShares(book, r) = OrderAt(book, s, p, k).shares
    BY DEF RestingShares, QueueOf, OrderAt
  <1> QED
    BY <1>2, <1>3, <1>4, <1>5 DEF Slot

(* The book takes from an order what the exchange took from it. *)
LEMMA LessenedInBook ==
  ASSUME RInv, NEW r \in Followed, NEW n \in Shares, NEW remove_all \in BOOLEAN,
         ~remove_all => n <= live[r].shares,
         NEW left, left = live[r].shares - (IF remove_all THEN live[r].shares ELSE n),
         Lessened(r, left), book' = reduce_or_remove(book, r, n, remove_all),
         UNCHANGED <<locate_, aborted, resolved_, missed>>
  PROVE  RInv' /\ LeftIn(Followed, live, r, left, Followed', live')
  <1>1. GoodBook(book) /\ Mirrors(book, Followed, live) /\ InOrder(book, arrivals) /\ ~aborted
    BY DEF RInv, MirrorInv
  <1>2. r \in DOMAIN book.orders_ /\ RestingShares(book, r) = live[r].shares
    BY RestsAsHeld
  <1>3. left = RestingShares(book, r) - Removed(book, r, n, remove_all)
    BY <1>2 DEF Removed
  <1>4. GoodBook(book') /\ left \in Nat /\ ReducedTo(book, book', r, left)
    BY <1>1, <1>2, <1>3, ReduceGood
  <1>5. IsBook(book')
    BY <1>4 DEF GoodBook, BookInv
  <1>6. /\ \A t \in Followed \ {r} : live'[t] = live[t]
        /\ left # 0 => /\ live'[r].side = live[r].side
                       /\ live'[r].price = live[r].price
                       /\ live'[r].shares = left
    BY DEF Lessened, Followed
  <1>7. Followed' = IF left = 0 THEN Followed \ {r} ELSE Followed
    <2>1. /\ DOMAIN live' = IF left = 0 THEN DOMAIN live \ {r} ELSE DOMAIN live
          /\ \A t \in DOMAIN live' : live'[t].locate = live[t].locate
      BY DEF Lessened
    <2> QED
      BY <2>1 DEF Followed
  <1>a. LeftIn(Followed, live, r, left, Followed', live')
    BY <1>6, <1>7 DEF LeftIn
  <1>8. Mirrors(book', Followed', live')
    BY <1>1, <1>2, <1>4, <1>5, <1>a, ReduceMirrors
  <1>9. InOrder(book', arrivals')
    <2>1. InOrder(book', arrivals)
      BY <1>1, <1>2, <1>4, <1>5, ReduceInOrder
    <2>2. arrivals' = arrivals
      BY DEF Lessened
    <2> QED
      BY <2>1, <2>2
  <1>10. SessionInv'
    BY LessenedKeepsSession DEF RInv
  <1>11. HandlerInv'
    BY DEF RInv, HandlerInv, Lessened
  <1> QED
    BY <1>1, <1>4, <1>8, <1>9, <1>10, <1>11, <1>a DEF RInv, MirrorInv

(* What followed orders are, in terms of the invariant. *)
LEMMA FollowedFacts ==
  ASSUME RInv
  PROVE  /\ Followed \subseteq DOMAIN live
         /\ AllIn(Followed, arrivals)
         /\ \A r \in DOMAIN live : live[r].locate # 0
         /\ \A r \in DOMAIN live : live[r].locate = locate_ => resolved_
         /\ \A r \in DOMAIN live : live[r].locate = locate_ /\ r \notin Followed => r \in missed
         /\ DOMAIN book.orders_ = Followed
  <1>1. Followed \subseteq DOMAIN live
    BY DEF Followed
  <1>2. AllIn(Followed, arrivals)
    BY <1>1 DEF AllIn, RInv, SessionInv
  <1>3. ASSUME NEW r \in DOMAIN live PROVE live[r].locate # 0
    <2>1. live[r] \in ExchangeOrder
      BY DEF RInv, SessionInv, IsMapOf
    <2> QED
      BY <2>1 DEF ExchangeOrder
  <1>4. \A r \in DOMAIN live : live[r].locate = locate_ => resolved_
    BY <1>3 DEF RInv, HandlerInv
  <1>5. \A r \in DOMAIN live : live[r].locate = locate_ /\ r \notin Followed => r \in missed
    BY <1>4 DEF Followed
  <1>6. DOMAIN book.orders_ = Followed
    BY DEF RInv, MirrorInv, Mirrors
  <1> QED
    BY <1>1, <1>2, <1>3, <1>4, <1>5, <1>6

(* An Add Order message keeps the invariant. *)
LEMMA AddKeeps ==
  ASSUME RInv, NEW m \in AddOrder, SendAdd(m),
         OnAddOrder(m) \/ OnOtherLocate(m.stock_locate),
         missed' = IF resolved_ THEN missed ELSE missed \cup {m.order_reference},
         UNCHANGED resolved_
  PROVE  RInv'
  <1> DEFINE r == m.order_reference
  <1>1. /\ r \in OrderRef /\ Unused(r) /\ r \notin DOMAIN live \cup missed
        /\ m.side \in Side /\ m.price \in Price /\ m.shares \in Shares
        /\ m.stock_locate # 0
        /\ DOMAIN live' = DOMAIN live \cup {r}
        /\ \A t \in DOMAIN live : live'[t] = live[t]
        /\ live'[r].locate = m.stock_locate
        /\ live'[r].side = m.side /\ live'[r].price = m.price /\ live'[r].shares = m.shares
        /\ IsMapOf(live', DOMAIN live \cup {r}, ExchangeOrder)
        /\ arrivals' = Append(arrivals, r)
    <2>1. SessionInv
      BY DEF RInv
    <2>2. live'[r] = [locate |-> m.stock_locate, side |-> m.side,
                      price |-> m.price, shares |-> m.shares]
      BY <2>1, SendAddFacts
    <2>3. /\ live'[r].locate = m.stock_locate
          /\ live'[r].side = m.side /\ live'[r].price = m.price /\ live'[r].shares = m.shares
      BY <2>2
    <2> QED
      BY <2>1, <2>3, SendAddFacts
  <1> HIDE DEF r
  <1>2. SessionInv'
    <2>1. SessionInv /\ missed' \subseteq missed \cup {r}
      BY DEF RInv, r
    <2> QED
      BY <1>1, <2>1, EntryKeepsSession
  <1>3. /\ Followed \subseteq DOMAIN live
        /\ AllIn(Followed, arrivals)
        /\ DOMAIN book.orders_ = Followed
    BY FollowedFacts
  <1>4. CASE OnAddOrder(m)
    <2>1. locate_ = m.stock_locate /\ locate_' = locate_ /\ aborted' = aborted
      BY <1>4 DEF OnAddOrder, Accepts
    <2>2. resolved_ /\ missed' = missed
      BY <1>1, <2>1 DEF RInv, HandlerInv
    <2>3. Followed' = Followed \cup {r}
      BY <1>1, <2>1, <2>2 DEF Followed
    <2>4. HandlerInv'
      BY <2>1, <2>2 DEF RInv, HandlerInv
    <2>5. PICK node \in FreeNodes(book) :
            book' = insert_order(book, m.side, r, m.price, m.shares, node)
      BY <1>1, <1>4 DEF OnAddOrder, Side, r
    <2>6. JoinedBy(Followed, live, r, m.side, m.price, m.shares, Followed', live')
      BY <1>1, <1>3, <2>3 DEF JoinedBy
    <2>7. /\ GoodBook(book) /\ Mirrors(book, Followed, live) /\ InOrder(book, arrivals)
          /\ arrivals \in Seq(OrderRef) /\ r \notin Followed
      BY <1>1, <1>3 DEF RInv, MirrorInv, SessionInv
    <2>8. GoodBook(book') /\ Mirrors(book', Followed', live') /\ InOrder(book', arrivals')
      BY <1>1, <1>3, <2>5, <2>6, <2>7, InsertKeeps
    <2> QED
      BY <1>2, <2>1, <2>4, <2>8 DEF RInv, MirrorInv
  <1>5. CASE OnOtherLocate(m.stock_locate)
    <2>1. locate_ # m.stock_locate /\ UNCHANGED <<locate_, book, aborted>>
      BY <1>5 DEF OnOtherLocate, vars
    <2>2. HandlerInv'
      BY <1>1, <2>1 DEF RInv, HandlerInv, r
    <2>3. missed' = missed \/ (~resolved_ /\ missed' = missed \cup {r})
      BY DEF r
    <2>4. Followed' = Followed
      BY <1>1, <2>1, <2>3 DEF Followed
    <2> QED
      BY <1>1, <1>2, <1>3, <2>1, <2>2, <2>4, UntouchedKeeps
  <1> QED
    BY <1>4, <1>5

(* An execution or a cancel keeps it, and asserts nothing that fails. *)
LEMMA ReductionKeeps ==
  ASSUME RInv, NEW m, NEW n \in Shares, NEW stat, SendReduction(m, n),
         \/ Accepts(m) /\ ReduceShares(m.order_reference, n, stat)
         \/ OnOtherLocate(m.stock_locate),
         UNCHANGED <<resolved_, missed>>
  PROVE  RInv'
  <1> DEFINE r    == m.order_reference
             left == live[r].shares - n
  <1>1. /\ r \in DOMAIN live
        /\ live[r].locate = m.stock_locate
        /\ n \in 1 .. live[r].shares
        /\ Lessened(r, left)
    BY SendReductionFacts DEF RInv
  <1>2. /\ \A t \in DOMAIN live : live[t].locate = locate_ /\ t \notin Followed => t \in missed
        /\ DOMAIN book.orders_ = Followed
    BY FollowedFacts
  <1>3. CASE OnOtherLocate(m.stock_locate)
    <2>1. locate_ # m.stock_locate /\ UNCHANGED <<locate_, book, aborted>>
      BY <1>3 DEF OnOtherLocate, vars
    <2>2. r \notin Followed
      BY <1>1, <2>1 DEF Followed
    <2> HIDE DEF left, r
    <2> QED
      BY <1>1, <2>1, <2>2, LessenedElsewhere
  <1>4. CASE r \in Followed /\ ReduceShares(r, n, stat)
    <2>1. /\ r \in DOMAIN book.orders_
          /\ RestingShares(book, r) = live[r].shares
          /\ book.orders_[r].price \in DOMAIN book.levels[book.orders_[r].side]
      BY <1>4, RestsAsHeld
    <2>2. n <= live[r].shares
      BY <1>1
    <2>3. ReductionAsserts(book, r, n)
      BY <2>1, <2>2 DEF ReductionAsserts, RestingShares, QueueOf, PlaceOf
    <2>4. /\ book' = reduce_or_remove(book, r, n, FALSE)
          /\ UNCHANGED <<locate_, aborted>>
      BY <1>4, <2>3 DEF ReduceShares, AssertPasses, AssertFails
    <2> HIDE DEF r
    <2> QED
      BY <1>1, <1>4, <2>2, <2>4, LessenedInBook
  <1>5. CASE r \notin Followed /\ ReduceShares(r, n, stat)
    <2>1. r \notin DOMAIN book.orders_
      BY <1>2, <1>5
    <2>2. UNCHANGED <<book, locate_, aborted>>
      BY <1>5, <2>1 DEF ReduceShares, ReductionAsserts, AssertPasses, AssertFails, reduce_or_remove
    <2> HIDE DEF left, r
    <2> QED
      BY <1>1, <1>5, <2>2, LessenedElsewhere
  <1> QED
    BY <1>3, <1>4, <1>5

(* A delete keeps it. *)
LEMMA DeleteKeeps ==
  ASSUME RInv, NEW m, SendDelete(m),
         OnOrderDelete(m) \/ OnOtherLocate(m.stock_locate),
         UNCHANGED <<resolved_, missed>>
  PROVE  RInv'
  <1> DEFINE r == m.order_reference
  <1>1. r \in DOMAIN live /\ live[r].locate = m.stock_locate /\ Lessened(r, 0)
    BY SendDeleteFacts DEF RInv
  <1>2. DOMAIN book.orders_ = Followed
    BY FollowedFacts
  <1>3. CASE OnOtherLocate(m.stock_locate)
    <2>1. locate_ # m.stock_locate /\ UNCHANGED <<locate_, book, aborted>>
      BY <1>3 DEF OnOtherLocate, vars
    <2>2. r \notin Followed
      BY <1>1, <2>1 DEF Followed
    <2> HIDE DEF r
    <2> QED
      BY <1>1, <2>1, <2>2, LessenedElsewhere
  <1>4. CASE OnOrderDelete(m)
    <2>1. book' = reduce_or_remove(book, r, 0, TRUE) /\ UNCHANGED <<locate_, aborted>>
      BY <1>4 DEF OnOrderDelete
    <2>2. CASE r \in Followed
      <3>1. live[r].shares \in Nat
        BY <1>1 DEF RInv, SessionInv, IsMapOf, ExchangeOrder, Shares
      <3>2. 0 = live[r].shares - live[r].shares
        BY <3>1
      <3> HIDE DEF r
      <3> QED
        BY <1>1, <2>1, <2>2, <3>2, ZeroShares, LessenedInBook
    <2>3. CASE r \notin Followed
      <3>1. UNCHANGED <<book, locate_, aborted>>
        BY <1>2, <2>1, <2>3 DEF reduce_or_remove
      <3> HIDE DEF r
      <3> QED
        BY <1>1, <2>3, <3>1, LessenedElsewhere
    <2> QED
      BY <2>2, <2>3
  <1> QED
    BY <1>3, <1>4

(* A replace keeps it: the new order takes its place at the back. *)
LEMMA ReplaceKeeps ==
  ASSUME RInv, NEW m \in OrderReplace, SendReplace(m),
         OnOrderReplace(m) \/ OnUnknownReplace(m) \/ OnOtherLocate(m.stock_locate),
         missed' = IF resolved_ /\ m.original_order_reference \notin missed
                     THEN missed ELSE missed \cup {m.new_order_reference},
         UNCHANGED resolved_
  PROVE  RInv'
  <1> DEFINE o == m.original_order_reference
             r == m.new_order_reference
             side == live[o].side
  <1>1. /\ o \in DOMAIN live /\ live[o].locate = m.stock_locate
        /\ side \in Side
        /\ r \in OrderRef /\ Unused(r) /\ r \notin DOMAIN live \cup missed
        /\ m.price \in Price /\ m.shares \in Shares
        /\ m.stock_locate # 0
        /\ DOMAIN live' = (DOMAIN live \ {o}) \cup {r}
        /\ \A t \in DOMAIN live \ {o} : live'[t] = live[t]
        /\ live'[r].locate = m.stock_locate
        /\ live'[r].side = side /\ live'[r].price = m.price /\ live'[r].shares = m.shares
        /\ IsMapOf(live', DOMAIN live \cup {r}, ExchangeOrder)
        /\ arrivals' = Append(arrivals, r)
    <2>1. SessionInv
      BY DEF RInv
    <2>2. live'[r] = [locate |-> m.stock_locate, side |-> side,
                      price |-> m.price, shares |-> m.shares]
      BY <2>1, SendReplaceFacts
    <2>3. /\ live'[r].locate = m.stock_locate
          /\ live'[r].side = side /\ live'[r].price = m.price /\ live'[r].shares = m.shares
      BY <2>2
    <2> QED
      BY <2>1, <2>3, SendReplaceFacts
  <1>2. missed' = IF resolved_ /\ o \notin missed THEN missed ELSE missed \cup {r}
    OBVIOUS
  <1> HIDE DEF r, side
  <1>3. SessionInv'
    <2>1. SessionInv /\ missed' \subseteq missed \cup {r}
      BY <1>2 DEF RInv
    <2> QED
      BY <1>1, <2>1, EntryKeepsSession
  <1>4. /\ Followed \subseteq DOMAIN live
        /\ AllIn(Followed, arrivals)
        /\ DOMAIN book.orders_ = Followed
        /\ \A t \in DOMAIN live : live[t].locate = locate_ /\ t \notin Followed => t \in missed
        /\ \A t \in DOMAIN live : live[t].locate = locate_ => resolved_
    BY FollowedFacts
  <1>5. locate_' = locate_ /\ aborted' = aborted
    BY DEF OnOrderReplace, OnUnknownReplace, OnOtherLocate, vars
  <1>6. HandlerInv'
    BY <1>1, <1>2, <1>5 DEF RInv, HandlerInv
  <1>7. CASE OnUnknownReplace(m) \/ OnOtherLocate(m.stock_locate)
    <2>1. book' = book
      BY <1>7 DEF OnUnknownReplace, OnOtherLocate, vars
    <2>2. locate_ # m.stock_locate \/ (locate_ = m.stock_locate /\ o \notin Followed)
      BY <1>4, <1>7 DEF OnUnknownReplace, OnOtherLocate, Accepts
    <2>3. o \notin Followed /\ r \notin Followed
      BY <1>1, <1>4, <2>2 DEF Followed
    <2>4. r \in DOMAIN live' /\ live'[r].locate = locate_ => r \in missed'
      BY <1>1, <1>2, <1>4, <2>2
    <2>5. Followed' = Followed
      BY <1>1, <1>2, <1>5, <2>3, <2>4 DEF Followed
    <2> QED
      BY <1>1, <1>3, <1>4, <1>5, <1>6, <2>1, <2>3, <2>5, UntouchedKeeps
  <1>8. CASE OnOrderReplace(m)
    <2> DEFINE without == reduce_or_remove(book, o, 0, TRUE)
    <2>1. locate_ = m.stock_locate /\ o \in Followed
      BY <1>4, <1>8 DEF OnOrderReplace, Accepts
    <2>2. resolved_ /\ missed' = missed
      BY <1>2, <2>1 DEF Followed
    <2>3. Followed' = (Followed \ {o}) \cup {r}
      BY <1>1, <1>5, <2>1, <2>2 DEF Followed
    <2>4. /\ GoodBook(book) /\ Mirrors(book, Followed, live) /\ InOrder(book, arrivals)
          /\ arrivals \in Seq(OrderRef) /\ r \notin Followed
      BY <1>1, <1>4 DEF RInv, MirrorInv, SessionInv
    <2>5. /\ o \in DOMAIN book.orders_
          /\ RestingShares(book, o) = live[o].shares
          /\ book.orders_[o].side = side
      BY <2>1, RestsAsHeld DEF side
    <2>6. 0 = RestingShares(book, o) - Removed(book, o, 0, TRUE)
      <3>1. live[o].shares \in Nat
        BY <1>1 DEF RInv, SessionInv, IsMapOf, ExchangeOrder, Shares
      <3> QED
        BY <2>5, <3>1 DEF Removed
    <2> HIDE DEF o
    <2>7. GoodBook(without) /\ ReducedTo(book, without, o, 0)
      BY <2>4, <2>5, <2>6, ZeroShares, ReduceGood
    <2>8. PICK node \in FreeNodes(without) :
            book' = insert_order(without, side, r, m.price, m.shares, node)
      BY <1>8, <2>5 DEF OnOrderReplace, o, r
    <2> HIDE DEF without
    <2>9. IsBook(without)
      BY <2>7 DEF GoodBook, BookInv
    <2>10. Mirrors(without, Followed \ {o}, live)
      <3>1. LeftIn(Followed, live, o, 0, Followed \ {o}, live)
        BY DEF LeftIn
      <3> QED
        BY <2>4, <2>5, <2>7, <2>9, <3>1, ReduceMirrors
    <2>11. InOrder(without, arrivals)
      BY <2>4, <2>5, <2>7, <2>9, ReduceInOrder
    <2>12. JoinedBy(Followed \ {o}, live, r, side, m.price, m.shares, Followed', live')
      BY <1>1, <1>4, <2>3 DEF JoinedBy
    <2>13. AllIn(Followed \ {o}, arrivals) /\ r \notin Followed \ {o}
      BY <1>4, <2>4 DEF AllIn
    <2>14. GoodBook(book') /\ Mirrors(book', Followed', live') /\ InOrder(book', arrivals')
      BY <1>1, <2>4, <2>7, <2>8, <2>10, <2>11, <2>12, <2>13, InsertKeeps
    <2> QED
      BY <1>3, <1>5, <1>6, <2>4, <2>14 DEF RInv, MirrorInv
  <1> QED
    BY <1>7, <1>8

(* A Stock Directory message keeps it: whatever rests then was missed, and  *)
(* the assert in set_locate holds. *)
LEMMA DirectoryKeeps ==
  ASSUME RInv, NEW locate \in Locate, ReplayDirectory(locate)
  PROVE  RInv'
  <1>1. locate # 0 /\ UNCHANGED <<live, arrivals, missed>> /\ OnStockDirectory(locate)
    BY DEF ReplayDirectory, SendOther
  <1>2. SessionInv'
    BY <1>1 DEF RInv, SessionInv
  <1>3. CASE ~resolved_ /\ StockOf[locate] = symbol_
    <2>1. locate_ = 0 /\ DOMAIN live \subseteq missed /\ Followed = {}
      BY <1>3 DEF RInv, HandlerInv, Followed
    <2>2. locate_' = locate /\ resolved_' = TRUE /\ UNCHANGED <<book, aborted>>
      BY <1>1, <1>3, <2>1 DEF OnStockDirectory, set_locate, AssertPasses, AssertFails
    <2>3. HandlerInv'
      BY <1>1, <2>2 DEF HandlerInv
    <2>4. Followed' = {}
      BY <1>1, <2>1 DEF Followed
    <2> QED
      BY <1>1, <1>2, <2>1, <2>2, <2>3, <2>4, UntouchedKeeps
  <1>4. CASE ~(~resolved_ /\ StockOf[locate] = symbol_)
    <2>1. UNCHANGED <<locate_, book, aborted, resolved_>>
      BY <1>1, <1>4 DEF OnStockDirectory, OnNoBookEffect, vars
    <2>2. HandlerInv'
      BY <1>1, <2>1 DEF RInv, HandlerInv
    <2>3. Followed' = Followed
      BY <1>1, <2>1 DEF Followed
    <2> QED
      BY <1>1, <1>2, <2>1, <2>2, <2>3, UntouchedKeeps
  <1> QED
    BY <1>3, <1>4

(* A record about no order keeps it. *)
LEMMA OtherKeeps ==
  ASSUME RInv, UNCHANGED <<locate_, book, aborted, live, arrivals, resolved_, missed>>
  PROVE  RInv'
  <1>1. SessionInv' /\ HandlerInv'
    BY DEF RInv, SessionInv, HandlerInv
  <1>2. Followed' = Followed
    BY DEF Followed
  <1> QED
    BY <1>1, <1>2, UntouchedKeeps

(***************************************************************************)
(* On every session of an exchange that keeps its rules, wherever in it    *)
(* the directory message stands, BookReplayHandler's book is sound, holds  *)
(* the exchange's orders of its symbol, and no assert fires.               *)
(***************************************************************************)
THEOREM ReplayInductive == ReplaySpec => []RInv
  <1>1. ReplayInit => RInv
    <2> SUFFICES ASSUME ReplayInit PROVE RInv
      OBVIOUS
    <2>1. /\ locate_ = 0 /\ aborted = FALSE /\ resolved_ = FALSE
          /\ live = EmptyMap /\ arrivals = <<>> /\ missed = {}
          /\ book = EmptyBook
      BY DEF ReplayInit, Init, ExchangeInit
    <2>2. DOMAIN live = {} /\ Followed = {}
      BY <2>1 DEF EmptyMap, Followed
    <2>3. SessionInv
      BY <2>1, <2>2 DEF SessionInv, IsMapOf, EmptyMap
    <2>4. HandlerInv
      BY <2>1, <2>2 DEF HandlerInv
    <2>5. /\ \A s \in Side : DOMAIN book.levels[s] = {}
          /\ DOMAIN book.orders_ = {}
      BY <2>1 DEF EmptyBook, EmptyMap
    <2>6. IsBook(book)
      BY <2>1 DEF EmptyBook, EmptyMap, IsBook, IsMapOf
    <2>7. \A s \in Side : \A p, i : ~Slot(book, s, p, i)
      BY <2>5 DEF Slot
    <2>8. FiniteBook(book)
      BY <2>5, FS_EmptySet DEF FiniteBook
    <2>9. GoodBook(book)
      BY <2>5, <2>6, <2>8
      DEF GoodBook, BookInv, NoEmptyLevel, NodesUnique, PositionsLive, NoOrphan, TotalsExact
    <2>10. Mirrors(book, Followed, live) /\ InOrder(book, arrivals)
      BY <2>2, <2>5, <2>7 DEF Mirrors, InOrder
    <2> QED
      BY <2>1, <2>3, <2>4, <2>9, <2>10 DEF RInv, MirrorInv
  <1>2. RInv /\ [ReplayNext]_replayVars => RInv'
    <2> SUFFICES ASSUME RInv, [ReplayNext]_replayVars PROVE RInv'
      OBVIOUS
    <2>1. ASSUME NEW m \in AddOrder, ReplayAdd(m) PROVE RInv'
      BY <2>1, AddKeeps DEF ReplayAdd
    <2>2. ASSUME NEW m \in AddOrderWithMpid, ReplayAddWithMpid(m) PROVE RInv'
      <3>1. m.order \in AddOrder
        BY <2>2 DEF AddOrderWithMpid
      <3> QED
        BY <2>2, <3>1, AddKeeps DEF ReplayAddWithMpid, OnAddOrderWithMpid
    <2>3. ASSUME NEW m \in OrderExecuted, SendReduction(m, m.executed_shares),
                 OnOrderExecuted(m) \/ OnOtherLocate(m.stock_locate),
                 UNCHANGED <<resolved_, missed>>
          PROVE  RInv'
      <3>1. m.executed_shares \in Shares
        BY DEF OrderExecuted
      <3> QED
        BY <2>3, <3>1, ReductionKeeps DEF OnOrderExecuted
    <2>4. ASSUME NEW m \in OrderExecuted, ReplayExecuted(m) PROVE RInv'
      BY <2>3, <2>4 DEF ReplayExecuted
    <2>5. ASSUME NEW m \in OrderExecutedWithPrice, ReplayExecutedWithPrice(m) PROVE RInv'
      <3>1. m.executed \in OrderExecuted
        BY <2>5 DEF OrderExecutedWithPrice
      <3> QED
        BY <2>3, <2>5, <3>1 DEF ReplayExecutedWithPrice, OnOrderExecutedWithPrice
    <2>6. ASSUME NEW m \in OrderCancel, ReplayCancel(m) PROVE RInv'
      <3>1. m.cancelled_shares \in Shares
        BY <2>6 DEF OrderCancel
      <3> QED
        BY <2>6, <3>1, ReductionKeeps DEF ReplayCancel, OnOrderCancel
    <2>7. ASSUME NEW m \in OrderDelete, ReplayDelete(m) PROVE RInv'
      BY <2>7, DeleteKeeps DEF ReplayDelete
    <2>8. ASSUME NEW m \in OrderReplace, ReplayReplace(m) PROVE RInv'
      BY <2>8, ReplaceKeeps DEF ReplayReplace
    <2>9. ASSUME NEW locate \in Locate, ReplayTrade(locate) PROVE RInv'
      BY <2>9, OtherKeeps DEF ReplayTrade, SendOther, OnTradeNonCross, OnOtherLocate, vars
    <2>10. ASSUME NEW locate \in Locate, ReplayDirectory(locate) PROVE RInv'
      BY <2>10, DirectoryKeeps
    <2>11. CASE ReplayOther
      BY <2>11, OtherKeeps DEF ReplayOther, SendOther, OnNoBookEffect, vars
    <2>12. CASE UNCHANGED replayVars
      BY <2>12, OtherKeeps DEF replayVars
    <2> QED
      BY <2>1, <2>2, <2>4, <2>5, <2>6, <2>7, <2>8, <2>9, <2>10, <2>11, <2>12 DEF ReplayNext
  <1> QED
    BY <1>1, <1>2, PTL DEF ReplaySpec

-----------------------------------------------------------------------------
(* What follows from it *)

(* No assert of set_locate or reduce_or_remove_in fires on such a session. *)
THEOREM NoAssertFires == ReplaySpec => []NeverAborts
  <1>1. RInv => NeverAborts
    BY DEF RInv, NeverAborts
  <1> QED
    BY <1>1, ReplayInductive, PTL

(* check_rep() returns true after every record of such a session. *)
THEOREM AuditHolds == ReplaySpec => []RepHolds
  <1>1. RInv => RepHolds
    <2> SUFFICES ASSUME RInv PROVE check_rep(book)
      BY DEF RepHolds
    <2>1. /\ IsBook(book) /\ NodesUnique(book) /\ FiniteBook(book) /\ PositionsLive(book)
          /\ TotalsExact(book) /\ NoEmptyLevel(book) /\ NoOrphan(book)
      BY DEF RInv, MirrorInv, GoodBook, BookInv
    <2> QED
      BY <2>1, CheckRepDecides
  <1> QED
    BY <1>1, ReplayInductive, PTL

(* Every followed order rests at its own price, on its own side. *)
LEMMA FollowedRests ==
  ASSUME RInv, NEW r \in Followed
  PROVE  /\ live[r].side \in Side
         /\ \E i : /\ Slot(book, live[r].side, live[r].price, i)
                   /\ RefAt(book, live[r].side, live[r].price, i) = r
  <1>1. GoodBook(book)
    BY DEF RInv, MirrorInv
  <1>2. /\ r \in DOMAIN book.orders_
        /\ book.orders_[r].side = live[r].side
        /\ book.orders_[r].price = live[r].price
    BY RestsAsHeld
  <1> QED
    BY <1>1, <1>2, PlaceFacts

(***************************************************************************)
(* Price-time priority: every queue of the book holds exactly the          *)
(* exchange's live orders at its price, with their remaining shares, in    *)
(* the order in which they joined.                                         *)
(***************************************************************************)
THEOREM PriceTimePriority == ReplaySpec => []QueuesMirrorExchange
  <1>1. RInv => QueuesMirrorExchange
    <2> SUFFICES ASSUME RInv, NEW side \in Side, NEW price \in Price
                 PROVE  LET queue        == LevelAt(book, side, price).orders
                            reference(i) == queue[i].order_reference
                        IN  /\ {reference(i) : i \in DOMAIN queue} = FollowedAt(side, price)
                            /\ \A i \in DOMAIN queue : queue[i].shares = live[reference(i)].shares
                            /\ \A i, j \in DOMAIN queue :
                                 i < j => Before(arrivals, reference(i), reference(j))
      BY DEF QueuesMirrorExchange
    <2> DEFINE queue == LevelAt(book, side, price).orders
    <2>1. GoodBook(book) /\ Mirrors(book, Followed, live) /\ InOrder(book, arrivals)
      BY DEF RInv, MirrorInv
    <2>2. \A i : i \in DOMAIN queue <=> Slot(book, side, price, i)
      <3>1. CASE price \in DOMAIN book.levels[side]
        BY <3>1 DEF LevelAt, Slot
      <3>2. CASE price \notin DOMAIN book.levels[side]
        <4>1. queue = <<>>
          BY <3>2 DEF LevelAt, NoLevel
        <4> QED
          BY <3>2, <4>1 DEF Slot
      <3> QED
        BY <3>1, <3>2
    <2>3. \A i \in DOMAIN queue : queue[i] = OrderAt(book, side, price, i)
      BY <2>2 DEF LevelAt, Slot, OrderAt
    <2> HIDE DEF queue
    <2>4. \A i \in DOMAIN queue :
            /\ queue[i].order_reference = RefAt(book, side, price, i)
            /\ queue[i].order_reference \in FollowedAt(side, price)
            /\ queue[i].shares = live[queue[i].order_reference].shares
      <3> SUFFICES ASSUME NEW i \in DOMAIN queue
                   PROVE  /\ queue[i].order_reference = RefAt(book, side, price, i)
                          /\ queue[i].order_reference \in FollowedAt(side, price)
                          /\ queue[i].shares = live[queue[i].order_reference].shares
        OBVIOUS
      <3>1. Slot(book, side, price, i) /\ queue[i] = OrderAt(book, side, price, i)
        BY <2>2, <2>3
      <3>2. /\ RefAt(book, side, price, i) \in Followed
            /\ live[RefAt(book, side, price, i)].side = side
            /\ live[RefAt(book, side, price, i)].price = price
            /\ live[RefAt(book, side, price, i)].shares = OrderAt(book, side, price, i).shares
        BY <2>1, <3>1 DEF Mirrors
      <3>3. queue[i].order_reference = RefAt(book, side, price, i)
        BY <3>1 DEF RefAt
      <3> QED
        BY <3>1, <3>2, <3>3 DEF FollowedAt
    <2>5. ASSUME NEW r \in FollowedAt(side, price)
          PROVE  \E i \in DOMAIN queue : queue[i].order_reference = r
      <3>1. r \in Followed /\ live[r].side = side /\ live[r].price = price
        BY DEF FollowedAt
      <3>2. PICK i : Slot(book, side, price, i) /\ RefAt(book, side, price, i) = r
        BY <3>1, FollowedRests
      <3> QED
        BY <2>2, <2>4, <3>2
    <2>6. ASSUME NEW i \in DOMAIN queue, NEW j \in DOMAIN queue, i < j
          PROVE  Before(arrivals, queue[i].order_reference, queue[j].order_reference)
      BY <2>1, <2>2, <2>4, <2>6 DEF InOrder
    <2>7. {queue[i].order_reference : i \in DOMAIN queue} = FollowedAt(side, price)
      BY <2>4, <2>5
    <2> QED
      BY <2>4, <2>6, <2>7 DEF queue
  <1> QED
    BY <1>1, ReplayInductive, PTL

-----------------------------------------------------------------------------
(* The totals that best_bid() and best_ask() report *)

(* No level can hold so many shares that its 64-bit total wraps: there are  *)
(* not enough orders at rest.                                               *)
TotalsFit == IsFiniteSet(Node) /\ Cardinality(Node) * (ShareMod - 1) < TotalMod

(* A queue's shares are bounded by its length. *)
LEMMA SumBound ==
  ASSUME NEW q \in Seq(RestingOrder)
  PROVE  SumShares(q) \in Nat /\ SumShares(q) <= Len(q) * (ShareMod - 1)
  <1> DEFINE n == Len(q)
             c == ShareMod - 1
  <1>1. PICK g : IsWalk(g, q) /\ SumShares(q) = g[n]
    BY WalkExists
  <1>2. n \in Nat /\ c \in Nat /\ \A i \in 1 .. n : q[i].shares \in Nat /\ q[i].shares <= c
    <2>1. n \in Nat /\ c \in Nat
      BY WidthAssumption
    <2>2. ASSUME NEW i \in 1 .. n PROVE q[i].shares \in 0 .. c
      <3>1. q[i] \in RestingOrder
        OBVIOUS
      <3> QED
        BY <3>1 DEF RestingOrder, Shares
    <2> HIDE DEF c
    <2> QED
      BY <2>1, <2>2
  <1>3. /\ g[0] = 0
        /\ \A i \in 0 .. n : g[i] \in Nat
        /\ \A i \in 1 .. n : g[i] = g[i - 1] + q[i].shares
    BY <1>1 DEF IsWalk
  <1> DEFINE T == {i \in 0 .. n : g[i] <= i * c}
  <1> HIDE DEF n, c
  <1>4. 0 \in T
    BY <1>2, <1>3
  <1>5. ASSUME NEW i \in 0 .. n - 1, i \in T PROVE i + 1 \in T
    <2>1. i + 1 \in 1 .. n /\ i \in 0 .. n /\ (i + 1) - 1 = i
      BY <1>2
    <2>2. g[i + 1] = g[i] + q[i + 1].shares /\ g[i] <= i * c
      BY <1>3, <1>5, <2>1
    <2>3. g[i] \in Nat /\ q[i + 1].shares \in Nat /\ q[i + 1].shares <= c
      BY <1>2, <1>3, <2>1
    <2>4. (i + 1) * c = i * c + c /\ i * c \in Nat
      BY <1>2
    <2>5. g[i + 1] <= (i + 1) * c
      BY <1>2, <2>2, <2>3, <2>4
    <2> QED
      BY <1>2, <2>1, <2>5
  <1>6. \A i \in 0 .. n : i \in T
    <2>1. \A i \in 0 .. n - 1 : i \in T => i + 1 \in T
      BY <1>5
    <2> HIDE DEF T
    <2> QED
      BY <1>2, <1>4, <2>1, UpTo, Zenon
  <1>7. g[n] \in Nat /\ g[n] <= n * c
    BY <1>2, <1>3, <1>6
  <1> QED
    BY <1>1, <1>7 DEF n, c

(* A queue has no more orders than there are addresses. *)
LEMMA QueueFits ==
  ASSUME NEW b, IsBook(b), NodesUnique(b), IsFiniteSet(Node),
         NEW s \in Side, NEW p \in DOMAIN b.levels[s]
  PROVE  Len(b.levels[s][p].orders) <= Cardinality(Node)
  <1> DEFINE q == b.levels[s][p].orders
             n == Len(q)
             f == [i \in 1 .. n |-> q[i].node]
  <1>1. q \in Seq(RestingOrder) /\ n \in Nat /\ DOMAIN q = 1 .. n
    <2>1. q \in Seq(RestingOrder)
      BY LevelFacts
    <2> HIDE DEF q
    <2> QED
      BY <2>1
  <1>2. ASSUME NEW i \in 1 .. n, NEW j \in 1 .. n, q[i].node = q[j].node PROVE i = j
    <2>1. Slot(b, s, p, i) /\ Slot(b, s, p, j)
      BY <1>1 DEF Slot
    <2>2. OrderAt(b, s, p, i).node = OrderAt(b, s, p, j).node
      BY <1>2 DEF OrderAt
    <2> QED
      BY <2>1, <2>2, SameSlot
  <1> HIDE DEF q, n
  <1>3. ASSUME NEW i \in 1 .. n PROVE q[i].node \in Node
    <2>1. q[i] \in RestingOrder
      BY <1>1 DEF n
    <2> QED
      BY <2>1 DEF RestingOrder
  <1>4. f \in Injection(1 .. n, Node)
    BY <1>2, <1>3 DEF Injection, IsInjective
  <1>5. Cardinality(1 .. n) <= Cardinality(Node)
    <2> HIDE DEF f
    <2> QED
      BY <1>4, FS_Injection
  <1>6. Cardinality(1 .. n) = n
    BY <1>1, FS_Interval
  <1> QED
    BY <1>5, <1>6 DEF n, q

(* When totals fit, a level's total is what rests there. *)
LEMMA TotalIsSum ==
  ASSUME TotalsFit, NEW b, GoodBook(b), NEW s \in Side, NEW p \in DOMAIN b.levels[s]
  PROVE  b.levels[s][p].total_shares = SumShares(b.levels[s][p].orders)
  <1> DEFINE q == b.levels[s][p].orders
             n == Len(q)
             N == Cardinality(Node)
             c == ShareMod - 1
             x == SumShares(q)
  <1>1. IsBook(b) /\ NodesUnique(b) /\ TotalsExact(b)
    BY DEF GoodBook, BookInv
  <1>2. q \in Seq(RestingOrder) /\ n \in Nat
    <2>1. q \in Seq(RestingOrder)
      BY <1>1, LevelFacts
    <2> HIDE DEF q
    <2> QED
      BY <2>1
  <1>3. x \in Nat /\ x <= n * c
    BY <1>2, SumBound
  <1>4. n <= N /\ N \in Nat
    BY <1>1, QueueFits, FS_CardinalityType DEF TotalsFit
  <1>5. c \in Nat /\ N * c < TotalMod /\ TotalMod \in Nat \ {0}
    BY WidthAssumption DEF TotalsFit
  <1>6. b.levels[s][p].total_shares = x % TotalMod
    BY <1>1 DEF TotalsExact, LevelTotalExact
  <1> HIDE DEF n, N, c, x
  <1>7. n * c <= N * c
    BY <1>2, <1>4, <1>5
  <1>8. x < TotalMod
    <2>1. n * c \in Nat /\ N * c \in Nat
      BY <1>2, <1>4, <1>5
    <2> QED
      BY <1>3, <1>5, <1>7, <2>1
  <1>9. x % TotalMod = x
    BY <1>3, <1>5, <1>8
  <1> QED
    BY <1>6, <1>9 DEF x

(* q is a list of S, each with the shares F gives it.                       *)
Lists(q, S, F) ==
  /\ \A i \in 1 .. Len(q) : /\ q[i].order_reference \in S
                            /\ F[q[i].order_reference] = q[i].shares
  /\ \A i, j \in 1 .. Len(q) : q[i].order_reference = q[j].order_reference => i = j
  /\ \A x \in S : \E i \in 1 .. Len(q) : q[i].order_reference = x

(* The references of a queue's first i orders.                              *)
RefsUpTo(q, i) == {q[j].order_reference : j \in 1 .. i}

(* The walk over a queue adds what its references stand for. *)
LEMMA WalkIsSetSum ==
  ASSUME NEW q \in Seq(RestingOrder), NEW S, IsFiniteSet(S), NEW F, \A x \in S : F[x] \in Nat,
         NEW h, IsSetSum(h, F, S), Lists(q, S, F)
  PROVE  SumShares(q) = h[S]
  <1> DEFINE n == Len(q)
  <1>1. PICK g : IsWalk(g, q) /\ SumShares(q) = g[n]
    BY WalkExists
  <1>2. /\ g[0] = 0
        /\ \A i \in 0 .. n : g[i] \in Nat
        /\ \A i \in 1 .. n : g[i] = g[i - 1] + q[i].shares
        /\ n \in Nat
    BY <1>1 DEF IsWalk
  <1> USE DEF Lists
  <1>3. h[{}] = 0 /\ \A s \in SUBSET S : h[s] \in Nat /\ \A x \in s : h[s] = F[x] + h[s \ {x}]
    BY SetSumTake
  <1>4. RefsUpTo(q, n) = S
    BY DEF RefsUpTo
  <1>5. RefsUpTo(q, 0) = {}
    BY DEF RefsUpTo
  <1>6. ASSUME NEW i \in 0 .. n - 1
        PROVE  /\ q[i + 1].order_reference \in RefsUpTo(q, i + 1)
               /\ RefsUpTo(q, i + 1) \in SUBSET S
               /\ RefsUpTo(q, i + 1) \ {q[i + 1].order_reference} = RefsUpTo(q, i)
    <2>1. i + 1 \in 1 .. n /\ i + 1 \in 1 .. i + 1 /\ \A j \in 1 .. i + 1 : j \in 1 .. n
      BY <1>2
    <2>2. \A j \in 1 .. i + 1 : j \in 1 .. i \/ j = i + 1
      BY <1>2
    <2>3. \A j \in 1 .. i : j \in 1 .. i + 1 /\ j # i + 1
      BY <1>2
    <2>4. \A j \in 1 .. i : q[j].order_reference # q[i + 1].order_reference
      BY <2>1, <2>3
    <2> QED
      BY <2>1, <2>2, <2>3, <2>4 DEF RefsUpTo
  <1> DEFINE T == {i \in 0 .. n : g[i] = h[RefsUpTo(q, i)]}
  <1>7. 0 \in T
    <2>1. g[0] = h[RefsUpTo(q, 0)]
      BY <1>2, <1>3, <1>5, Zenon
    <2>2. 0 \in 0 .. n
      BY <1>2
    <2> QED
      BY <2>1, <2>2
  <1>8. ASSUME NEW i \in 0 .. n - 1, i \in T PROVE i + 1 \in T
    <2> DEFINE r == q[i + 1].order_reference
               here == RefsUpTo(q, i + 1)
               before == RefsUpTo(q, i)
    <2>1. i + 1 \in 1 .. n /\ i + 1 \in 0 .. n /\ (i + 1) - 1 = i /\ i \in 0 .. n
      BY <1>2
    <2>2. r \in here /\ here \in SUBSET S /\ here \ {r} = before
      BY <1>6
    <2>3. g[i] = h[before]
      BY <1>8
    <2>4. F[r] = q[i + 1].shares
      BY <2>1
    <2> HIDE DEF r, here, before
    <2>5. h[here] = F[r] + h[before] /\ F[r] \in Nat
      BY <1>3, <2>2
    <2>6. g[i + 1] = g[i] + q[i + 1].shares
      BY <1>2, <2>1
    <2>7. g[i] \in Nat
      BY <1>2, <2>1
    <2>8. g[i + 1] = h[here]
      BY <2>3, <2>4, <2>5, <2>6, <2>7
    <2> QED
      BY <2>1, <2>8 DEF here
  <1>9. \A i \in 0 .. n : i \in T
    <2>1. \A i \in 0 .. n - 1 : i \in T => i + 1 \in T
      BY <1>8
    <2> HIDE DEF T, n
    <2> QED
      BY <1>2, <1>7, <2>1, UpTo, Zenon
  <1>10. g[n] = h[RefsUpTo(q, n)]
    <2>1. n \in T
      BY <1>2, <1>9
    <2> QED
      BY <2>1
  <1> QED
    BY <1>1, <1>4, <1>10

(* A level's total is the sum of the exchange's live orders there. *)
LEMMA TotalIsLive ==
  ASSUME TotalsFit, RInv, NEW side \in Side, NEW price \in DOMAIN book.levels[side]
  PROVE  book.levels[side][price].total_shares
           = MapThenSumSet(LAMBDA r : live[r].shares, FollowedAt(side, price))
  <1> DEFINE S == FollowedAt(side, price)
             q == book.levels[side][price].orders
             F == [r \in S |-> live[r].shares]
             Eq(g) == g = [P \in SUBSET S |->
                             IF P = {} THEN 0
                             ELSE live[CHOOSE x \in P : TRUE].shares
                                    + g[P \ {CHOOSE x \in P : TRUE}]]
  <1>1. GoodBook(book) /\ Mirrors(book, Followed, live) /\ IsBook(book)
    BY DEF RInv, MirrorInv, GoodBook, BookInv
  <1>2. q \in Seq(RestingOrder) /\ \A i : Slot(book, side, price, i) <=> i \in 1 .. Len(q)
    <2>1. q \in Seq(RestingOrder)
      BY <1>1, LevelFacts
    <2>2. DOMAIN q = 1 .. Len(q)
      <3> HIDE DEF q
      <3> QED
        BY <2>1
    <2> QED
      BY <2>1, <2>2 DEF Slot
  <1>3. \A i \in 1 .. Len(q) :
          /\ q[i].order_reference = RefAt(book, side, price, i)
          /\ q[i].shares = OrderAt(book, side, price, i).shares
    BY DEF RefAt, OrderAt
  <1> HIDE DEF q
  <1>4. ASSUME NEW i \in 1 .. Len(q)
        PROVE  q[i].order_reference \in S /\ live[q[i].order_reference].shares = q[i].shares
    <2>1. /\ RefAt(book, side, price, i) \in Followed
          /\ live[RefAt(book, side, price, i)].side = side
          /\ live[RefAt(book, side, price, i)].price = price
          /\ live[RefAt(book, side, price, i)].shares = OrderAt(book, side, price, i).shares
      BY <1>1, <1>2 DEF Mirrors
    <2> QED
      BY <1>3, <2>1 DEF FollowedAt
  <1>5. ASSUME NEW i \in 1 .. Len(q), NEW j \in 1 .. Len(q),
               q[i].order_reference = q[j].order_reference
        PROVE  i = j
    <2>1. /\ PlaceOf(book, RefAt(book, side, price, i)) = i
          /\ PlaceOf(book, RefAt(book, side, price, j)) = j
      BY <1>1, <1>2, PlaceFacts
    <2> QED
      BY <1>3, <1>5, <2>1
  <1>6. ASSUME NEW r \in S PROVE \E i \in 1 .. Len(q) : q[i].order_reference = r
    <2>1. r \in Followed /\ live[r].side = side /\ live[r].price = price
      BY DEF FollowedAt
    <2>2. PICK i : Slot(book, side, price, i) /\ RefAt(book, side, price, i) = r
      BY <2>1, FollowedRests
    <2> QED
      BY <1>2, <1>3, <2>2
  <1>7. IsFiniteSet(S)
    <2>1. IsFiniteSet(DOMAIN book.orders_) /\ DOMAIN book.orders_ = Followed
      BY <1>1 DEF GoodBook, FiniteBook, Mirrors
    <2>2. S \in SUBSET Followed
      BY DEF FollowedAt
    <2> QED
      BY <2>1, <2>2, FS_Subset
  <1>8. \A r \in S : F[r] \in Nat
    <2>1. ASSUME NEW r \in S PROVE live[r].shares \in Nat
      <3>1. r \in DOMAIN live
        BY DEF FollowedAt, Followed
      <3>2. live[r] \in ExchangeOrder
        BY <3>1 DEF RInv, SessionInv, IsMapOf
      <3> QED
        BY <3>2 DEF ExchangeOrder, Shares
    <2> QED
      BY <2>1
  <1>9. PICK h \in [SUBSET S -> Nat] : IsSetSum(h, F, S)
    <2> HIDE DEF S, F
    <2> QED
      BY <1>7, <1>8, SetSumExists
  <1>10. \A P \in SUBSET S : P # {} => (CHOOSE x \in P : TRUE) \in S
    <2> HIDE DEF S
    <2> QED
      OBVIOUS
  <1>11. ASSUME NEW g, NEW P \in SUBSET S
         PROVE  SumStep(g, F, P) = IF P = {} THEN 0
                                   ELSE live[CHOOSE x \in P : TRUE].shares
                                          + g[P \ {CHOOSE x \in P : TRUE}]
    <2> HIDE DEF S
    <2> QED
      BY <1>10 DEF SumStep, First
  <1>12. Eq(h)
    <2> HIDE DEF F, S
    <2>1. \A P \in SUBSET S : h[P] = SumStep(h, F, P)
      BY <1>9 DEF IsSetSum
    <2> QED
      BY <1>11, <2>1
  <1> DEFINE g == CHOOSE g : Eq(g)
  <1>13. Eq(g)
    <2> HIDE DEF Eq
    <2> QED
      BY <1>12
  <1>14. MapThenSumSet(LAMBDA r : live[r].shares, S) = g[S]
    BY DEF MapThenSumSet, MapThenFoldSet
  <1> HIDE DEF g, S
  <1>15. IsSetSum(g, F, S)
    <2>1. ASSUME NEW P \in SUBSET S PROVE g[P] = SumStep(g, F, P)
      <3> HIDE DEF F
      <3>1. g[P] = IF P = {} THEN 0
                   ELSE live[CHOOSE x \in P : TRUE].shares
                          + g[P \ {CHOOSE x \in P : TRUE}]
        BY <1>13
      <3> HIDE DEF Eq
      <3> QED
        BY <1>11, <3>1
    <2> HIDE DEF F, Eq
    <2> QED
      BY <2>1 DEF IsSetSum
  <1>16. Lists(q, S, F)
    BY <1>4, <1>5, <1>6 DEF Lists
  <1> HIDE DEF F, Eq
  <1>17. SumShares(q) = g[S]
    BY <1>2, <1>7, <1>8, <1>15, <1>16, WalkIsSetSum
  <1>18. book.levels[side][price].total_shares = SumShares(q)
    BY <1>1, TotalIsSum DEF q
  <1> QED
    BY <1>14, <1>17, <1>18 DEF S

(* The prices with a level are those of the exchange's live orders. *)
LEMMA PricesLive ==
  ASSUME RInv, NEW side \in Side
  PROVE  {live[r].price : r \in {x \in Followed : live[x].side = side}} = DOMAIN book.levels[side]
  <1>1. GoodBook(book) /\ Mirrors(book, Followed, live) /\ IsBook(book) /\ NoEmptyLevel(book)
    BY DEF RInv, MirrorInv, GoodBook, BookInv
  <1>2. ASSUME NEW r \in Followed, live[r].side = side
        PROVE  live[r].price \in DOMAIN book.levels[side]
    <2>1. PICK i : Slot(book, live[r].side, live[r].price, i)
      BY FollowedRests
    <2> QED
      BY <1>2, <2>1 DEF Slot
  <1>3. ASSUME NEW p \in DOMAIN book.levels[side]
        PROVE  \E r \in Followed : live[r].side = side /\ live[r].price = p
    <2>1. book.levels[side][p].orders \in Seq(RestingOrder) /\ book.levels[side][p].orders # <<>>
      BY <1>1, LevelFacts DEF NoEmptyLevel
    <2>2. 1 \in DOMAIN book.levels[side][p].orders
      <3> SUFFICES ASSUME NEW q \in Seq(RestingOrder), q # <<>> PROVE 1 \in DOMAIN q
        BY <2>1
      <3> QED
        BY EmptySeq
    <2>3. Slot(book, side, p, 1)
      BY <2>2 DEF Slot
    <2> QED
      BY <1>1, <2>3 DEF Mirrors
  <1> QED
    BY <1>2, <1>3

(* begin() of a price map that is not empty is its extreme. *)
LEMMA BestPriceFacts ==
  ASSUME NEW side \in Side, NEW P \in SUBSET Nat, IsFiniteSet(P), P # {}
  PROVE  /\ BestPrice(side, P) \in P
         /\ \A p \in P : IF side = Buy THEN p <= BestPrice(side, P) ELSE BestPrice(side, P) <= p
  <1>1. CASE side = Buy
    <2>1. \E n \in P : \A m \in P : n >= m
      BY GreatestNumber
    <2>2. Max(P) \in P /\ \A m \in P : Max(P) >= m
      BY <2>1 DEF Max
    <2>3. BestPrice(side, P) = Max(P)
      BY <1>1 DEF BestPrice
    <2> QED
      BY <1>1, <2>2, <2>3
  <1>2. CASE side # Buy
    <2>1. \E n \in P : \A m \in P : n <= m
      BY LeastNumber
    <2>2. Min(P) \in P /\ \A m \in P : Min(P) <= m
      BY <2>1 DEF Min
    <2>3. BestPrice(side, P) = Min(P)
      BY <1>2 DEF BestPrice
    <2> QED
      BY <1>2, <2>2, <2>3
  <1> QED
    BY <1>1, <1>2

(***************************************************************************)
(* best_bid() and best_ask() are the exchange's own top of the book, with  *)
(* all the shares that rest there, as long as the orders that fit in       *)
(* memory cannot wrap a 64-bit total.                                      *)
(***************************************************************************)
THEOREM TopIsRight ==
  ASSUME TotalsFit
  PROVE  ReplaySpec => []TopOfBook
  <1>1. RInv => TopOfBook
    <2> SUFFICES ASSUME RInv, NEW side \in Side
                 PROVE  LET prices == {live[r].price : r \in {x \in Followed : live[x].side = side}}
                        IN  IF prices = {} THEN Best(book, side) = {}
                            ELSE \E best \in Best(book, side) :
                                   /\ best.price \in prices
                                   /\ \A p \in prices : IF side = Buy THEN p <= best.price
                                                                      ELSE best.price <= p
                                   /\ best.shares = MapThenSumSet(LAMBDA r : live[r].shares,
                                                                  FollowedAt(side, best.price))
      BY DEF TopOfBook
    <2> DEFINE prices == {live[r].price : r \in {x \in Followed : live[x].side = side}}
               D == DOMAIN book.levels[side]
               price == BestPrice(side, D)
               best == [price |-> price, shares |-> book.levels[side][price].total_shares]
    <2>1. prices = D
      BY PricesLive
    <2>2. D \in SUBSET Nat /\ IsFiniteSet(D)
      BY PriceAssumption DEF RInv, MirrorInv, GoodBook, BookInv, IsBook, IsMapOf, FiniteBook
    <2>3. CASE D = {}
      BY <2>1, <2>3 DEF Best
    <2>4. CASE D # {}
      <3>1. /\ price \in D
            /\ \A p \in D : IF side = Buy THEN p <= price ELSE price <= p
        <4> HIDE DEF D
        <4> QED
          BY <2>2, <2>4, BestPriceFacts
      <3>2. Best(book, side) = {best}
        BY <2>4 DEF Best
      <3>3. book.levels[side][price].total_shares
              = MapThenSumSet(LAMBDA r : live[r].shares, FollowedAt(side, price))
        <4> HIDE DEF price
        <4> QED
          BY <3>1, TotalIsLive
      <3>4. best.price = price /\ best.shares = book.levels[side][price].total_shares
        OBVIOUS
      <3> HIDE DEF best, price, prices, D
      <3>5. best.shares = MapThenSumSet(LAMBDA r : live[r].shares, FollowedAt(side, best.price))
        BY <3>3, <3>4
      <3>6. /\ best.price \in prices
            /\ \A p \in prices : IF side = Buy THEN p <= best.price ELSE best.price <= p
        BY <2>1, <3>1, <3>4
      <3> QED
        BY <2>1, <2>4, <3>2, <3>5, <3>6 DEF prices
    <2> QED
      BY <2>3, <2>4
  <1> QED
    BY <1>1, ReplayInductive, PTL

-----------------------------------------------------------------------------
(* The reference script's view of the book *)

(* RefOrders and RefLevels of any book.                                     *)
ViewOrders(b) ==
  [r \in DOMAIN b.orders_ |-> [side   |-> b.orders_[r].side,
                               price  |-> b.orders_[r].price,
                               shares |-> RestingShares(b, r)]]

ViewLevels(b) ==
  [s \in Side |-> [p \in DOMAIN b.levels[s] |-> b.levels[s][p].total_shares]]

View(b) == [orders |-> ViewOrders(b), levels |-> ViewLevels(b)]

(* The script's dicts are the book's maps. *)
LEMMA ContainersAgree ==
  /\ \A f, k, v : Reference!MapPut(f, k, v) = MapPut(f, k, v)
  /\ \A f, k : Reference!MapErase(f, k) = MapErase(f, k)
  /\ Reference!EmptyMap = EmptyMap
  BY DEF Reference!MapPut, MapPut, Reference!MapErase, MapErase, Reference!Restrict, Restrict,
         Reference!EmptyMap, EmptyMap

(* The refinement mapping gives the book's view, before and after a step. *)
LEMMA ViewIsReference ==
  /\ [orders |-> RefOrders, levels |-> RefLevels] = View(book)
  /\ [orders |-> RefOrders, levels |-> RefLevels]' = View(book')
  <1>1. RefOrders = ViewOrders(book) /\ RefLevels = ViewLevels(book)
    BY DEF RefOrders, RefLevels, ViewOrders, ViewLevels, RestingShares, QueueOf, PlaceOf
  <1>2. RefOrders' = ViewOrders(book') /\ RefLevels' = ViewLevels(book')
    BY DEF RefOrders, RefLevels, ViewOrders, ViewLevels, RestingShares, QueueOf, PlaceOf
  <1> QED
    BY <1>1, <1>2 DEF View

(* An order as the script holds it.                                         *)
AsHeld(order) == [side |-> order.side, price |-> order.price, shares |-> order.shares]

(* The script's orders are those the book mirrors. *)
LEMMA ViewOrdersHeld ==
  ASSUME NEW b, GoodBook(b), NEW held, NEW orders, Mirrors(b, held, orders)
  PROVE  ViewOrders(b) = [r \in held |-> AsHeld(orders[r])]
  <1>1. DOMAIN b.orders_ = held
    BY DEF Mirrors
  <1>2. ASSUME NEW r \in held
        PROVE  /\ b.orders_[r].side = orders[r].side
               /\ b.orders_[r].price = orders[r].price
               /\ RestingShares(b, r) = orders[r].shares
    <2> DEFINE s == b.orders_[r].side
               p == b.orders_[r].price
               k == PlaceOf(b, r)
    <2>1. s \in Side /\ Slot(b, s, p, k) /\ RefAt(b, s, p, k) = r
      BY <1>1, PlaceFacts
    <2>2. orders[r].side = s /\ orders[r].price = p /\ orders[r].shares = OrderAt(b, s, p, k).shares
      BY <2>1 DEF Mirrors
    <2>3. RestingShares(b, r) = OrderAt(b, s, p, k).shares
      BY DEF RestingShares, QueueOf, OrderAt
    <2> QED
      BY <2>2, <2>3
  <1> QED
    BY <1>1, <1>2 DEF ViewOrders, AsHeld

(* The total of a level, or of the empty one operator[] makes, is its sum. *)
LEMMA LevelAtSum ==
  ASSUME TotalsFit, NEW b, GoodBook(b), NEW s \in Side, NEW p \in Price
  PROVE  LevelAt(b, s, p).total_shares = SumShares(LevelAt(b, s, p).orders)
  <1>1. CASE p \in DOMAIN b.levels[s]
    BY <1>1, TotalIsSum DEF LevelAt
  <1>2. CASE p \notin DOMAIN b.levels[s]
    <2>1. <<>> \in Seq(RestingOrder) /\ Len(<<>>) = 0
      OBVIOUS
    <2>2. SumShares(<<>>) = 0
      BY <2>1, WalkExists DEF IsWalk
    <2> QED
      BY <1>2, <2>2 DEF LevelAt, NoLevel
  <1> QED
    BY <1>1, <1>2

(* insert_order is the script's _insert, while no total wraps. *)
LEMMA InsertView ==
  ASSUME TotalsFit, NEW b, GoodBook(b), NEW held, NEW orders, Mirrors(b, held, orders),
         NEW side \in Side, NEW r \in OrderRef, r \notin held, NEW price \in Price,
         NEW shares \in Shares, NEW node \in Node,
         NEW c, c = insert_order(b, side, r, price, shares, node), GoodBook(c),
         NEW now, NEW after, Mirrors(c, now, after),
         JoinedBy(held, orders, r, side, price, shares, now, after)
  PROVE  View(c) = Reference!InsertOrder(View(b), r, side, price, shares)
  <1> DEFINE location == [side |-> side, price |-> price, position |-> node]
             added    == [node |-> node, order_reference |-> r, shares |-> shares]
             q        == LevelAt(b, side, price).orders
             before   == IF price \in DOMAIN b.levels[side]
                           THEN b.levels[side][price].total_shares ELSE 0
  <1>1. IsBook(b) /\ IsBook(c)
    BY DEF GoodBook, BookInv
  <1>2. added \in RestingOrder /\ added.shares = shares
    BY DEF RestingOrder
  <1>3. /\ DOMAIN c.levels[side] = DOMAIN b.levels[side] \cup {price}
        /\ c.levels[side][price].orders = Append(q, added)
        /\ \A p \in DOMAIN b.levels[side] \ {price} : c.levels[side][p] = b.levels[side][p]
        /\ \A s \in Side \ {side} : c.levels[s] = b.levels[s]
    <2> HIDE DEF location, added
    <2>1. /\ location = [side |-> side, price |-> price, position |-> node]
          /\ added = [node |-> node, order_reference |-> r, shares |-> shares]
      BY DEF location, added
    <2> QED
      BY <1>1, <2>1, InsertShape
  <1>4. q \in Seq(RestingOrder)
    BY <1>1, LevelAtFacts
  <1>5. before = LevelAt(b, side, price).total_shares
    BY DEF LevelAt, NoLevel
  <1>6. before = SumShares(q)
    BY <1>5, LevelAtSum
  <1> HIDE DEF q, added
  <1>7. c.levels[side][price].total_shares = SumShares(Append(q, added))
    <2>1. price \in DOMAIN c.levels[side]
      BY <1>3
    <2>2. c.levels[side][price].total_shares = SumShares(c.levels[side][price].orders)
      BY <2>1, TotalIsSum
    <2> QED
      BY <1>3, <2>2
  <1>8. c.levels[side][price].total_shares = before + shares
    BY <1>2, <1>4, <1>6, <1>7, SumAppend
  <1> HIDE DEF before
  <1>9. ViewLevels(c) = [ViewLevels(b) EXCEPT ![side] = MapPut(ViewLevels(b)[side], price, before + shares)]
    <2>1. /\ DOMAIN ViewLevels(b)[side] = DOMAIN b.levels[side]
          /\ \A p \in DOMAIN b.levels[side] :
               ViewLevels(b)[side][p] = b.levels[side][p].total_shares
      BY DEF ViewLevels
    <2>2. ViewLevels(c)[side] = MapPut(ViewLevels(b)[side], price, before + shares)
      <3>1. ViewLevels(c)[side]
              = [p \in DOMAIN b.levels[side] \cup {price} |-> c.levels[side][p].total_shares]
        BY <1>3 DEF ViewLevels
      <3>2. \A p \in DOMAIN b.levels[side] \cup {price} :
              c.levels[side][p].total_shares
                = IF p = price THEN before + shares ELSE ViewLevels(b)[side][p]
        BY <1>3, <1>8, <2>1
      <3> QED
        BY <2>1, <3>1, <3>2 DEF MapPut
    <2>3. \A s \in Side \ {side} : ViewLevels(c)[s] = ViewLevels(b)[s]
      BY <1>3 DEF ViewLevels
    <2>4. /\ ViewLevels(b) = [s \in Side |-> ViewLevels(b)[s]]
          /\ ViewLevels(c) = [s \in Side |-> ViewLevels(c)[s]]
      BY DEF ViewLevels
    <2> QED
      BY <2>2, <2>3, <2>4
  <1>10. ViewOrders(c) = MapPut(ViewOrders(b), r, [side |-> side, price |-> price, shares |-> shares])
    <2>1. /\ ViewOrders(b) = [t \in held |-> AsHeld(orders[t])]
          /\ ViewOrders(c) = [t \in now |-> AsHeld(after[t])]
      BY ViewOrdersHeld
    <2>2. /\ now = held \cup {r}
          /\ \A t \in held : after[t] = orders[t]
          /\ AsHeld(after[r]) = [side |-> side, price |-> price, shares |-> shares]
      BY DEF JoinedBy, AsHeld
    <2> HIDE DEF AsHeld
    <2> QED
      BY <2>1, <2>2 DEF MapPut
  <1>11. Reference!LevelsOf(side) = side
    BY DEF Reference!LevelsOf, Side, Buy, Sell
  <1>12. before = IF price \in DOMAIN ViewLevels(b)[side] THEN ViewLevels(b)[side][price] ELSE 0
    BY DEF before, ViewLevels
  <1>13. View(b).orders = ViewOrders(b) /\ View(b).levels = ViewLevels(b)
    BY DEF View
  <1>14. Reference!InsertOrder(View(b), r, side, price, shares)
           = [orders |-> MapPut(ViewOrders(b), r, [side |-> side, price |-> price, shares |-> shares]),
              levels |-> [ViewLevels(b) EXCEPT ![side] = MapPut(ViewLevels(b)[side], price, before + shares)]]
    BY <1>11, <1>12, <1>13, ContainersAgree DEF Reference!InsertOrder
  <1> QED
    BY <1>9, <1>10, <1>14 DEF View

AllPositive(held, orders) == \A r \in held : orders[r].shares \in Nat \ {0}

(* A queue's sum is no less than any of its orders. *)
LEMMA SumCovers ==
  ASSUME NEW q \in Seq(RestingOrder), NEW k \in 1 .. Len(q)
  PROVE  SumShares(q) \in Nat /\ q[k].shares \in Nat /\ q[k].shares <= SumShares(q)
  <1> DEFINE rest == RemoveAt(q, k)
  <1>1. rest \in Seq(RestingOrder) /\ q[k] \in RestingOrder
    BY RemoveAtFacts
  <1>2. q[k].shares \in Nat
    BY <1>1 DEF RestingOrder, Shares
  <1>3. SumShares(rest) = SumShares(q) - q[k].shares
    BY SumRemove
  <1> HIDE DEF rest
  <1>4. SumShares(rest) \in Nat /\ SumShares(q) \in Nat
    BY <1>1, SumBound
  <1> QED
    BY <1>2, <1>3, <1>4

(* A shrunk queue's sum falls by what was taken. *)
LEMMA ShrunkTo ==
  ASSUME NEW q \in Seq(RestingOrder), NEW k \in 1 .. Len(q), NEW left \in Shares,
         NEW gone \in BOOLEAN, gone => left = 0, NEW nq, nq = ShrunkQueue(q, k, left, gone)
  PROVE  /\ nq \in Seq(RestingOrder)
         /\ SumShares(nq) = SumShares(q) - (q[k].shares - left)
  <1>1. nq \in Seq(RestingOrder)
    BY ShrunkQueueFacts, Zenon
  <1>2. SumShares(nq) = SumShares(q) - (q[k].shares - left)
    BY ShrunkSum, Zenon
  <1> QED
    BY <1>1, <1>2

(* What is taken from an order is what is taken from the total.             *)
LEMMA TakenIsRemoved ==
  ASSUME NEW total \in Nat, NEW shares \in Nat, NEW removed \in Nat, NEW left \in Nat,
         left = shares - removed
  PROVE  total - removed = total - (shares - left)
  OBVIOUS

(* The levels of c are those of b, but for the queue at one price.          *)
LevelsAfter(b, c, side, price, nq) ==
  /\ \A s \in Side \ {side} : c.levels[s] = b.levels[s]
  /\ DOMAIN c.levels[side] = IF nq = <<>> THEN DOMAIN b.levels[side] \ {price}
                                          ELSE DOMAIN b.levels[side]
  /\ nq # <<>> => c.levels[side][price].orders = nq
  /\ \A p \in DOMAIN b.levels[side] \ {price} : c.levels[side][p] = b.levels[side][p]

(* The levels after a reduction.                                            *)
LEMMA ReducedLevels ==
  ASSUME NEW b, NEW at, NEW r, NEW total, NEW gone, NEW nq, NEW c,
         Reduced(b, at, r, total, gone, nq, c)
  PROVE  LevelsAfter(b, c, at.side, at.price, nq)
  BY DEF Reduced, LevelsAfter

(* The script's levels once the total at a price has become `sum`.          *)
TotalLeft(before, side, price, sum, after) ==
  after = [before EXCEPT ![side] = IF sum = 0 THEN MapErase(before[side], price)
                                              ELSE MapPut(before[side], price, sum)]

(* What a reduction makes of the totals: a level is erased with its last    *)
(* order exactly when its total reaches zero. *)
LEMMA ReduceViewLevels ==
  ASSUME TotalsFit, NEW b, GoodBook(b), NEW r \in DOMAIN b.orders_,
         NEW removed \in Nat, NEW left \in Shares, left = RestingShares(b, r) - removed,
         NEW c, GoodBook(c), NEW total, NEW gone \in BOOLEAN, gone => left = 0,
         NEW nq, nq = ShrunkQueue(QueueOf(b, r), PlaceOf(b, r), left, gone),
         Reduced(b, b.orders_[r], r, total, gone, nq, c),
         NEW now, NEW after, Mirrors(c, now, after), AllPositive(now, after),
         NEW s0, s0 = b.orders_[r].side, NEW p0, p0 = b.orders_[r].price,
         NEW sum, sum = ViewLevels(b)[s0][p0] - removed
  PROVE  /\ s0 \in Side
         /\ p0 \in DOMAIN ViewLevels(b)[s0]
         /\ TotalLeft(ViewLevels(b), s0, p0, sum, ViewLevels(c))
  <1> DEFINE q  == QueueOf(b, r)
             k  == PlaceOf(b, r)
             x  == RestingShares(b, r)
  <1>1. BookInv(b) /\ IsBook(b) /\ IsBook(c)
    BY DEF GoodBook, BookInv
  <1>2. s0 \in Side /\ p0 \in DOMAIN b.levels[s0] /\ k \in DOMAIN q
    BY <1>1, PositionFacts
  <1>3. q = b.levels[s0][p0].orders /\ x = q[k].shares
    BY DEF QueueOf, RestingShares
  <1>a. nq = ShrunkQueue(q, k, left, gone)
    OBVIOUS
  <1> HIDE DEF q, k, x
  <1>b. b.levels[s0][p0].orders \in Seq(RestingOrder)
    BY <1>1, <1>2, LevelFacts
  <1>4. q \in Seq(RestingOrder)
    BY <1>3, <1>b
  <1>5. k \in 1 .. Len(q)
    BY <1>2, <1>4
  <1>6. /\ nq \in Seq(RestingOrder)
        /\ SumShares(nq) = SumShares(q) - (q[k].shares - left)
    BY <1>4, <1>5, <1>a, ShrunkTo
  <1>7. SumShares(nq) = SumShares(q) - (q[k].shares - left)
    BY <1>6
  <1>8. SumShares(q) \in Nat /\ q[k].shares \in Nat
    BY <1>4, <1>5, SumCovers
  <1>9. b.levels[s0][p0].total_shares = SumShares(q)
    BY <1>2, <1>3, TotalIsSum
  <1>10. ViewLevels(b)[s0][p0] = b.levels[s0][p0].total_shares /\ p0 \in DOMAIN ViewLevels(b)[s0]
    BY <1>2 DEF ViewLevels
  <1>11. left = x - removed
    BY DEF x
  <1>12. sum = SumShares(nq)
    <2>1. sum = SumShares(q) - removed
      BY <1>9, <1>10
    <2>2. left = q[k].shares - removed
      BY <1>3, <1>11
    <2>3. left \in Nat
      BY DEF Shares
    <2>4. SumShares(q) - removed = SumShares(q) - (q[k].shares - left)
      BY <1>8, <2>2, <2>3, TakenIsRemoved
    <2> QED
      BY <1>7, <2>1, <2>4, Zenon
  <1>13. /\ \A s \in Side \ {s0} : c.levels[s] = b.levels[s]
         /\ DOMAIN c.levels[s0] = IF nq = <<>> THEN DOMAIN b.levels[s0] \ {p0}
                                               ELSE DOMAIN b.levels[s0]
         /\ nq # <<>> => c.levels[s0][p0].orders = nq
         /\ \A p \in DOMAIN b.levels[s0] \ {p0} : c.levels[s0][p] = b.levels[s0][p]
    <2>1. LevelsAfter(b, c, b.orders_[r].side, b.orders_[r].price, nq)
      BY ReducedLevels, Zenon
    <2>2. LevelsAfter(b, c, s0, p0, nq)
      BY <2>1, Zenon
    <2> QED
      BY <2>2, Zenon DEF LevelsAfter
  <1>14. nq = <<>> => sum = 0
    <2>1. <<>> \in Seq(RestingOrder) /\ Len(<<>>) = 0
      OBVIOUS
    <2>2. SumShares(<<>>) = 0
      BY <2>1, WalkExists DEF IsWalk
    <2> QED
      BY <1>12, <2>2
  <1>15. nq # <<>> => sum # 0 /\ c.levels[s0][p0].total_shares = sum
    <2> SUFFICES ASSUME nq # <<>> PROVE sum # 0 /\ c.levels[s0][p0].total_shares = sum
      OBVIOUS
    <2>1. p0 \in DOMAIN c.levels[s0] /\ c.levels[s0][p0].orders = nq
      BY <1>2, <1>13
    <2>2. c.levels[s0][p0].total_shares = SumShares(nq)
      <3>1. c.levels[s0][p0].total_shares = SumShares(c.levels[s0][p0].orders)
        BY <1>2, <2>1, TotalIsSum
      <3> QED
        BY <2>1, <3>1
    <2>3. 1 \in 1 .. Len(nq) /\ 1 \in DOMAIN nq
      BY <1>6, EmptySeq
    <2>4. Slot(c, s0, p0, 1) /\ OrderAt(c, s0, p0, 1) = nq[1]
      BY <2>1, <2>3 DEF Slot, OrderAt
    <2>5. nq[1].shares # 0
      BY <1>2, <2>4 DEF Mirrors, AllPositive
    <2>6. SumShares(nq) \in Nat /\ nq[1].shares \in Nat /\ nq[1].shares <= SumShares(nq)
      BY <1>6, <2>3, SumCovers
    <2> QED
      BY <1>12, <2>2, <2>5, <2>6
  <1> DEFINE old == ViewLevels(b)[s0]
  <1>16. /\ DOMAIN old = DOMAIN b.levels[s0]
         /\ \A p \in DOMAIN b.levels[s0] : old[p] = b.levels[s0][p].total_shares
    BY <1>2 DEF ViewLevels
  <1>17. ViewLevels(c)[s0] = [p \in DOMAIN c.levels[s0] |-> c.levels[s0][p].total_shares]
    BY <1>2 DEF ViewLevels
  <1> HIDE DEF old
  <1>18. ViewLevels(c)[s0] = IF sum = 0 THEN MapErase(old, p0) ELSE MapPut(old, p0, sum)
    <2>1. CASE nq = <<>>
      <3>1. sum = 0 /\ DOMAIN c.levels[s0] = DOMAIN old \ {p0}
        BY <1>13, <1>14, <1>16, <2>1
      <3>2. \A p \in DOMAIN old \ {p0} : c.levels[s0][p].total_shares = old[p]
        BY <1>13, <1>16
      <3>3. MapErase(old, p0) = [p \in DOMAIN old \ {p0} |-> old[p]]
        BY DEF MapErase, Restrict
      <3>4. ViewLevels(c)[s0] = [p \in DOMAIN old \ {p0} |-> c.levels[s0][p].total_shares]
        BY <1>17, <3>1, Zenon
      <3>5. [p \in DOMAIN old \ {p0} |-> c.levels[s0][p].total_shares]
              = [p \in DOMAIN old \ {p0} |-> old[p]]
        BY <3>2, Zenon
      <3> QED
        BY <3>1, <3>3, <3>4, <3>5, Zenon
    <2>2. CASE nq # <<>>
      <3>1. /\ sum # 0 /\ DOMAIN c.levels[s0] = DOMAIN old
            /\ c.levels[s0][p0].total_shares = sum
        BY <1>13, <1>15, <1>16, <2>2
      <3>2. \A p \in DOMAIN old \ {p0} : c.levels[s0][p].total_shares = old[p]
        BY <1>13, <1>16
      <3>3. MapPut(old, p0, sum) = [p \in DOMAIN old |-> IF p = p0 THEN sum ELSE old[p]]
        BY <1>2, <1>16 DEF MapPut
      <3>4. \A p \in DOMAIN old : c.levels[s0][p].total_shares = IF p = p0 THEN sum ELSE old[p]
        BY <3>1, <3>2
      <3>5. ViewLevels(c)[s0] = [p \in DOMAIN old |-> IF p = p0 THEN sum ELSE old[p]]
        BY <1>17, <3>1, <3>4
      <3> QED
        BY <3>1, <3>3, <3>5
    <2> QED
      BY <2>1, <2>2
  <1>19. \A s \in Side \ {s0} : ViewLevels(c)[s] = ViewLevels(b)[s]
    BY <1>13 DEF ViewLevels
  <1>20. /\ ViewLevels(b) = [s \in Side |-> ViewLevels(b)[s]]
         /\ ViewLevels(c) = [s \in Side |-> ViewLevels(c)[s]]
    BY DEF ViewLevels
  <1>21. ViewLevels(c) = [ViewLevels(b) EXCEPT ![s0] =
                            IF sum = 0 THEN MapErase(old, p0) ELSE MapPut(old, p0, sum)]
    BY <1>18, <1>19, <1>20
  <1> QED
    BY <1>2, <1>10, <1>21 DEF old, TotalLeft

(* reduce_or_remove is the script's, which raises no KeyError. *)
LEMMA ReduceView ==
  ASSUME TotalsFit, NEW b, GoodBook(b), NEW held, NEW orders, Mirrors(b, held, orders),
         NEW r \in held, NEW n \in Shares, NEW remove_all \in BOOLEAN,
         ~remove_all => n <= RestingShares(b, r),
         NEW left, left = RestingShares(b, r) - Removed(b, r, n, remove_all),
         NEW c, c = reduce_or_remove(b, r, n, remove_all),
         NEW now, NEW after, Mirrors(c, now, after), AllPositive(now, after),
         LeftIn(held, orders, r, left, now, after)
  PROVE  /\ ~Reference!Raises(View(b), r)
         /\ View(c) = Reference!ReduceOrRemove(View(b), r, n, remove_all)
  <1> DEFINE x       == RestingShares(b, r)
             removed == Removed(b, r, n, remove_all)
             s0      == b.orders_[r].side
             p0      == b.orders_[r].price
             order   == [side |-> s0, price |-> p0, shares |-> x]
             sum     == ViewLevels(b)[s0][p0] - removed
             old     == ViewOrders(b)
  <1>1. r \in DOMAIN b.orders_
    BY DEF Mirrors
  <1>2. PICK total :
          /\ GoodBook(c) /\ left \in Nat /\ left \in Shares /\ (remove_all => left = 0)
          /\ Reduced(b, b.orders_[r], r, total, left = 0,
                     ShrunkQueue(QueueOf(b, r), PlaceOf(b, r), left, left = 0), c)
    BY <1>1, ReduceGood
  <1>3. removed \in Nat /\ x \in Nat
    <2>1. /\ b.orders_[r].side \in Side
          /\ b.orders_[r].price \in DOMAIN b.levels[b.orders_[r].side]
          /\ PlaceOf(b, r) \in DOMAIN QueueOf(b, r)
          /\ IsBook(b)
      BY <1>1, PositionFacts DEF GoodBook, BookInv
    <2>2. QueueOf(b, r) \in Seq(RestingOrder)
      BY <2>1, LevelFacts DEF QueueOf
    <2>3. QueueOf(b, r)[PlaceOf(b, r)] \in RestingOrder
      BY <2>1, <2>2
    <2>4. x \in Nat
      BY <2>3 DEF RestingOrder, RestingShares, Shares
    <2> QED
      BY <2>4 DEF Removed, Shares
  <1>4. /\ s0 \in Side
        /\ p0 \in DOMAIN ViewLevels(b)[s0]
        /\ TotalLeft(ViewLevels(b), s0, p0, sum, ViewLevels(c))
    <2> HIDE DEF removed, s0, p0, sum
    <2>1. /\ s0 = b.orders_[r].side /\ p0 = b.orders_[r].price
          /\ sum = ViewLevels(b)[s0][p0] - removed
          /\ left = RestingShares(b, r) - removed
      BY DEF s0, p0, sum, removed
    <2> DEFINE gone == left = 0
               nq   == ShrunkQueue(QueueOf(b, r), PlaceOf(b, r), left, gone)
    <2>2. Reduced(b, b.orders_[r], r, total, gone, nq, c)
      BY <1>2
    <2>3. gone \in BOOLEAN /\ (gone => left = 0)
      OBVIOUS
    <2>4. nq = ShrunkQueue(QueueOf(b, r), PlaceOf(b, r), left, gone)
      OBVIOUS
    <2>5. GoodBook(c) /\ left \in Shares
      BY <1>2
    <2> HIDE DEF gone, nq
    <2> QED
      BY <1>1, <1>3, <2>1, <2>2, <2>3, <2>4, <2>5, ReduceViewLevels
  <1>5. r \in DOMAIN old /\ old[r] = order
    BY <1>1 DEF ViewOrders
  <1>6. ViewOrders(c) = IF left = 0 THEN MapErase(old, r)
                        ELSE MapPut(old, r, [order EXCEPT !.shares = left])
    <2>1. /\ old = [t \in held |-> AsHeld(orders[t])]
          /\ ViewOrders(c) = [t \in now |-> AsHeld(after[t])]
      BY <1>2, ViewOrdersHeld
    <2>2. /\ now = IF left = 0 THEN held \ {r} ELSE held
          /\ \A t \in held \ {r} : AsHeld(after[t]) = AsHeld(orders[t])
      BY DEF LeftIn
    <2>3. left # 0 => AsHeld(after[r]) = [order EXCEPT !.shares = left]
      <3>1. AsHeld(orders[r]) = order
        BY <1>5, <2>1
      <3>2. orders[r].side = order.side /\ orders[r].price = order.price
        BY <3>1 DEF AsHeld
      <3> QED
        BY <3>2 DEF LeftIn, AsHeld
    <2> HIDE DEF old, order
    <2>4. CASE left = 0
      BY <2>1, <2>2, <2>4 DEF MapErase, Restrict
    <2>5. CASE left # 0
      BY <2>1, <2>2, <2>3, <2>5 DEF MapPut
    <2> QED
      BY <2>4, <2>5
  <1>7. View(b).orders = old /\ View(b).levels = ViewLevels(b)
    BY DEF View
  <1>8. order.side = s0 /\ order.price = p0 /\ order.shares = x
    OBVIOUS
  <1>9. Reference!LevelsOf(s0) = s0
    BY <1>4 DEF Reference!LevelsOf, Side, Buy, Sell
  <1>10. removed = IF remove_all THEN x ELSE n
    BY DEF Removed
  <1>11. left = x - removed /\ sum = ViewLevels(b)[s0][p0] - removed
    OBVIOUS
  <1> HIDE DEF x, removed, s0, p0, order, sum, old
  <1>12. ~Reference!Raises(View(b), r)
    BY <1>4, <1>5, <1>7, <1>8, <1>9 DEF Reference!Raises
  <1>13. Reference!ReduceOrRemove(View(b), r, n, remove_all)
           = [orders |-> IF remove_all \/ left = 0 THEN MapErase(old, r)
                         ELSE MapPut(old, r, [order EXCEPT !.shares = left]),
              levels |-> [ViewLevels(b) EXCEPT ![s0] =
                            IF sum = 0 THEN MapErase(ViewLevels(b)[s0], p0)
                                       ELSE MapPut(ViewLevels(b)[s0], p0, sum)]]
    BY <1>5, <1>7, <1>8, <1>9, <1>10, <1>11, ContainersAgree DEF Reference!ReduceOrRemove
  <1>14. View(c) = [orders |-> ViewOrders(c), levels |-> ViewLevels(c)]
    BY DEF View
  <1>15. ViewOrders(c) = IF remove_all \/ left = 0 THEN MapErase(old, r)
                         ELSE MapPut(old, r, [order EXCEPT !.shares = left])
    BY <1>2, <1>6
  <1> QED
    BY <1>4, <1>12, <1>13, <1>14, <1>15 DEF TotalLeft

-----------------------------------------------------------------------------
(* The replay implements the reference script *)

(* No statistic is about to wrap: the script's integers have no width, the  *)
(* C++ ones wrap at 2^64.                                                   *)
TalliesFit == \A name \in StatNames : stats_[name] + 1 < TallyMod

(* A step the script takes, or one it does not notice.                      *)
ScriptStep == [Reference!Next]_(Reference!vars)

(* What the proof of a step knows of the two states it joins.               *)
Between == TotalsFit /\ TalliesFit /\ TypeOK /\ RInv /\ RInv'

(* Counting is the script's tally. *)
LEMMA CountTallies ==
  ASSUME Between, NEW name \in StatNames, Count(name)
  PROVE  Reference!Tallied(name)
  <1>1. stats_[name] \in Nat /\ stats_[name] + 1 < TallyMod /\ stats_ \in [StatNames -> Tally]
    BY DEF Between, TypeOK, TalliesFit, Tally
  <1>2. (stats_[name] + 1) % TallyMod = stats_[name] + 1
    BY <1>1, WidthAssumption
  <1> QED
    BY <1>2 DEF Count, Reference!Tallied

(* A record that leaves handler, book and statistics alone. *)
LEMMA SilentStep ==
  ASSUME UNCHANGED <<resolved_, locate_, book, stats_>>
  PROVE  ScriptStep
  <1>1. [orders |-> RefOrders, levels |-> RefLevels]' = [orders |-> RefOrders, levels |-> RefLevels]
    BY ViewIsReference
  <1>2. UNCHANGED Reference!vars
    BY <1>1 DEF Reference!vars
  <1> QED
    BY <1>2 DEF ScriptStep

(* A record the book accepts is one the script applies. *)
LEMMA AcceptedApplies ==
  ASSUME RInv, NEW locate, locate = locate_, locate # 0
  PROVE  Reference!Applies(locate)
  BY DEF RInv, HandlerInv, Reference!Applies

(* Every order the exchange holds has shares. *)
LEMMA FollowedPositive ==
  ASSUME SessionInv, NEW held, held \subseteq DOMAIN live
  PROVE  AllPositive(held, live)
  <1>1. ASSUME NEW r \in held PROVE live[r].shares \in Nat \ {0}
    <2>1. live[r] \in ExchangeOrder
      BY DEF SessionInv, IsMapOf
    <2> QED
      BY <2>1 DEF ExchangeOrder, Shares
  <1> QED
    BY <1>1 DEF AllPositive

(* An accepted add is the script's. *)
LEMMA AddStep ==
  ASSUME Between, NEW m \in AddOrder, SendAdd(m), OnAddOrder(m),
         missed' = IF resolved_ THEN missed ELSE missed \cup {m.order_reference},
         UNCHANGED resolved_
  PROVE  ScriptStep
  <1> DEFINE r == m.order_reference
  <1>1. RInv /\ SessionInv /\ TotalsFit
    BY DEF Between, RInv
  <1>2. /\ r \in OrderRef /\ r \notin DOMAIN live \cup missed
        /\ m.side \in Side /\ m.price \in Price /\ m.shares \in Shares
        /\ m.stock_locate # 0
        /\ DOMAIN live' = DOMAIN live \cup {r}
        /\ \A t \in DOMAIN live : live'[t] = live[t]
        /\ live'[r] = [locate |-> m.stock_locate, side |-> m.side,
                       price |-> m.price, shares |-> m.shares]
    BY <1>1, SendAddFacts
  <1>3. /\ live'[r].locate = m.stock_locate
        /\ live'[r].side = m.side /\ live'[r].price = m.price /\ live'[r].shares = m.shares
    BY <1>2
  <1>4. m.stock_locate \in Locate /\ m.side \in SideByte
    BY DEF AddOrder
  <1>5. m.stock_locate = locate_ /\ locate_' = locate_ /\ Count("adds")
    BY DEF OnAddOrder, Accepts
  <1>6. resolved_ /\ missed' = missed
    BY <1>1, <1>2, <1>5 DEF RInv, HandlerInv
  <1>7. PICK node \in FreeNodes(book) :
          book' = insert_order(book, m.side, r, m.price, m.shares, node)
    BY <1>2 DEF OnAddOrder, Side
  <1> HIDE DEF r
  <1>8. Followed' = Followed \cup {r} /\ r \notin Followed /\ Followed \subseteq DOMAIN live
    BY <1>2, <1>3, <1>5, <1>6 DEF Followed
  <1>9. JoinedBy(Followed, live, r, m.side, m.price, m.shares, Followed', live')
    BY <1>2, <1>3, <1>8 DEF JoinedBy
  <1>10. /\ GoodBook(book) /\ Mirrors(book, Followed, live)
         /\ GoodBook(book') /\ Mirrors(book', Followed', live')
    BY DEF Between, RInv, MirrorInv
  <1>11. node \in Node
    BY DEF FreeNodes
  <1>12. View(book') = Reference!InsertOrder(View(book), r, m.side, m.price, m.shares)
    BY <1>1, <1>2, <1>7, <1>8, <1>9, <1>10, <1>11, InsertView
  <1>13. Reference!Applies(m.stock_locate)
    BY <1>1, <1>2, <1>5, AcceptedApplies
  <1>14. Reference!Tallied("adds")
    BY <1>5, CountTallies DEF StatNames
  <1>15. Reference!add(m.stock_locate, r, m.side, m.price, m.shares)
    BY <1>5, <1>12, <1>13, <1>14, ViewIsReference DEF Reference!add
  <1>16. Reference!Next
    BY <1>2, <1>4, <1>15 DEF Reference!Next
  <1> QED
    BY <1>16 DEF ScriptStep

(* What a reduction or removal does to the script's book, followed order or *)
(* not. *)
LEMMA ScriptReduces ==
  ASSUME Between, NEW r \in DOMAIN live, NEW n \in Shares, NEW remove_all \in BOOLEAN,
         ~remove_all => n <= live[r].shares,
         NEW left, left = live[r].shares - (IF remove_all THEN live[r].shares ELSE n),
         Lessened(r, left), book' = reduce_or_remove(book, r, n, remove_all),
         UNCHANGED <<locate_, aborted, resolved_, missed>>
  PROVE  /\ ~Reference!Raises(View(book), r)
         /\ View(book') = Reference!ReduceOrRemove(View(book), r, n, remove_all)
  <1>1. /\ RInv /\ TotalsFit /\ SessionInv'
        /\ GoodBook(book) /\ Mirrors(book, Followed, live)
        /\ GoodBook(book') /\ Mirrors(book', Followed', live')
    BY DEF Between, RInv, MirrorInv
  <1>2. CASE r \in Followed
    <2>1. LeftIn(Followed, live, r, left, Followed', live')
      BY <1>1, <1>2, LessenedInBook
    <2>2. RestingShares(book, r) = live[r].shares
      BY <1>1, <1>2, RestsAsHeld
    <2>3. left = RestingShares(book, r) - Removed(book, r, n, remove_all)
      BY <2>2 DEF Removed
    <2>4. AllPositive(Followed', live')
      <3>1. Followed' \subseteq DOMAIN live'
        BY DEF Followed
      <3>2. IsMapOf(live', OrderRef, ExchangeOrder)
        BY <1>1 DEF SessionInv
      <3>3. ASSUME NEW t \in Followed' PROVE live'[t].shares \in Nat \ {0}
        <4>1. live'[t] \in ExchangeOrder
          BY <3>1, <3>2 DEF IsMapOf
        <4> QED
          BY <4>1 DEF ExchangeOrder, Shares
      <3> QED
        BY <3>3 DEF AllPositive
    <2> QED
      BY <1>1, <1>2, <2>1, <2>2, <2>3, <2>4, ReduceView
  <1>3. CASE r \notin Followed
    <2>1. r \notin DOMAIN book.orders_
      BY <1>1, <1>3 DEF Mirrors
    <2>2. book' = book
      BY <2>1 DEF reduce_or_remove
    <2>3. r \notin DOMAIN View(book).orders
      BY <2>1 DEF View, ViewOrders
    <2> QED
      BY <2>2, <2>3 DEF Reference!Raises, Reference!ReduceOrRemove
  <1> QED
    BY <1>2, <1>3

(* An accepted execution, cancel or delete is the script's Remove. *)
LEMMA RemoveStep ==
  ASSUME Between, NEW m, m.stock_locate = locate_, m.stock_locate # 0,
         m.order_reference \in DOMAIN live,
         NEW n \in Shares, NEW remove_all \in BOOLEAN,
         ~remove_all => n <= live[m.order_reference].shares,
         NEW left, left = live[m.order_reference].shares
                            - (IF remove_all THEN live[m.order_reference].shares ELSE n),
         Lessened(m.order_reference, left),
         book' = reduce_or_remove(book, m.order_reference, n, remove_all),
         UNCHANGED <<locate_, aborted, resolved_, missed>>,
         NEW stat \in StatNames, Count(stat)
  PROVE  Reference!Remove(m.stock_locate, m.order_reference, n, remove_all, stat)
  <1> DEFINE r == m.order_reference
  <1>1. RInv
    BY DEF Between
  <1>2. Reference!Applies(m.stock_locate)
    BY <1>1, AcceptedApplies
  <1>3. Reference!Tallied(stat)
    BY CountTallies
  <1>4. /\ r \in DOMAIN live
        /\ ~remove_all => n <= live[r].shares
        /\ left = live[r].shares - (IF remove_all THEN live[r].shares ELSE n)
        /\ Lessened(r, left)
        /\ book' = reduce_or_remove(book, r, n, remove_all)
    OBVIOUS
  <1> HIDE DEF r
  <1>5. /\ ~Reference!Raises(View(book), r)
        /\ View(book') = Reference!ReduceOrRemove(View(book), r, n, remove_all)
    BY <1>4, ScriptReduces
  <1>6. Reference!Remove(m.stock_locate, r, n, remove_all, stat)
    BY <1>2, <1>3, <1>5, ViewIsReference DEF Reference!Remove
  <1> QED
    BY <1>6 DEF r

(* An execution or a cancel, of a followed order or of another. *)
LEMMA ReductionStep ==
  ASSUME Between, NEW m, NEW n \in Shares, NEW stat \in {"executions", "cancels"},
         SendReduction(m, n), m.stock_locate \in Locate, m.order_reference \in OrderRef,
         \/ Accepts(m) /\ ReduceShares(m.order_reference, n, stat)
         \/ OnOtherLocate(m.stock_locate),
         UNCHANGED <<resolved_, missed>>
  PROVE  ScriptStep
  <1> DEFINE r    == m.order_reference
             x    == live[r].shares
             left == x - n
  <1>1. RInv /\ SessionInv /\ ~aborted'
    BY DEF Between, RInv
  <1>2. /\ r \in DOMAIN live
        /\ live[r].locate = m.stock_locate
        /\ n \in 1 .. x
        /\ Lessened(r, left)
    BY <1>1, SendReductionFacts
  <1>3. m.stock_locate # 0
    BY <1>1, <1>2, FollowedFacts
  <1>4. CASE OnOtherLocate(m.stock_locate)
    BY <1>4, SilentStep DEF OnOtherLocate, vars
  <1>5. CASE Accepts(m) /\ ReduceShares(r, n, stat)
    <2>1. m.stock_locate = locate_
      BY <1>5 DEF Accepts
    <2>2. /\ book' = reduce_or_remove(book, r, n, FALSE)
          /\ Count(stat)
          /\ UNCHANGED <<locate_, aborted>>
      BY <1>1, <1>5 DEF ReduceShares, AssertPasses, AssertFails
    <2>3. ~FALSE => n <= x
      BY <1>2
    <2>4. left = x - (IF FALSE THEN x ELSE n)
      OBVIOUS
    <2>5. stat \in StatNames
      BY DEF StatNames
    <2> HIDE DEF left
    <2>6. Reference!Remove(m.stock_locate, r, n, FALSE, stat)
      BY <1>2, <1>3, <2>1, <2>2, <2>3, <2>4, <2>5, RemoveStep
    <2>7. Reference!execute(m.stock_locate, r, n) \/ Reference!cancel(m.stock_locate, r, n)
      BY <2>6 DEF Reference!execute, Reference!cancel
    <2>8. Reference!Next
      BY <2>7 DEF Reference!Next
    <2> QED
      BY <2>8 DEF ScriptStep
  <1> QED
    BY <1>4, <1>5

(* A delete. *)
LEMMA DeleteStep ==
  ASSUME Between, NEW m \in OrderDelete, SendDelete(m),
         OnOrderDelete(m) \/ OnOtherLocate(m.stock_locate),
         UNCHANGED <<resolved_, missed>>
  PROVE  ScriptStep
  <1> DEFINE r == m.order_reference
             x == live[r].shares
  <1>1. RInv /\ SessionInv
    BY DEF Between, RInv
  <1>2. r \in DOMAIN live /\ live[r].locate = m.stock_locate /\ Lessened(r, 0)
    BY <1>1, SendDeleteFacts
  <1>3. m.stock_locate # 0
    BY <1>1, <1>2, FollowedFacts
  <1>4. CASE OnOtherLocate(m.stock_locate)
    BY <1>4, SilentStep DEF OnOtherLocate, vars
  <1>5. CASE OnOrderDelete(m)
    <2>1. /\ m.stock_locate = locate_
          /\ book' = reduce_or_remove(book, r, 0, TRUE)
          /\ Count("deletes")
          /\ UNCHANGED <<locate_, aborted>>
      BY <1>5 DEF OnOrderDelete, Accepts
    <2>2. x \in Nat
      BY <1>1, <1>2 DEF SessionInv, IsMapOf, ExchangeOrder, Shares
    <2>3. 0 = x - (IF TRUE THEN x ELSE 0)
      BY <2>2
    <2>4. Reference!Remove(m.stock_locate, r, 0, TRUE, "deletes")
      BY <1>2, <1>3, <2>1, <2>3, ZeroShares, RemoveStep DEF StatNames
    <2>5. Reference!delete(m.stock_locate, r)
      BY <2>4 DEF Reference!delete
    <2>6. Reference!Next
      BY <2>5 DEF Reference!Next, OrderDelete
    <2> QED
      BY <2>6 DEF ScriptStep
  <1> QED
    BY <1>4, <1>5

(* A replace: the script's _reduce_or_remove and _insert in one step. *)
LEMMA ReplaceStep ==
  ASSUME Between, NEW m \in OrderReplace, SendReplace(m), OnOrderReplace(m),
         missed' = IF resolved_ /\ m.original_order_reference \notin missed
                     THEN missed ELSE missed \cup {m.new_order_reference},
         UNCHANGED resolved_
  PROVE  ScriptStep
  <1> DEFINE o       == m.original_order_reference
             r       == m.new_order_reference
             side    == live[o].side
             without == reduce_or_remove(book, o, 0, TRUE)
  <1>1. /\ RInv /\ SessionInv /\ TotalsFit
        /\ GoodBook(book) /\ Mirrors(book, Followed, live)
        /\ GoodBook(book') /\ Mirrors(book', Followed', live')
    BY DEF Between, RInv, MirrorInv
  <1>2. /\ o \in DOMAIN live /\ live[o].locate = m.stock_locate
        /\ side \in Side
        /\ r \in OrderRef /\ r \notin DOMAIN live \cup missed
        /\ m.price \in Price /\ m.shares \in Shares
        /\ m.stock_locate # 0
        /\ DOMAIN live' = (DOMAIN live \ {o}) \cup {r}
        /\ \A t \in DOMAIN live \ {o} : live'[t] = live[t]
        /\ live'[r] = [locate |-> m.stock_locate, side |-> side,
                       price |-> m.price, shares |-> m.shares]
    BY <1>1, SendReplaceFacts
  <1>3. /\ live'[r].locate = m.stock_locate
        /\ live'[r].side = side /\ live'[r].price = m.price /\ live'[r].shares = m.shares
    BY <1>2
  <1>4. m.stock_locate \in Locate /\ o \in OrderRef
    BY DEF OrderReplace
  <1>5. m.stock_locate = locate_ /\ locate_' = locate_ /\ Count("replaces")
    BY DEF OnOrderReplace, Accepts
  <1>6. o \in Followed
    BY <1>1 DEF OnOrderReplace, Mirrors
  <1>7. resolved_ /\ missed' = missed
    BY <1>6 DEF Followed
  <1>8. /\ o \in DOMAIN book.orders_
        /\ RestingShares(book, o) = live[o].shares
        /\ book.orders_[o].side = side
    BY <1>1, <1>6, RestsAsHeld
  <1>9. PICK node \in FreeNodes(without) :
          book' = insert_order(without, side, r, m.price, m.shares, node)
    BY <1>8 DEF OnOrderReplace
  <1>10. 0 = RestingShares(book, o) - Removed(book, o, 0, TRUE)
    <2>1. live[o].shares \in Nat
      BY <1>1, <1>2 DEF SessionInv, IsMapOf, ExchangeOrder, Shares
    <2> QED
      BY <1>8, <2>1 DEF Removed
  <1> HIDE DEF o, r, side
  <1>11. /\ Followed' = (Followed \ {o}) \cup {r} /\ r \notin Followed
         /\ Followed \subseteq DOMAIN live
    BY <1>2, <1>3, <1>5, <1>7 DEF Followed
  <1>12. GoodBook(without) /\ ReducedTo(book, without, o, 0)
    BY <1>1, <1>8, <1>10, ZeroShares, ReduceGood
  <1>13. without = reduce_or_remove(book, o, 0, TRUE)
    OBVIOUS
  <1> HIDE DEF without
  <1>14. IsBook(without)
    BY <1>12 DEF GoodBook, BookInv
  <1>15. LeftIn(Followed, live, o, 0, Followed \ {o}, live)
    BY DEF LeftIn
  <1>16. Mirrors(without, Followed \ {o}, live)
    BY <1>1, <1>8, <1>12, <1>14, <1>15, ReduceMirrors
  <1>17. AllPositive(Followed \ {o}, live)
    BY <1>1, <1>11, FollowedPositive
  <1>18. /\ ~Reference!Raises(View(book), o)
         /\ View(without) = Reference!ReduceOrRemove(View(book), o, 0, TRUE)
    <2> DEFINE all  == TRUE
               none == 0
    <2>1. /\ all \in BOOLEAN /\ none \in Shares
          /\ ~all => none <= RestingShares(book, o)
          /\ none = RestingShares(book, o) - Removed(book, o, none, all)
          /\ without = reduce_or_remove(book, o, none, all)
          /\ LeftIn(Followed, live, o, none, Followed \ {o}, live)
      BY <1>10, <1>13, <1>15, ZeroShares
    <2> HIDE DEF all, none
    <2>2. /\ ~Reference!Raises(View(book), o)
          /\ View(without) = Reference!ReduceOrRemove(View(book), o, none, all)
      BY <1>1, <1>6, <1>16, <1>17, <2>1, ReduceView
    <2> QED
      BY <2>2 DEF all, none
  <1>19. JoinedBy(Followed \ {o}, live, r, side, m.price, m.shares, Followed', live')
    BY <1>2, <1>3, <1>11 DEF JoinedBy
  <1>20. node \in Node
    BY DEF FreeNodes
  <1>21. View(book') = Reference!InsertOrder(View(without), r, side, m.price, m.shares)
    BY <1>1, <1>2, <1>9, <1>11, <1>12, <1>16, <1>19, <1>20, InsertView
  <1>22. o \in DOMAIN View(book).orders /\ View(book).orders[o].side = side
    BY <1>8 DEF View, ViewOrders
  <1>23. Reference!Applies(m.stock_locate)
    BY <1>1, <1>2, <1>5, AcceptedApplies
  <1>24. Reference!Tallied("replaces")
    BY <1>5, CountTallies DEF StatNames
  <1>25. Reference!replace(m.stock_locate, o, r, m.shares, m.price)
    BY <1>5, <1>18, <1>21, <1>22, <1>23, <1>24, ViewIsReference DEF Reference!replace
  <1>26. Reference!Next
    BY <1>2, <1>4, <1>25 DEF Reference!Next
  <1> QED
    BY <1>26 DEF ScriptStep

(***************************************************************************)
(* On every session of an exchange that keeps its rules, the C++ replay    *)
(* implements reference_book.py: the same orders, the same levels and the  *)
(* same tallies after every record, and no KeyError.  The script's         *)
(* integers are unbounded, so this holds as long as no total and no        *)
(* statistic of the C++ book reaches the end of its width.                 *)
(***************************************************************************)
THEOREM ImplementsScript ==
  ASSUME TotalsFit
  PROVE  ReplaySpec /\ []TalliesFit => RefinesReference
  <1>1. ReplayInit => Reference!Init
    <2> SUFFICES ASSUME ReplayInit PROVE Reference!Init
      OBVIOUS
    <2>1. /\ locate_ = 0 /\ resolved_ = FALSE /\ book = EmptyBook
          /\ stats_ = [n \in StatNames |-> 0]
      BY DEF ReplayInit, Init
    <2>2. /\ DOMAIN book.orders_ = {}
          /\ \A s \in Side : DOMAIN book.levels[s] = {}
      BY <2>1 DEF EmptyBook, EmptyMap
    <2>3. ViewOrders(book) = EmptyMap
      BY <2>2 DEF ViewOrders, EmptyMap
    <2>4. ViewLevels(book) = [s \in Side |-> EmptyMap]
      BY <2>2 DEF ViewLevels, EmptyMap
    <2>5. View(book) = [orders |-> EmptyMap, levels |-> [s \in {"Buy", "Sell"} |-> EmptyMap]]
      BY <2>3, <2>4 DEF View, Side, Buy, Sell
    <2>6. StatNames = {"adds", "executions", "cancels", "deletes", "replaces", "trades"}
      BY DEF StatNames
    <2> QED
      BY <2>1, <2>5, <2>6, ViewIsReference, ContainersAgree DEF Reference!Init
  <1>2. TalliesFit /\ TypeOK /\ RInv /\ RInv' /\ [ReplayNext]_replayVars
          => [Reference!Next]_(Reference!vars)
    <2> SUFFICES ASSUME Between, [ReplayNext]_replayVars PROVE ScriptStep
      BY DEF Between, ScriptStep
    <2>1. ASSUME NEW m \in AddOrder, ReplayAdd(m) PROVE ScriptStep
      <3>1. CASE OnAddOrder(m)
        BY <2>1, <3>1, AddStep DEF ReplayAdd
      <3>2. CASE OnOtherLocate(m.stock_locate)
        BY <2>1, <3>2, SilentStep DEF ReplayAdd, OnOtherLocate, vars
      <3> QED
        BY <2>1, <3>1, <3>2 DEF ReplayAdd
    <2>2. ASSUME NEW m \in AddOrderWithMpid, ReplayAddWithMpid(m) PROVE ScriptStep
      <3>1. m.order \in AddOrder
        BY <2>2 DEF AddOrderWithMpid
      <3>2. CASE OnAddOrder(m.order)
        BY <2>2, <3>1, <3>2, AddStep DEF ReplayAddWithMpid
      <3>3. CASE OnOtherLocate(m.order.stock_locate)
        BY <2>2, <3>3, SilentStep DEF ReplayAddWithMpid, OnOtherLocate, vars
      <3> QED
        BY <2>2, <3>2, <3>3 DEF ReplayAddWithMpid, OnAddOrderWithMpid
    <2>3. ASSUME NEW m \in OrderExecuted, SendReduction(m, m.executed_shares),
                 OnOrderExecuted(m) \/ OnOtherLocate(m.stock_locate),
                 UNCHANGED <<resolved_, missed>>
          PROVE  ScriptStep
      <3>1. m.executed_shares \in Shares /\ m.stock_locate \in Locate /\ m.order_reference \in OrderRef
        BY DEF OrderExecuted
      <3> QED
        BY <2>3, <3>1, ReductionStep DEF OnOrderExecuted
    <2>4. ASSUME NEW m \in OrderExecuted, ReplayExecuted(m) PROVE ScriptStep
      BY <2>3, <2>4 DEF ReplayExecuted
    <2>5. ASSUME NEW m \in OrderExecutedWithPrice, ReplayExecutedWithPrice(m) PROVE ScriptStep
      <3>1. m.executed \in OrderExecuted
        BY <2>5 DEF OrderExecutedWithPrice
      <3> QED
        BY <2>3, <2>5, <3>1 DEF ReplayExecutedWithPrice, OnOrderExecutedWithPrice
    <2>6. ASSUME NEW m \in OrderCancel, ReplayCancel(m) PROVE ScriptStep
      <3>1. m.cancelled_shares \in Shares /\ m.stock_locate \in Locate /\ m.order_reference \in OrderRef
        BY <2>6 DEF OrderCancel
      <3> QED
        BY <2>6, <3>1, ReductionStep DEF ReplayCancel, OnOrderCancel
    <2>7. ASSUME NEW m \in OrderDelete, ReplayDelete(m) PROVE ScriptStep
      BY <2>7, DeleteStep DEF ReplayDelete
    <2>8. ASSUME NEW m \in OrderReplace, ReplayReplace(m) PROVE ScriptStep
      <3>1. CASE OnOrderReplace(m)
        BY <2>8, <3>1, ReplaceStep DEF ReplayReplace
      <3>2. CASE OnUnknownReplace(m) \/ OnOtherLocate(m.stock_locate)
        BY <2>8, <3>2, SilentStep DEF ReplayReplace, OnUnknownReplace, OnOtherLocate, vars
      <3> QED
        BY <2>8, <3>1, <3>2 DEF ReplayReplace
    <2>9. ASSUME NEW locate \in Locate, ReplayTrade(locate) PROVE ScriptStep
      <3>1. CASE OnOtherLocate(locate)
        BY <2>9, <3>1, SilentStep DEF ReplayTrade, OnOtherLocate, vars
      <3>2. CASE OnTradeNonCross(locate)
        <4>1. /\ locate = locate_ /\ locate # 0 /\ Count("trades")
              /\ UNCHANGED <<resolved_, locate_, book>>
          BY <2>9, <3>2 DEF ReplayTrade, OnTradeNonCross, Accepts
        <4>2. Reference!Applies(locate)
          BY <4>1, AcceptedApplies DEF Between
        <4>3. Reference!Tallied("trades")
          BY <4>1, CountTallies DEF StatNames
        <4>4. Reference!trade(locate)
          BY <4>1, <4>2, <4>3, ViewIsReference DEF Reference!trade
        <4> QED
          BY <4>4 DEF Reference!Next, ScriptStep
      <3> QED
        BY <2>9, <3>1, <3>2 DEF ReplayTrade
    <2>10. ASSUME NEW locate \in Locate, ReplayDirectory(locate) PROVE ScriptStep
      <3>1. CASE ~resolved_ /\ StockOf[locate] = symbol_
        <4>1. locate # 0 /\ locate_ = 0
          BY <2>10, <3>1 DEF ReplayDirectory, Between, RInv, HandlerInv
        <4>2. locate_' = locate /\ resolved_' = TRUE /\ UNCHANGED <<book, stats_>>
          BY <2>10, <3>1, <4>1
          DEF ReplayDirectory, OnStockDirectory, set_locate, AssertPasses, AssertFails
        <4>3. Reference!directory(locate, StockOf[locate])
          BY <3>1, <4>2, ViewIsReference DEF Reference!directory
        <4>4. StockOf[locate] \in Stock
          BY <4>1, StockAssumption
        <4> QED
          BY <4>3, <4>4 DEF Reference!Next, ScriptStep
      <3>2. CASE ~(~resolved_ /\ StockOf[locate] = symbol_)
        BY <2>10, <3>2, SilentStep DEF ReplayDirectory, OnStockDirectory, OnNoBookEffect, vars
      <3> QED
        BY <3>1, <3>2
    <2>11. CASE ReplayOther
      BY <2>11, SilentStep DEF ReplayOther, OnNoBookEffect, vars
    <2>12. CASE UNCHANGED replayVars
      BY <2>12, SilentStep DEF replayVars
    <2> QED
      BY <2>1, <2>2, <2>4, <2>5, <2>6, <2>7, <2>8, <2>9, <2>10, <2>11, <2>12 DEF ReplayNext
  <1>3. ReplaySpec => []TypeOK
    BY ReplayIsAFeed, Typed
  <1>4. ReplaySpec => []RInv
    BY ReplayInductive
  <1> QED
    BY <1>1, <1>2, <1>3, <1>4, PTL DEF ReplaySpec, RefinesReference, Reference!Spec
=============================================================================
