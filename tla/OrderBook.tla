----------------------------- MODULE OrderBook -----------------------------
(***************************************************************************)
(* include/core/OrderBook.h and src/core/OrderBook.cpp: the book of one    *)
(* symbol, as a value.  A book is a record of                              *)
(*   levels         bids_ and asks_, as levels["Buy"] and levels["Sell"]:  *)
(*                  a function from the prices that have a level to the    *)
(*                  list of pointers queued there, front first             *)
(*   lookup         order_lookup_: a function from the IDs of the live     *)
(*                  orders to {side, price, iterator}                      *)
(*   pool           order_pool_                                            *)
(*   next_order_id  next_order_id_                                         *)
(* A list iterator is identified with the pointer stored in its node.      *)
(* Each operation of the class is an operator from a book to the book the  *)
(* operation leaves behind; OrderBookCalls and MatchingEngine apply them.  *)
(***************************************************************************)
EXTENDS Types, ObjectPool, Sums

CONSTANT PoolSize   \* the constructor's pool_size

ASSUME PoolSizeAssumption == PoolSize \in Nat

\* Mutant: the first ID is 0, the ID that stands for a rejected order.
NewBook_FromZero ==
    [levels        |-> [side \in Side |-> [price \in {} |-> << >>]],
     lookup        |-> [id \in {} |-> EmptyOrder],
     pool          |-> NewPool(PoolSize, EmptyOrder),
     next_order_id |-> 0]

NewBook ==
    [levels        |-> [side \in Side |-> [price \in {} |-> << >>]],
     lookup        |-> [id \in {} |-> EmptyOrder],
     pool          |-> NewPool(PoolSize, EmptyOrder),
     next_order_id |-> 1]

\* The object behind an Order*.
Deref(b, ptr) == b.pool.storage[ptr]

\* What a lookup entry says of a live order: its side, its price, the node its
\* iterator designates, and the order there.
LiveIds(b) == DOMAIN b.lookup

SideOf(b, id) == b.lookup[id].side

PriceOf(b, id) == b.lookup[id].price

PtrOf(b, id) == b.lookup[id].iterator

OrderOf(b, id) == Deref(b, PtrOf(b, id))

\* The levels of a side and the queue at a level.
LevelPrices(b, side) == DOMAIN b.levels[side]

Depth(b, side, price) == Len(b.levels[side][price])

Node(b, side, price, i) == b.levels[side][price][i]

order_count(b) == Cardinality(LiveIds(b))

-----------------------------------------------------------------------------
(***************************************************************************)
(* Updates.                                                                *)
(***************************************************************************)

\* Mutant: push_front.
PushBack_AtFront(map, price, ptr) ==
    [p \in DOMAIN map \cup {price} |->
        IF p = price
        THEN << ptr >> \o (IF price \in DOMAIN map THEN map[price] ELSE << >>)
        ELSE map[p]]

\* map[price].push_back(ptr): operator[] creates an absent level.
PushBack(map, price, ptr) ==
    [p \in DOMAIN map \cup {price} |->
        IF p = price
        THEN Append(IF price \in DOMAIN map THEN map[price] ELSE << >>, ptr)
        ELSE map[p]]

add_order(b, side, type, price, quantity) ==
    LET id    == b.next_order_id
        order == acquired(b.pool)
        loc   == [side |-> side, price |-> price, iterator |-> order]
    IN  [levels |-> [b.levels EXCEPT ![side] = PushBack(@, price, order)],
         lookup |-> [i \in DOMAIN b.lookup \cup {id} |->
                        IF i = id THEN loc ELSE b.lookup[i]],
         pool   |-> Write(acquire(b.pool, EmptyOrder), order,
                          NewOrder(id, side, type, price, quantity)),
         next_order_id |-> id + 1]

\* The book after next_order_id(), which hands out an ID and uses it up.
next_order_id(b) == [b EXCEPT !.next_order_id = @ + 1]

\* list::erase(iterator).
Erase(level, iterator) ==
    RemoveAt(level, CHOOSE i \in DOMAIN level : level[i] = iterator)

\* Mutant: an empty level stays in the map.
cleanup_price_level_Skipped(map, price) == map

\* Drops the level at price when its list is empty.
cleanup_price_level(map, price) ==
    IF price \in DOMAIN map /\ map[price] = << >>
    THEN Restrict(map, DOMAIN map \ {price})
    ELSE map

\* Mutant: the lookup entry is not erased.
Unlink_KeepsEntry(b, id, ptr) ==
    LET loc    == b.lookup[id]
        erased == [b.levels[loc.side] EXCEPT ![loc.price] =
                        Erase(@, loc.iterator)]
    IN  [b EXCEPT !.levels[loc.side] = cleanup_price_level(erased, loc.price),
                  !.pool = release(@, ptr)]

\* What cancel_order and remove_order do once the entry of id is found: take
\* the node out of its level, drop an empty level, erase the lookup entry and
\* return the object ptr to the pool.
Unlink(b, id, ptr) ==
    LET loc    == b.lookup[id]
        erased == [b.levels[loc.side] EXCEPT ![loc.price] =
                        Erase(@, loc.iterator)]
    IN  [levels |-> [b.levels EXCEPT ![loc.side] =
                        cleanup_price_level(erased, loc.price)],
         lookup |-> Restrict(b.lookup, DOMAIN b.lookup \ {id}),
         pool   |-> release(b.pool, ptr),
         next_order_id |-> b.next_order_id]

\* The book after the write *ptr = order through a pointer into the pool.
WriteOrder(b, ptr, order) == [b EXCEPT !.pool = Write(@, ptr, order)]

\* cancel_order returns true iff the ID is live; otherwise it changes nothing.
cancel_order(b, id) ==
    IF id \in LiveIds(b)
    THEN Unlink(WriteOrder(b, PtrOf(b, id), [OrderOf(b, id) EXCEPT !.status = "Cancelled"]),
                id, PtrOf(b, id))
    ELSE b

\* Mutant: the guard against growing an order is missing.
reduce_order_Unguarded(b, id, new_quantity) ==
    IF id \in LiveIds(b)
    THEN IF new_quantity = 0
         THEN cancel_order(b, id)
         ELSE WriteOrder(b, PtrOf(b, id),
                 [OrderOf(b, id) EXCEPT !.remaining_qty = new_quantity])
    ELSE b

\* Shrinks what is left of an order; its place in the queue is untouched.
reduce_order(b, id, new_quantity) ==
    IF id \in LiveIds(b) /\ new_quantity < OrderOf(b, id).remaining_qty
    THEN IF new_quantity = 0
         THEN cancel_order(b, id)
         ELSE WriteOrder(b, PtrOf(b, id),
                 [OrderOf(b, id) EXCEPT !.remaining_qty = new_quantity])
    ELSE b

\* Takes the order behind a pointer off the book.
remove_order(b, ptr) ==
    IF Deref(b, ptr).id \in LiveIds(b)
    THEN Unlink(b, Deref(b, ptr).id, ptr)
    ELSE b

-----------------------------------------------------------------------------
(***************************************************************************)
(* Accessors.                                                              *)
(***************************************************************************)

\* Mutant: bids_ lacks std::greater.
Better_Ascending(side, p, q) == p < q

\* The order of the maps: bids_ descends (std::greater), asks_ ascends.
Better(side, p, q) == IF side = "Buy" THEN p > q ELSE p < q

\* price is the key of map::begin(), the level best_bid_level() and
\* best_ask_level() return; no price is when the side is empty.
IsBestLevel(b, side, price) ==
    /\ price \in LevelPrices(b, side)
    /\ \A p \in LevelPrices(b, side) : ~Better(side, p, price)

\* best_bid() and best_ask(): 0 when the side is empty.
best_price(b, side) ==
    IF LevelPrices(b, side) = {}
    THEN 0
    ELSE CHOOSE price \in LevelPrices(b, side) : IsBestLevel(b, side, price)

\* Mutant: the terms are swapped.
spread_Swapped(b) ==
    IF best_price(b, "Buy") = 0 \/ best_price(b, "Sell") = 0
    THEN 0
    ELSE best_price(b, "Buy") - best_price(b, "Sell")

\* 0 when best_bid() or best_ask() is 0.
spread(b) ==
    IF best_price(b, "Buy") = 0 \/ best_price(b, "Sell") = 0
    THEN 0
    ELSE best_price(b, "Sell") - best_price(b, "Buy")

\* Mutant: only the front order of each level is counted.
total_quantity_FrontOnly(b, side, modulus) ==
    SumOver([p \in LevelPrices(b, side) |-> Deref(b, Node(b, side, p, 1)).remaining_qty],
            LevelPrices(b, side)) % modulus

\* The inner loop of total_bid_quantity() and total_ask_quantity().
LevelQuantity(b, side, p) ==
    SumOver([i \in 1..Depth(b, side, p) |-> Deref(b, Node(b, side, p, i)).remaining_qty],
            1..Depth(b, side, p))

\* total_bid_quantity() and total_ask_quantity(): a sum over the levels in a
\* Quantity, which wraps at its modulus.
total_quantity(b, side, modulus) ==
    SumOver([p \in LevelPrices(b, side) |-> LevelQuantity(b, side, p)],
            LevelPrices(b, side)) % modulus

-----------------------------------------------------------------------------
(***************************************************************************)
(* What a book must satisfy between any two operations on it.              *)
(***************************************************************************)

Slots(b) == 1..capacity(b.pool)

BookTypeOK(b) ==
    /\ b = [levels |-> b.levels, lookup |-> b.lookup, pool |-> b.pool,
            next_order_id |-> b.next_order_id]
    /\ b.pool \in [storage : Seq(Order), free_list : Seq(Nat)]
    /\ b.next_order_id \in Nat \ {0}
    /\ DOMAIN b.levels = Side
    /\ \A side \in Side : \A p \in DOMAIN b.levels[side] :
          p \in Int /\ b.levels[side][p] \in Seq(Nat)
    /\ \A id \in DOMAIN b.lookup :
          id \in Nat /\ b.lookup[id] \in [side : Side, price : Int, iterator : Nat]

\* Every pointer queued at a level is to an order of that side and price,
\* and the lookup entry of its ID leads back to this very node.
QueuedIsIndexed(b) ==
    \A side \in Side : \A p \in LevelPrices(b, side) : \A i \in 1..Depth(b, side, p) :
        LET ptr == Node(b, side, p, i)
            id  == Deref(b, ptr).id
        IN  /\ ptr \in Slots(b)
            /\ Deref(b, ptr).side = side /\ Deref(b, ptr).price = p
            /\ id \in LiveIds(b)
            /\ SideOf(b, id) = side /\ PriceOf(b, id) = p /\ PtrOf(b, id) = ptr

\* Every lookup entry leads to a node of the level it names, and the order
\* there carries the ID it was looked up by: a cancel by ID can never erase
\* through a stale iterator or hit another participant's order.
IndexedIsQueued(b) ==
    \A id \in LiveIds(b) :
        /\ id < b.next_order_id
        /\ PriceOf(b, id) \in LevelPrices(b, SideOf(b, id))
        /\ \E i \in 1..Depth(b, SideOf(b, id), PriceOf(b, id)) :
                Node(b, SideOf(b, id), PriceOf(b, id), i) = PtrOf(b, id)
        /\ OrderOf(b, id).id = id

\* No level is left behind empty.  match_order stops at an empty best level,
\* so a stale one would hide the levels behind it.
NoEmptyLevel(b) ==
    \A side \in Side : \A p \in LevelPrices(b, side) : Depth(b, side, p) > 0

\* Orders queue at a level in order of arrival.
QueueInArrivalOrder(b) ==
    \A side \in Side : \A p \in LevelPrices(b, side) :
        \A i, j \in 1..Depth(b, side, p) :
            i < j => Deref(b, Node(b, side, p, i)).id < Deref(b, Node(b, side, p, j)).id

\* The free list names slots of the pool, each at most once.
FreeListSound(b) ==
    LET free == b.pool.free_list
    IN  /\ \A i \in 1..Len(free) : free[i] \in Slots(b)
        /\ \A i, j \in 1..Len(free) : free[i] = free[j] => i = j

IsFree(b, ptr) == \E i \in 1..Len(b.pool.free_list) : b.pool.free_list[i] = ptr

\* A slot is either free or holds a live order, never both and never neither:
\* no pointer on the book is handed out a second time, and no slot leaks.
PoolPartitioned(b) ==
    \A ptr \in Slots(b) : IsFree(b, ptr) <=> \A id \in LiveIds(b) : PtrOf(b, id) # ptr

BookInv(b) ==
    /\ BookTypeOK(b)
    /\ QueuedIsIndexed(b)
    /\ IndexedIsQueued(b)
    /\ NoEmptyLevel(b)
    /\ QueueInArrivalOrder(b)
    /\ FreeListSound(b)
    /\ PoolPartitioned(b)
=============================================================================
