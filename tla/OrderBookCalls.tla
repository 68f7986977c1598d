--------------------------- MODULE OrderBookCalls ---------------------------
(***************************************************************************)
(* One OrderBook driven through its public operations in any order, as     *)
(* tests/test_orderbook.cpp drives it.  A caller may pass any ID to        *)
(* cancel_order and reduce_order.  remove_order takes an Order*; its       *)
(* callers pass the pointer of an order that is on the book.               *)
(***************************************************************************)
EXTENDS OrderBook

CONSTANTS
    Types,           \* the types of the orders added
    Prices,          \* the prices orders are added at
    Quantities,      \* the quantities orders are added with
    Reductions,      \* the quantities passed to reduce_order
    QuantityModulus, \* 2^32 in the code: a Quantity is a uint32_t
    MaxOrders        \* bound on the number of IDs used

ASSUME CallsAssumption ==
    /\ Types \subseteq OrderType
    /\ Prices \subseteq Int
    /\ QuantityModulus \in Nat \ {0}
    /\ Quantities \subseteq 1..QuantityModulus - 1
    /\ Reductions \subseteq 0..QuantityModulus - 1
    /\ MaxOrders \in Nat

VARIABLE book

Init == book = NewBook

AddOrder(side, type, price, quantity) ==
    /\ book.next_order_id =< MaxOrders
    /\ book' = add_order(book, side, type, price, quantity)

NextOrderId ==
    /\ book.next_order_id =< MaxOrders
    /\ book' = next_order_id(book)

CancelOrder(id) == book' = cancel_order(book, id)

ReduceOrder(id, new_quantity) == book' = reduce_order(book, id, new_quantity)

RemoveOrder(ptr) == book' = remove_order(book, ptr)

Next ==
    \/ \E side \in Side, type \in Types, price \in Prices, quantity \in Quantities :
            AddOrder(side, type, price, quantity)
    \/ NextOrderId
    \/ \E id \in 1..MaxOrders : CancelOrder(id)
    \/ \E id \in 1..MaxOrders, new_quantity \in Reductions : ReduceOrder(id, new_quantity)
    \/ \E id \in LiveIds(book) : RemoveOrder(PtrOf(book, id))

Spec == Init /\ [][Next]_book

-----------------------------------------------------------------------------

\* The types of the book's containers.
TypeOK == BookTypeOK(book)

\* The price levels and the ID index describe the same set of live orders,
\* node for node, after every add, cancel, reduce and remove.
IndexMatchesLevels == QueuedIsIndexed(book) /\ IndexedIsQueued(book)

\* A level disappears with its last order (cleanup_price_level).
NoStaleLevel == NoEmptyLevel(book)

\* Arrival order at a level survives every operation on the book.
TimePriority == QueueInArrivalOrder(book)

\* The pool's free list and the live orders partition the slots: no pointer
\* on the book is recycled under its owner, and no slot is lost.
PoolSound == FreeListSound(book) /\ PoolPartitioned(book)

\* The counts agree: active_count() of the pool, order_count() of the index.
CountsAgree == active_count(book.pool) = order_count(book)

\* Between books b and c order id kept its side, price and node, and the
\* object there changed at most in remaining_qty, which did not grow.
StaysPut(b, c, id) ==
    /\ SideOf(c, id) = SideOf(b, id)
    /\ PriceOf(c, id) = PriceOf(b, id)
    /\ PtrOf(c, id) = PtrOf(b, id)
    /\ OrderOf(c, id) = [OrderOf(b, id) EXCEPT !.remaining_qty = OrderOf(c, id).remaining_qty]
    /\ OrderOf(c, id).remaining_qty =< OrderOf(b, id).remaining_qty

\* While an order is on the book nothing moves it to another node or slot and
\* nothing overwrites it: only reduce_order changes it, and only downwards.
\* Growth of the pool and recycling of slots must not disturb it.
OrdersStayPut ==
    [][\A id \in LiveIds(book) \cap LiveIds(book') : StaysPut(book, book', id)]_book

\* The volume on a side, summed over the live orders of the index.
VolumeOf(side) ==
    SumOver([id \in LiveIds(book) |-> OrderOf(book, id).remaining_qty],
            {id \in LiveIds(book) : SideOf(book, id) = side})

\* total_bid_quantity() and total_ask_quantity(), which walk the levels, are
\* the "Total volume sitting on each side of the book" (OrderBook.h:92).
\* The sum is a Quantity: it wraps with 2^32.
TotalsAreVolumes ==
    \A side \in Side :
        total_quantity(book, side, QuantityModulus) = VolumeOf(side) % QuantityModulus
=============================================================================
