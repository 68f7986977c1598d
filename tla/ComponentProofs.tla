-------------------------- MODULE ComponentProofs ---------------------------
(***************************************************************************)
(* The properties of the two components that use no other: of              *)
(* OrderBookCalls, for every pool size, every set of prices and quantities *)
(* and any number of calls, and of RiskCalls, for any limits.              *)
(***************************************************************************)
EXTENDS OrderBookCalls, RiskCalls, ComponentLemmas

(***************************************************************************)
(* The order book.                                                         *)
(***************************************************************************)

\* The inductive invariant.
BookSound == BookInv(book)

\* BookInv is an inductive invariant of any sequence of add_order,
\* next_order_id, cancel_order, reduce_order and remove_order calls.
THEOREM BookAlwaysSound == Spec => []BookSound
<1>1. Init => BookSound
  BY NewBookInv DEF Init, BookSound
<1>2. BookSound /\ [Next]_book => BookSound'
  <2> SUFFICES ASSUME BookInv(book), [Next]_book
               PROVE  BookInv(book')
    BY DEF BookSound
  <2>1. ASSUME NEW side \in Side, NEW type \in Types, NEW price \in Prices,
               NEW quantity \in Quantities, AddOrder(side, type, price, quantity)
        PROVE  BookInv(book')
    <3>1. type \in OrderType /\ price \in Int /\ quantity \in Nat
      BY CallsAssumption
    <3> QED BY <2>1, <3>1, AddOrderInv DEF AddOrder
  <2>2. ASSUME NEW id \in 1..MaxOrders, CancelOrder(id)
        PROVE  BookInv(book')
    BY <2>2, CancelOrderInv DEF CancelOrder
  <2>3. ASSUME NEW id \in 1..MaxOrders, NEW new_quantity \in Reductions,
               ReduceOrder(id, new_quantity)
        PROVE  BookInv(book')
    <3>1. new_quantity \in Nat
      BY CallsAssumption
    <3> QED BY <2>3, <3>1, ReduceOrderInv DEF ReduceOrder
  <2>4. ASSUME NEW id \in LiveIds(book), RemoveOrder(PtrOf(book, id))
        PROVE  BookInv(book')
    BY <2>4, RemoveOrderInv DEF RemoveOrder
  <2>5. CASE NextOrderId
    BY <2>5, NextOrderIdInv DEF NextOrderId
  <2>6. CASE UNCHANGED book
    BY <2>6
  <2> QED BY <2>1, <2>2, <2>3, <2>4, <2>5, <2>6 DEF Next
<1> QED
  BY <1>1, <1>2, PTL DEF Spec

\* The containers keep their types.
THEOREM TypeCorrect == Spec => []TypeOK
<1>1. BookSound => TypeOK
  BY DEF BookSound, BookInv, TypeOK
<1> QED
  BY <1>1, BookAlwaysSound, PTL

\* The price levels and order_lookup_ describe the same live orders, so a
\* cancel by ID erases through a valid iterator of the order asked for.
THEOREM IndexCorrect == Spec => []IndexMatchesLevels
<1>1. BookSound => IndexMatchesLevels
  BY DEF BookSound, BookInv, IndexMatchesLevels
<1> QED
  BY <1>1, BookAlwaysSound, PTL

\* cleanup_price_level leaves no empty level on the book.
THEOREM LevelsCorrect == Spec => []NoStaleLevel
<1>1. BookSound => NoStaleLevel
  BY DEF BookSound, BookInv, NoStaleLevel
<1> QED
  BY <1>1, BookAlwaysSound, PTL

\* The queue position an order earned by arriving first survives every
\* operation on the book.
THEOREM TimePriorityKept == Spec => []TimePriority
<1>1. BookSound => TimePriority
  BY DEF BookSound, BookInv, TimePriority
<1> QED
  BY <1>1, BookAlwaysSound, PTL

\* The pool never hands out the slot of a live order and never leaks one.
THEOREM PoolCorrect == Spec => []PoolSound
<1>1. BookSound => PoolSound
  BY DEF BookSound, BookInv, PoolSound
<1> QED
  BY <1>1, BookAlwaysSound, PTL

-----------------------------------------------------------------------------

\* An order that an operation does not touch stays put.
LEMMA UntouchedStaysPut ==
  ASSUME NEW b, BookInv(b), NEW c, NEW id \in LiveIds(b),
         SideOf(c, id) = SideOf(b, id), PriceOf(c, id) = PriceOf(b, id),
         PtrOf(c, id) = PtrOf(b, id), Deref(c, PtrOf(b, id)) = Deref(b, PtrOf(b, id))
  PROVE  StaysPut(b, c, id)
<1>1. OrderOf(b, id) \in Order /\ OrderOf(c, id) = OrderOf(b, id)
  BY LiveSlots, ViewTypes DEF BookInv, OrderOf
<1>2. \A o \in Order : o = [o EXCEPT !.remaining_qty = o.remaining_qty] /\ o.remaining_qty \in Nat
  BY DEF Order
<1>3. \A o \in Order : o.remaining_qty =< o.remaining_qty
  BY <1>2
<1> QED
  BY <1>1, <1>2, <1>3 DEF StaysPut

\* add_order leaves every order on the book as it is,
LEMMA AddOrderStaysPut ==
  ASSUME NEW b, BookInv(b), NEW side \in Side, NEW type \in OrderType,
         NEW price \in Int, NEW quantity \in Nat, NEW id \in LiveIds(b)
  PROVE  StaysPut(b, add_order(b, side, type, price, quantity), id)
<1> DEFINE c == add_order(b, side, type, price, quantity)
<1>1. id # b.next_order_id
  BY ViewTypes DEF BookInv, BookTypeOK, IndexedIsQueued
<1>2. PtrOf(b, id) \in Slots(b) /\ PtrOf(b, id) # acquired(b.pool)
  BY LiveSlots, AcquireFacts
<1>0. Added(b, c, side, type, price, quantity)
  BY AddOrderFacts
<1> HIDE DEF c
<1>3. /\ SideOf(c, id) = SideOf(b, id) /\ PriceOf(c, id) = PriceOf(b, id)
      /\ PtrOf(c, id) = PtrOf(b, id)
      /\ Deref(c, PtrOf(b, id)) = Deref(b, PtrOf(b, id))
  BY <1>0, <1>1, <1>2 DEF Added
<1> QED
  BY <1>3, UntouchedStaysPut DEF c

\* unlinking an order leaves the others as they are,
LEMMA UnlinkStaysPut ==
  ASSUME NEW b, BookInv(b), NEW gone \in LiveIds(b),
         NEW id \in LiveIds(Unlink(b, gone, PtrOf(b, gone)))
  PROVE  StaysPut(b, Unlink(b, gone, PtrOf(b, gone)), id) /\ id \in LiveIds(b) \ {gone}
<1> DEFINE c == Unlink(b, gone, PtrOf(b, gone))
<1>1. /\ LiveIds(c) = LiveIds(b) \ {gone}
      /\ \A i \in LiveIds(c) : /\ SideOf(c, i) = SideOf(b, i)
                              /\ PriceOf(c, i) = PriceOf(b, i)
                              /\ PtrOf(c, i) = PtrOf(b, i)
      /\ \A q : Deref(c, q) = Deref(b, q)
  BY UnlinkFacts
<1> HIDE DEF c
<1>2. id \in LiveIds(c)
  BY DEF c
<1>3. StaysPut(b, c, id)
  BY <1>1, <1>2, UntouchedStaysPut
<1> QED
  BY <1>1, <1>2, <1>3 DEF c

\* A write to the object of order id, seen from order k.
LEMMA WriteStaysPut ==
  ASSUME NEW b, BookInv(b), NEW id \in LiveIds(b), NEW order \in Order, NEW k \in LiveIds(b),
         k = id => /\ order = [OrderOf(b, id) EXCEPT !.remaining_qty = order.remaining_qty]
                   /\ order.remaining_qty =< OrderOf(b, id).remaining_qty
  PROVE  StaysPut(b, WriteOrder(b, PtrOf(b, id), order), k)
<1> DEFINE c == WriteOrder(b, PtrOf(b, id), order)
<1>1. PtrOf(b, id) \in Slots(b) /\ PtrOf(b, k) \in Slots(b)
      /\ (PtrOf(b, k) = PtrOf(b, id) => k = id)
  BY LiveSlots
<1>2. /\ c.lookup = b.lookup
      /\ \A q \in Slots(b) : Deref(c, q) = IF q = PtrOf(b, id) THEN order ELSE Deref(b, q)
  BY <1>1, WriteOrderFacts DEF BookInv
<1> HIDE DEF c
<1>3. SideOf(c, k) = SideOf(b, k) /\ PriceOf(c, k) = PriceOf(b, k) /\ PtrOf(c, k) = PtrOf(b, k)
  BY <1>2 DEF SideOf, PriceOf, PtrOf
<1>4. CASE k = id
  <2>1. OrderOf(c, k) = order
    BY <1>1, <1>2, <1>3, <1>4 DEF OrderOf
  <2> QED BY <1>3, <1>4, <2>1 DEF StaysPut, c
<1>5. CASE k # id
  <2>1. Deref(c, PtrOf(b, k)) = Deref(b, PtrOf(b, k))
    BY <1>1, <1>2, <1>5
  <2> QED BY <1>3, <2>1, UntouchedStaysPut DEF c
<1> QED
  BY <1>4, <1>5

\* and so does cancel_order,
LEMMA CancelOrderStaysPut ==
  ASSUME NEW b, BookInv(b), NEW gone, NEW id \in LiveIds(b),
         id \in LiveIds(cancel_order(b, gone))
  PROVE  StaysPut(b, cancel_order(b, gone), id)
<1>1. CASE gone \notin LiveIds(b)
  BY <1>1, UntouchedStaysPut DEF cancel_order
<1>2. CASE gone \in LiveIds(b)
  <2> DEFINE ptr == PtrOf(b, gone)
             o   == [OrderOf(b, gone) EXCEPT !.status = "Cancelled"]
             w   == WriteOrder(b, ptr, o)
             c   == Unlink(w, gone, ptr)
  <2>1. ptr \in Slots(b) /\ Deref(b, ptr) \in Order
    BY <1>2, LiveSlots, ViewTypes DEF BookInv
  <2>2. /\ o \in Order
        /\ o.id = Deref(b, ptr).id
        /\ o.side = Deref(b, ptr).side
        /\ o.price = Deref(b, ptr).price
    BY <2>1 DEF OrderOf, Order, OrderStatus
  <2> HIDE DEF o
  <2>3. BookInv(w) /\ w.lookup = b.lookup
        /\ \A q \in Slots(b) : Deref(w, q) = IF q = ptr THEN o ELSE Deref(b, q)
    BY <2>1, <2>2, WriteOrderInv, WriteOrderFacts DEF BookInv
  <2>4. cancel_order(b, gone) = c
    BY <1>2 DEF cancel_order, o
  <2> HIDE DEF w
  <2>5. LiveIds(w) = LiveIds(b) /\ PtrOf(w, gone) = ptr
        /\ SideOf(w, id) = SideOf(b, id) /\ PriceOf(w, id) = PriceOf(b, id)
        /\ PtrOf(w, id) = PtrOf(b, id)
    BY <2>3 DEF LiveIds, SideOf, PriceOf, PtrOf
  <2>6. /\ LiveIds(c) = LiveIds(w) \ {gone}
        /\ \A i \in LiveIds(c) : /\ SideOf(c, i) = SideOf(w, i)
                                /\ PriceOf(c, i) = PriceOf(w, i)
                                /\ PtrOf(c, i) = PtrOf(w, i)
        /\ \A q : Deref(c, q) = Deref(w, q)
    BY <1>2, <2>3, <2>5, UnlinkFacts
  <2> HIDE DEF c, ptr
  <2>7. id # gone /\ id \in LiveIds(c)
    BY <2>4, <2>6
  <2>8. PtrOf(b, id) \in Slots(b) /\ PtrOf(b, id) # ptr
    BY <1>2, <2>7, LiveSlots DEF ptr
  <2>9. Deref(c, PtrOf(b, id)) = Deref(b, PtrOf(b, id))
    BY <2>3, <2>6, <2>8
  <2>10. SideOf(c, id) = SideOf(b, id) /\ PriceOf(c, id) = PriceOf(b, id)
         /\ PtrOf(c, id) = PtrOf(b, id)
    BY <2>5, <2>6, <2>7
  <2> QED BY <2>4, <2>9, <2>10, UntouchedStaysPut
<1> QED
  BY <1>1, <1>2

\* and reduce_order changes one order, which it does not grow.
LEMMA ReduceOrderStaysPut ==
  ASSUME NEW b, BookInv(b), NEW id, NEW new_quantity \in Nat, NEW k \in LiveIds(b),
         k \in LiveIds(reduce_order(b, id, new_quantity))
  PROVE  StaysPut(b, reduce_order(b, id, new_quantity), k)
<1> DEFINE live == id \in LiveIds(b) /\ new_quantity < OrderOf(b, id).remaining_qty
           o    == [OrderOf(b, id) EXCEPT !.remaining_qty = new_quantity]
<1>1. CASE ~live
  <2>1. reduce_order(b, id, new_quantity) = b
    BY <1>1 DEF reduce_order
  <2> QED BY <2>1, UntouchedStaysPut
<1>2. CASE live /\ new_quantity = 0
  <2>1. reduce_order(b, id, new_quantity) = cancel_order(b, id)
    BY <1>2 DEF reduce_order
  <2> QED BY <2>1, CancelOrderStaysPut
<1>3. CASE live /\ new_quantity # 0
  <2>1. OrderOf(b, id) \in Order
    BY <1>3, LiveSlots, ViewTypes DEF BookInv, OrderOf
  <2>2. /\ o \in Order
        /\ o.remaining_qty = new_quantity
        /\ o = [OrderOf(b, id) EXCEPT !.remaining_qty = o.remaining_qty]
    BY <2>1 DEF Order
  <2>3. OrderOf(b, id).remaining_qty \in Nat
    BY <2>1 DEF Order
  <2>4. o.remaining_qty =< OrderOf(b, id).remaining_qty
    BY <1>3, <2>2, <2>3
  <2> HIDE DEF o
  <2>5. StaysPut(b, WriteOrder(b, PtrOf(b, id), o), k)
    BY <1>3, <2>2, <2>4, WriteStaysPut
  <2> QED BY <1>3, <2>5 DEF reduce_order, o
<1> QED
  BY <1>1, <1>2, <1>3

\* No operation on the book moves, overwrites or grows an order that stays on
\* it: a participant's place and object survive pool growth, slot recycling
\* and everybody else's adds, cancels, reductions and removals.
THEOREM OrdersKept == Spec => OrdersStayPut
<1> DEFINE Kept == \A id \in LiveIds(book) \cap LiveIds(book') : StaysPut(book, book', id)
<1>1. BookSound /\ [Next]_book => [Kept]_book
  <2> SUFFICES ASSUME BookSound, Next, NEW id \in LiveIds(book) \cap LiveIds(book')
               PROVE  StaysPut(book, book', id)
    OBVIOUS
  <2>1. BookInv(book)
    BY DEF BookSound
  <2>2. ASSUME NEW side \in Side, NEW type \in Types, NEW price \in Prices,
               NEW quantity \in Quantities, AddOrder(side, type, price, quantity)
        PROVE  StaysPut(book, book', id)
    <3>1. type \in OrderType /\ price \in Int /\ quantity \in Nat
      BY CallsAssumption
    <3> QED BY <2>1, <2>2, <3>1, AddOrderStaysPut DEF AddOrder
  <2>3. CASE NextOrderId
    <3>1. book'.lookup = book.lookup /\ book'.pool = book.pool
      BY <2>1, <2>3 DEF NextOrderId, next_order_id, BookInv, BookTypeOK
    <3>2. /\ SideOf(book', id) = SideOf(book, id) /\ PriceOf(book', id) = PriceOf(book, id)
          /\ PtrOf(book', id) = PtrOf(book, id)
          /\ Deref(book', PtrOf(book, id)) = Deref(book, PtrOf(book, id))
      BY <3>1 DEF SideOf, PriceOf, PtrOf, Deref
    <3> QED BY <2>1, <3>2, UntouchedStaysPut
  <2>4. ASSUME NEW gone \in 1..MaxOrders, CancelOrder(gone)
        PROVE  StaysPut(book, book', id)
    BY <2>1, <2>4, CancelOrderStaysPut DEF CancelOrder
  <2>5. ASSUME NEW k \in 1..MaxOrders, NEW new_quantity \in Reductions,
               ReduceOrder(k, new_quantity)
        PROVE  StaysPut(book, book', id)
    <3>1. new_quantity \in Nat
      BY CallsAssumption
    <3> QED BY <2>1, <2>5, <3>1, ReduceOrderStaysPut DEF ReduceOrder
  <2>6. ASSUME NEW gone \in LiveIds(book), RemoveOrder(PtrOf(book, gone))
        PROVE  StaysPut(book, book', id)
    <3>1. Deref(book, PtrOf(book, gone)).id = gone
      BY <2>1, LiveSlots
    <3>2. book' = Unlink(book, gone, PtrOf(book, gone))
      BY <2>6, <3>1 DEF RemoveOrder, remove_order
    <3> QED BY <2>1, <3>2, UnlinkStaysPut
  <2> QED BY <2>2, <2>3, <2>4, <2>5, <2>6 DEF Next
<1> QED
  BY <1>1, BookAlwaysSound, PTL DEF Spec, OrdersStayPut

-----------------------------------------------------------------------------

\* A slot is on the free list or holds one live order, so the pool's count of
\* active objects is the number of live orders.
LEMMA ActiveAreLive ==
  ASSUME NEW b, BookInv(b)
  PROVE  /\ IsFiniteSet(LiveIds(b))
         /\ active_count(b.pool) = order_count(b)
<1> DEFINE free == b.pool.free_list
           n    == Len(free)
           cap  == capacity(b.pool)
           F    == {free[i] : i \in 1..n}
           live == LiveIds(b)
           f    == [i \in 1..n |-> free[i]]
           g    == [id \in live |-> PtrOf(b, id)]
<1>1. cap \in Nat /\ n \in Nat /\ free \in Seq(Nat)
  BY ViewTypes, LenProperties DEF BookInv
<1>2. Slots(b) = 1..cap
  BY DEF Slots
<1>3. IsFiniteSet(1..cap) /\ Cardinality(1..cap) = cap
      /\ IsFiniteSet(1..n) /\ Cardinality(1..n) = n
  <2> HIDE DEF cap, n
  <2> QED BY <1>1, FS_Interval
<1>4. F \subseteq 1..cap /\ \A i, j \in 1..n : free[i] = free[j] => i = j
  BY <1>2 DEF BookInv, FreeListSound
<1>5. \A ptr \in 1..cap : ptr \in F <=> \A id \in live : PtrOf(b, id) # ptr
  BY <1>2 DEF BookInv, PoolPartitioned, IsFree
<1>6. /\ \A id \in live : PtrOf(b, id) \in 1..cap
      /\ \A i, j \in live : PtrOf(b, i) = PtrOf(b, j) => i = j
  BY Zenon, <1>2, LiveSlots
<1>7. f \in Bijection(1..n, F)
  <2>1. f \in [1..n -> F] /\ \A i, j \in 1..n : f[i] = f[j] => i = j
    BY <1>4
  <2>2. \A t \in F : \E i \in 1..n : f[i] = t
    OBVIOUS
  <2> HIDE DEF f, F, n
  <2> QED BY Zenon, <2>1, <2>2, Fun_IsBij
<1>8. g \in Bijection(live, (1..cap) \ F)
  <2>1. g \in [live -> (1..cap) \ F] /\ \A i, j \in live : g[i] = g[j] => i = j
    <3> HIDE DEF F, cap, live
    <3> QED BY <1>5, <1>6
  <2>2. \A t \in (1..cap) \ F : \E i \in live : g[i] = t
    <3> HIDE DEF F, cap, live
    <3> QED BY <1>5
  <2> HIDE DEF g, F, live, cap
  <2> QED BY <2>1, <2>2, Fun_IsBij
<1> HIDE DEF f, g, F, live, cap, n
<1>9. IsFiniteSet(F) /\ Cardinality(F) = n
  <2>1. ExistsBijection(1..n, F)
    BY <1>7, Zenon DEF ExistsBijection
  <2> QED BY <1>3, <2>1, FS_Bijection
<1>10. IsFiniteSet((1..cap) \ F) /\ Cardinality((1..cap) \ F) = cap - n
  <2>1. (1..cap) \cap F = F
    BY Zenon, <1>4
  <2>2. /\ IsFiniteSet((1..cap) \ F)
        /\ Cardinality((1..cap) \ F) = Cardinality(1..cap) - Cardinality((1..cap) \cap F)
    BY <1>3, FS_Difference, Zenon
  <2> QED BY <1>3, <1>9, <2>1, <2>2, Zenon
<1>11. IsFiniteSet(live) /\ Cardinality(live) = cap - n
  <2>1. Inverse(g, live, (1..cap) \ F) \in Bijection((1..cap) \ F, live)
    BY <1>8, Fun_BijInverse
  <2>2. ExistsBijection((1..cap) \ F, live)
    BY <2>1, Zenon DEF ExistsBijection
  <2> QED BY <1>10, <2>2, FS_Bijection
<1> QED
  BY <1>11 DEF active_count, order_count, live, cap, n

\* The pool and the index count the same orders after any sequence of calls.
THEOREM CountsAlwaysAgree == Spec => []CountsAgree
<1>1. BookSound => CountsAgree
  BY ActiveAreLive DEF BookSound, CountsAgree
<1> QED
  BY <1>1, BookAlwaysSound, PTL

-----------------------------------------------------------------------------
(***************************************************************************)
(* Volumes.  A level's queue and the index entries of its price name the   *)
(* same orders, each once, so a walk over the levels adds up every live    *)
(* order of the side once.                                                 *)
(***************************************************************************)

Remaining(b) == [id \in LiveIds(b) |-> OrderOf(b, id).remaining_qty]

IdsAt(b, side, p) == {id \in LiveIds(b) : SideOf(b, id) = side /\ PriceOf(b, id) = p}

\* The inner loop adds up the live orders of one level.
LEMMA LevelSum ==
  ASSUME NEW b, BookInv(b), NEW side \in Side, NEW p \in LevelPrices(b, side)
  PROVE  LevelQuantity(b, side, p) = SumOver(Remaining(b), IdsAt(b, side, p))
<1> DEFINE d == Depth(b, side, p)
           f == [i \in 1..d |-> Deref(b, Node(b, side, p, i)).remaining_qty]
           g == Remaining(b)
           T == IdsAt(b, side, p)
           Id(i) == Deref(b, Node(b, side, p, i)).id
           h == [i \in 1..d |-> Id(i)]
<1>1. d \in Nat
  BY ViewTypes DEF BookInv
<1>2. \A i \in 1..d : Id(i) \in T /\ PtrOf(b, Id(i)) = Node(b, side, p, i)
  BY DEF BookInv, QueuedIsIndexed, IdsAt
<1>3. ASSUME NEW i \in 1..d, NEW j \in 1..d, Id(i) = Id(j)
      PROVE  i = j
  <2>1. \A k \in 1..d : Id(k) \in Nat
    BY <1>2, ViewTypes DEF BookInv, IdsAt
  <2>2. \A k, l \in 1..d : k < l => Id(k) < Id(l)
    BY DEF BookInv, QueueInArrivalOrder
  <2> HIDE DEF Id
  <2> QED BY <1>1, <1>3, <2>1, <2>2
<1>4. ASSUME NEW id \in T
      PROVE  \E i \in 1..d : Id(i) = id
  <2>1. PICK i \in 1..d : Node(b, side, p, i) = PtrOf(b, id)
    BY DEF BookInv, IndexedIsQueued, IdsAt
  <2>2. Deref(b, PtrOf(b, id)).id = id
    BY LiveSlots DEF IdsAt
  <2> QED BY <2>1, <2>2
<1>5. \A i \in 1..d : f[i] = g[h[i]]
  BY <1>2 DEF Remaining, OrderOf, IdsAt
<1>6. \A id \in T : g[id] \in Int
  <2>1. \A id \in T : id \in LiveIds(b) /\ Deref(b, PtrOf(b, id)) \in Order
    BY LiveSlots, ViewTypes DEF BookInv, IdsAt
  <2> QED BY <2>1 DEF Remaining, OrderOf, Order
<1>7. IsFiniteSet(1..d)
  BY <1>1, FS_Interval
<1>8. /\ h \in [1..d -> T]
      /\ \A i, j \in 1..d : h[i] = h[j] => i = j
      /\ \A id \in T : \E i \in 1..d : h[i] = id
  BY <1>2, <1>3, <1>4
<1>9. LevelQuantity(b, side, p) = SumOver(f, 1..d)
  BY DEF LevelQuantity
<1> HIDE DEF d, f, g, T, h
<1>10. SumOver(f, 1..d) = SumOver(g, T)
  <2> DEFINE S == 1..d
  <2>1. /\ IsFiniteSet(S) /\ h \in [S -> T] /\ \A i \in S : f[i] = g[h[i]]
        /\ \A i, j \in S : h[i] = h[j] => i = j
        /\ \A id \in T : \E i \in S : h[i] = id
    BY <1>5, <1>7, <1>8
  <2> HIDE DEF S
  <2>2. SumOver(f, S) = SumOver(g, T)
    BY <1>6, <2>1, SumRenamed
  <2> QED BY <2>2 DEF S
<1> QED
  BY <1>9, <1>10 DEF g, T

\* total_bid_quantity() and total_ask_quantity() wrap with 2^32 and are exact
\* otherwise, after any sequence of calls.
THEOREM TotalsAlwaysVolumes == Spec => []TotalsAreVolumes
<1>1. ASSUME BookInv(book), NEW side \in Side
      PROVE  total_quantity(book, side, QuantityModulus) = VolumeOf(side) % QuantityModulus
  <2> DEFINE f == Remaining(book)
             S == {id \in LiveIds(book) : SideOf(book, id) = side}
             K == LevelPrices(book, side)
             key == [id \in S |-> PriceOf(book, id)]
             g == [p \in K |-> LevelQuantity(book, side, p)]
  <2>1. IsFiniteSet(S)
    BY <1>1, ActiveAreLive, FS_Subset
  <2>2. key \in [S -> K]
    BY <1>1 DEF BookInv, IndexedIsQueued
  <2>3. ASSUME NEW p \in K
        PROVE  \E id \in S : key[id] = p
    <3>1. 1 \in 1..Depth(book, side, p)
      BY <1>1, ViewTypes DEF BookInv, NoEmptyLevel
    <3> QED BY <1>1, <3>1 DEF BookInv, QueuedIsIndexed
  <2>4. \A id \in S : f[id] \in Int
    <3>1. \A id \in S : id \in LiveIds(book) /\ Deref(book, PtrOf(book, id)) \in Order
      BY <1>1, LiveSlots, ViewTypes DEF BookInv
    <3> QED BY <3>1 DEF Remaining, OrderOf, Order
  <2>5. \A p \in K : g[p] = SumOver(f, {id \in S : key[id] = p})
    <3> SUFFICES ASSUME NEW p \in K
                 PROVE  g[p] = SumOver(f, {id \in S : key[id] = p})
      OBVIOUS
    <3>1. {id \in S : key[id] = p} = IdsAt(book, side, p)
      BY DEF IdsAt
    <3>2. g[p] = SumOver(f, IdsAt(book, side, p))
      BY <1>1, LevelSum
    <3> QED BY <3>1, <3>2, Zenon
  <2>6. VolumeOf(side) = SumOver(f, S)
    BY DEF VolumeOf, Remaining
  <2>7. total_quantity(book, side, QuantityModulus) = SumOver(g, K) % QuantityModulus
    BY DEF total_quantity
  <2> HIDE DEF f, S, K, key, g
  <2>8. IsFiniteSet(K)
    <3>1. key \in Surjection(S, K)
      BY <2>2, <2>3, Fun_IsSurj
    <3> QED BY <2>1, <3>1, FS_Surjection
  <2>9. SumOver(f, S) = SumOver(g, K)
    BY <2>1, <2>2, <2>4, <2>5, <2>8, SumGrouped
  <2> QED BY <2>6, <2>7, <2>9, Zenon
<1>2. BookSound => TotalsAreVolumes
  BY Zenon, <1>1 DEF BookSound, TotalsAreVolumes
<1> QED
  BY <1>2, BookAlwaysSound, PTL

-----------------------------------------------------------------------------
(***************************************************************************)
(* The risk checker keeps its types, and keeps positions within the cap    *)
(* when at most one order that passed is open at a time.                   *)
(***************************************************************************)

Positions == UNION {[S -> Int] : S \in SUBSET Symbols}

OpenOrder ==
    [symbol : Symbols, side : Side, type : OrderTypes, price : OrderPrices, quantity : Nat]

Checker ==
    [limits : LimitChoices, kill_switch : BOOLEAN, positions : Positions,
     exposure : Int, stats : RiskStats]

\* RiskTypeOK of RiskCalls, with names for its two sets.
LEMMA TypeOKShape == RiskTypeOK <=> risk \in Checker /\ open \in Seq(OpenOrder)
<1>1. ASSUME NEW S \in SUBSET Symbols
      PROVE  [S -> Int] \subseteq Positions
  BY Zenon DEF Positions
<1>2. RiskTypeOK => risk \in Checker
  BY Zenon, <1>1 DEF RiskTypeOK, Checker
<1>3. ASSUME risk \in Checker
      PROVE  \E S \in SUBSET Symbols :
                risk \in [limits : LimitChoices, kill_switch : BOOLEAN,
                          positions : [S -> Int], exposure : Int, stats : RiskStats]
  <2>1. PICK S \in SUBSET Symbols : risk.positions \in [S -> Int]
    BY Zenon, <1>3 DEF Checker, Positions
  <2>2. risk \in [limits : LimitChoices, kill_switch : BOOLEAN,
                  positions : [S -> Int], exposure : Int, stats : RiskStats]
    BY <1>3, <2>1 DEF Checker
  <2> QED BY Zenon, <2>2
<1> QED BY Zenon, <1>2, <1>3 DEF RiskTypeOK, OpenOrder

\* What on_fill does: it moves one position and changes no limit.
LEMMA OnFillFacts ==
  ASSUME NEW r \in Checker, NEW symbol \in Symbols, NEW side \in Side,
         NEW price \in Int, NEW quantity \in Nat
  PROVE  LET c == on_fill(r, symbol, side, price, quantity)
         IN  /\ c \in Checker
             /\ c.limits = r.limits
             /\ \A s : position(c, s) =
                    IF s = symbol THEN position(r, s) + Delta(side, quantity) ELSE position(r, s)
<1> DEFINE p == [s \in DOMAIN r.positions \cup {symbol} |->
                    position(r, s) + (IF s = symbol THEN Delta(side, quantity) ELSE 0)]
           e == r.exposure + price * quantity
           c == on_fill(r, symbol, side, price, quantity)
<1>1. Delta(side, quantity) \in Int
  BY DEF Delta
<1>2. /\ DOMAIN r.positions \subseteq Symbols
      /\ \A s \in DOMAIN r.positions : r.positions[s] \in Int
  BY DEF Checker, Positions
<1>3. \A s : position(r, s) \in Int
  BY <1>2 DEF position
<1>4. p \in Positions
  <2>1. p \in [DOMAIN r.positions \cup {symbol} -> Int]
    BY <1>1, <1>3
  <2>2. DOMAIN r.positions \cup {symbol} \in SUBSET Symbols
    BY <1>2
  <2> QED BY Zenon, <2>1, <2>2 DEF Positions
<1>5. price * quantity \in Int
  OBVIOUS
<1>6. e \in Int
  BY <1>5 DEF Checker
<1>7. c = [limits |-> r.limits, kill_switch |-> r.kill_switch, positions |-> p,
           exposure |-> e, stats |-> r.stats]
  <2> HIDE DEF p
  <2>1. FillPosition(r, symbol, side, quantity) = [r EXCEPT !.positions = p]
    BY DEF FillPosition, p
  <2>2. \A u : [r EXCEPT !.positions = u] =
            [limits |-> r.limits, kill_switch |-> r.kill_switch, positions |-> u,
             exposure |-> r.exposure, stats |-> r.stats]
    BY DEF Checker
  <2> DEFINE f == [limits |-> r.limits, kill_switch |-> r.kill_switch, positions |-> p,
                   exposure |-> r.exposure, stats |-> r.stats]
  <2>3. FillPosition(r, symbol, side, quantity) = f
    BY <2>1, <2>2
  <2>4. c = [f EXCEPT !.exposure = f.exposure + price * quantity]
    BY <2>3 DEF on_fill, FillExposure
  <2>5. \A u : [f EXCEPT !.exposure = u] =
            [limits |-> r.limits, kill_switch |-> r.kill_switch, positions |-> p,
             exposure |-> u, stats |-> r.stats]
    OBVIOUS
  <2>6. f.exposure = r.exposure
    OBVIOUS
  <2> HIDE DEF f, c
  <2> QED BY <2>4, <2>5, <2>6
<1>8. c \in Checker /\ c.limits = r.limits /\ c.positions = p
  <2> HIDE DEF p, e, c
  <2> QED BY <1>4, <1>6, <1>7 DEF Checker
<1>9. \A s : position(c, s) =
          IF s = symbol THEN position(r, s) + Delta(side, quantity) ELSE position(r, s)
  <2>1. \A s : position(c, s) = IF s \in DOMAIN p THEN p[s] ELSE 0
    BY <1>8 DEF position
  <2>2. \A s \in DOMAIN r.positions \cup {symbol} : p[s] =
            position(r, s) + (IF s = symbol THEN Delta(side, quantity) ELSE 0)
    OBVIOUS
  <2>3. DOMAIN p = DOMAIN r.positions \cup {symbol}
    OBVIOUS
  <2>4. \A s : s \notin DOMAIN r.positions => position(r, s) = 0
    BY DEF position
  <2> HIDE DEF p, c
  <2> QED BY <1>1, <1>3, <2>1, <2>2, <2>3, <2>4
<1> HIDE DEF c
<1> QED BY <1>8, <1>9 DEF c

-----------------------------------------------------------------------------

\* The checker and the open orders keep their types, whatever orders are
\* checked and however they are filled.
LEMMA TypeStep == RiskTypeOK /\ [RiskNext]_riskVars => RiskTypeOK'
<1> SUFFICES ASSUME risk \in Checker, open \in Seq(OpenOrder), [RiskNext]_riskVars
             PROVE  risk' \in Checker /\ open' \in Seq(OpenOrder)
  BY TypeOKShape DEF RiskTypeOK, Checker, Positions, OpenOrder
<1>k. /\ [risk EXCEPT !.kill_switch = TRUE] \in Checker
      /\ [risk EXCEPT !.kill_switch = FALSE] \in Checker
  BY Zenon DEF Checker
<1>s. ASSUME NEW s \in RiskStats
      PROVE  [risk EXCEPT !.stats = s] \in Checker
  BY DEF Checker
<1>o. \A i \in DOMAIN open : RemoveAt(open, i) \in Seq(OpenOrder) /\ open[i] \in OpenOrder
  BY RemoveAtProperties, LenProperties, ElementOfSeq
<1>1. ASSUME NEW order \in CheckedOrder, Check(order)
      PROVE  risk' \in Checker /\ open' \in Seq(OpenOrder)
  <2>1. order \in OpenOrder
    BY Zenon, RiskAssumption DEF CheckedOrder, OpenOrder
  <2> DEFINE s == Recorded(risk.stats, check(risk, order))
  <2>2. s \in RiskStats
    BY CheckResult, RecordedType DEF Checker
  <2>3. risk' = [risk EXCEPT !.stats = s]
    BY <1>1 DEF Check
  <2> HIDE DEF s
  <2>4. risk' \in Checker
    BY Zenon, <1>s, <2>2, <2>3
  <2>5. Append(open, order) \in Seq(OpenOrder)
    BY <2>1, AppendProperties
  <2>6. open' = Append(open, order) \/ open' = open
    BY <1>1 DEF Check
  <2> QED BY <2>4, <2>5, <2>6
<1>2. ASSUME NEW i \in DOMAIN open, NEW price \in {p \in OrderPrices : p > 0},
             NEW quantity \in 1..open[i].quantity, OnFill(i, price, quantity)
      PROVE  risk' \in Checker /\ open' \in Seq(OpenOrder)
  <2>1. /\ open[i].symbol \in Symbols /\ open[i].side \in Side
        /\ open[i].quantity \in Nat
    BY <1>o DEF OpenOrder
  <2>2. price \in Int /\ quantity \in Nat
    BY <2>1, RiskAssumption
  <2>3. risk' \in Checker
    BY <1>2, <2>1, <2>2, OnFillFacts DEF OnFill
  <2> DEFINE o == [open[i] EXCEPT !.quantity = open[i].quantity - quantity]
  <2>4. quantity =< open[i].quantity
    BY <1>2 DEF OnFill
  <2>5. open[i].quantity - quantity \in Nat
    BY <2>1, <2>2, <2>4
  <2>6. o \in OpenOrder
    BY Zenon, <1>o, <2>5 DEF OpenOrder
  <2>7. open' = RemoveAt(open, i) \/ open' = [open EXCEPT ![i] = o]
    BY <1>2 DEF OnFill
  <2> HIDE DEF o
  <2>8. [open EXCEPT ![i] = o] \in Seq(OpenOrder)
    BY <2>6, ExceptSeq
  <2> QED BY <1>o, <2>3, <2>7, <2>8
<1>3. ASSUME NEW i \in DOMAIN open, Withdraw(i)
      PROVE  risk' \in Checker /\ open' \in Seq(OpenOrder)
  BY <1>3, <1>o DEF Withdraw
<1>4. CASE EngageKillSwitch \/ DisengageKillSwitch
  BY Zenon, <1>4, <1>k DEF EngageKillSwitch, DisengageKillSwitch
<1>5. ASSUME NEW limits \in LimitChoices, SetLimits(limits)
      PROVE  risk' \in Checker /\ open' \in Seq(OpenOrder)
  <2>1. [risk EXCEPT !.limits = limits] \in Checker
    BY DEF Checker
  <2> QED BY Zenon, <1>5, <2>1 DEF SetLimits
<1>6. CASE ResetStats
  <2>1. NoStats \in RiskStats
    BY DEF NoStats, RiskStats
  <2> QED BY Zenon, <1>6, <1>s, <2>1 DEF ResetStats
<1>7. CASE UNCHANGED riskVars
  BY <1>7 DEF riskVars
<1> QED
  BY <1>1, <1>2, <1>3, <1>4, <1>5, <1>6, <1>7 DEF RiskNext

\* A new checker and no open orders have their types.
LEMMA TypeInit == RiskInit => RiskTypeOK
<1> SUFFICES ASSUME NEW limits \in LimitChoices, risk = NewChecker(limits), open = << >>
             PROVE  risk \in Checker /\ open \in Seq(OpenOrder)
  BY TypeOKShape DEF RiskInit
<1>1. NoStats \in RiskStats
  BY DEF NoStats, RiskStats
<1>2. [symbol \in {} |-> 0] \in Positions
  <2>1. [symbol \in {} |-> 0] \in [{} -> Int]
    OBVIOUS
  <2>2. {} \in SUBSET Symbols
    OBVIOUS
  <2> QED BY Zenon, <2>1, <2>2 DEF Positions
<1>3. risk \in Checker
  BY <1>1, <1>2 DEF NewChecker, Checker
<1> QED BY <1>3

\* The checker and the open orders keep their types under any sequence of
\* calls of check, on_fill, set_limits and the kill switch.
THEOREM RiskTypeCorrect == RiskSpec => []RiskTypeOK
BY TypeInit, TypeStep, PTL DEF RiskSpec

-----------------------------------------------------------------------------
(***************************************************************************)
(* The position cap.  check only bounds the projection of the order it is  *)
(* given, so the invariant also bounds the position that an order which is *)
(* open would lead to; a partial fill leads to a position between the two. *)
(***************************************************************************)

Capped(x) == \E limits \in LimitChoices : Within(x, limits.max_position_abs)

CapInv ==
    /\ RiskTypeOK
    /\ Len(open) =< 1
    /\ \A symbol \in Symbols : Capped(position(risk, symbol))
    /\ \A i \in DOMAIN open : Capped(Projected(risk, open[i]))

\* A position between two capped positions is capped.
LEMMA CappedBetween ==
  ASSUME NEW x \in Int, NEW side \in Side, NEW q \in Nat, NEW part \in 0..q,
         Capped(x), Capped(x + Delta(side, q))
  PROVE  Capped(x + Delta(side, part))
<1>1. PICK l \in LimitChoices : Within(x, l.max_position_abs)
  BY DEF Capped
<1>2. PICK m \in LimitChoices : Within(x + Delta(side, q), m.max_position_abs)
  BY DEF Capped
<1> DEFINE a == l.max_position_abs
           b == m.max_position_abs
           y == x + Delta(side, part)
<1>3. a \in Nat /\ b \in Nat
  BY RiskAssumption DEF RiskLimits
<1>4. Within(x, a) /\ Within(x + Delta(side, q), b)
  BY <1>1, <1>2
<1>5. Within(y, a) \/ Within(y, b)
  <2> HIDE DEF a, b
  <2> QED BY <1>3, <1>4 DEF Within, Delta
<1> QED BY <1>5 DEF Capped

\* position() returns an integer, 0 for a symbol that never traded.
LEMMA PositionTypes ==
  ASSUME NEW r \in Checker
  PROVE  \A symbol : position(r, symbol) \in Int
BY DEF Checker, Positions, position

\* Every call of the checker by such a desk preserves CapInv.
LEMMA CapStep ==
  ASSUME MaxOpen = 1
  PROVE  CapInv /\ [RiskNext]_riskVars => CapInv'
<1> SUFFICES ASSUME CapInv, [RiskNext]_riskVars
             PROVE  CapInv'
  OBVIOUS
<1>1. RiskTypeOK'
  BY TypeStep DEF CapInv
<1>2. risk \in Checker /\ open \in Seq(OpenOrder) /\ Len(open) \in Nat /\ DOMAIN open = 1..Len(open)
  BY TypeOKShape, LenProperties DEF CapInv
<1>3. \A symbol : position(risk, symbol) \in Int
  BY <1>2, PositionTypes
<1>4. \A i \in DOMAIN open : open[i] \in OpenOrder
  BY <1>2, ElementOfSeq
<1> DEFINE Goal == /\ Len(open') =< 1
                   /\ \A symbol \in Symbols : Capped(position(risk', symbol))
                   /\ \A i \in DOMAIN open' : Capped(Projected(risk', open'[i]))
<1>5. ASSUME open' = open \/ open' = << >>,
             \A symbol : position(risk', symbol) = position(risk, symbol)
      PROVE  Goal
  <2>1. \A order : Projected(risk', order) = Projected(risk, order)
    BY <1>5 DEF Projected
  <2> QED BY <1>5, <2>1 DEF CapInv
<1>6. ASSUME NEW i \in DOMAIN open
      PROVE  RemoveAt(open, i) = << >>
  <2>1. RemoveAt(open, i) \in Seq(OpenOrder) /\ Len(RemoveAt(open, i)) = Len(open) - 1
    BY Zenon, <1>2, RemoveAtProperties
  <2>2. Len(open) = 1
    BY <1>2 DEF CapInv
  <2>3. Len(RemoveAt(open, i)) = 0
    BY <2>1, <2>2
  <2> QED BY <2>1, <2>3, EmptySeq
<1>7. ASSUME NEW order \in CheckedOrder, Check(order)
      PROVE  Goal
  <2>1. \A symbol : position(risk', symbol) = position(risk, symbol)
    <3>1. risk'.positions = risk.positions
      BY <1>2, <1>7 DEF Check, Checker
    <3> QED BY <3>1 DEF position
  <2>2. CASE check(risk, order) # "None"
    BY <1>5, <1>7, <2>1, <2>2 DEF Check
  <2>3. CASE check(risk, order) = "None"
    <3>1. ~Fails(risk, order, "MaxPositionExceeded")
      BY <2>3, CheckResult DEF RejectReason
    <3>2. Within(Projected(risk, order), risk.limits.max_position_abs)
      BY <3>1 DEF Fails
    <3>3. Capped(Projected(risk, order))
      BY <1>2, <3>2 DEF Capped, Checker
    <3>4. Len(open) = 0
      BY <1>2, <1>7 DEF Check
    <3>5. open' = Append(open, order)
      BY <1>7, <2>3 DEF Check
    <3>6. order \in OpenOrder
      BY Zenon, RiskAssumption DEF CheckedOrder, OpenOrder
    <3>7. Len(open') = 1 /\ open'[1] = order /\ DOMAIN open' = 1..1
      BY <1>2, <3>4, <3>5, <3>6, AppendProperties, LenProperties
    <3>8. Projected(risk', order) = Projected(risk, order)
      BY <2>1 DEF Projected
    <3> QED BY <2>1, <3>3, <3>7, <3>8 DEF CapInv
  <2> QED BY <2>2, <2>3
<1>8. ASSUME NEW i \in DOMAIN open, NEW price \in {p \in OrderPrices : p > 0},
             NEW quantity \in 1..open[i].quantity, OnFill(i, price, quantity)
      PROVE  Goal
  <2> DEFINE o == open[i]
             q == open[i].quantity
             x == position(risk, open[i].symbol)
  <2>1. o.symbol \in Symbols /\ o.side \in Side /\ q \in Nat
    BY <1>4 DEF OpenOrder
  <2>2. price \in Int /\ quantity \in Nat /\ quantity \in 0..q
    BY <2>1, RiskAssumption
  <2>3. \A s : position(risk', s) =
            IF s = o.symbol THEN position(risk, s) + Delta(o.side, quantity)
                            ELSE position(risk, s)
    BY <1>2, <1>8, <2>1, <2>2, OnFillFacts DEF OnFill
  <2>4. Capped(x) /\ Capped(x + Delta(o.side, q)) /\ x \in Int
    BY <1>3, <2>1 DEF CapInv, Projected
  <2>5. Capped(x + Delta(o.side, quantity))
    BY <2>1, <2>2, <2>4, CappedBetween
  <2>6. \A symbol \in Symbols : Capped(position(risk', symbol))
    BY <2>3, <2>5 DEF CapInv
  <2>7. CASE quantity = q
    <3>1. open' = << >>
      BY <1>6, <1>8, <2>7 DEF OnFill
    <3> QED BY <2>6, <3>1
  <2>8. CASE quantity # q
    <3> DEFINE n == [o EXCEPT !.quantity = q - quantity]
    <3>1. open' = [open EXCEPT ![i] = n]
      BY <1>8, <2>8 DEF OnFill
    <3>2. n.symbol = o.symbol /\ n.side = o.side /\ n.quantity = q - quantity
      BY <1>4 DEF OpenOrder
    <3>3. i = 1 /\ Len(open) = 1
      BY <1>2 DEF CapInv
    <3>4. DOMAIN open' = DOMAIN open /\ open'[1] = n
      BY <1>2, <3>1, <3>3
    <3>5. Len(open') = 1
      BY <1>2, <3>1, <3>3, <3>4
    <3>6. Projected(risk', n) = x + Delta(o.side, quantity) + Delta(o.side, q - quantity)
      BY <2>3, <3>2 DEF Projected
    <3>7. Delta(o.side, quantity) + Delta(o.side, q - quantity) = Delta(o.side, q)
      BY <2>1, <2>2 DEF Delta
    <3>8. Projected(risk', n) = x + Delta(o.side, q)
      BY <2>1, <2>2, <2>4, <3>6, <3>7 DEF Delta
    <3>9. Capped(Projected(risk', n))
      <4> HIDE DEF n, q, x, o
      <4> QED BY Zenon, <2>4, <3>8
    <3>10. \A j \in DOMAIN open' : j = 1
      <4>1. DOMAIN open' = 1..1
        BY Zenon, <1>2, <3>3, <3>4
      <4> QED BY <4>1
    <3>11. \A j \in DOMAIN open' : Capped(Projected(risk', open'[j]))
      <4> HIDE DEF n
      <4> QED BY Zenon, <3>4, <3>9, <3>10
    <3> QED BY <2>6, <3>5, <3>11
  <2> QED BY <2>7, <2>8
<1>9. ASSUME NEW i \in DOMAIN open, Withdraw(i)
      PROVE  Goal
  BY <1>5, <1>6, <1>9 DEF Withdraw
<1>10. ASSUME \/ EngageKillSwitch \/ DisengageKillSwitch \/ ResetStats
              \/ \E limits \in LimitChoices : SetLimits(limits)
       PROVE  Goal
  <2>1. risk'.positions = risk.positions /\ open' = open
    BY <1>2, <1>10 DEF EngageKillSwitch, DisengageKillSwitch, ResetStats, SetLimits, Checker
  <2> QED BY <1>5, <2>1 DEF position
<1>11. ASSUME UNCHANGED riskVars
       PROVE  Goal
  <2>1. risk' = risk /\ open' = open
    BY <1>11 DEF riskVars
  <2>2. \A symbol : position(risk', symbol) = position(risk, symbol)
    BY <2>1 DEF position
  <2> QED BY <1>5, <2>1, <2>2
<1>12. Goal
  <2> HIDE DEF Goal
  <2>1. CASE RiskNext
    BY Zenon, <1>7, <1>8, <1>9, <1>10, <2>1 DEF RiskNext
  <2> QED BY <1>11, <2>1
<1> QED
  BY <1>1, <1>12 DEF CapInv

\* A desk that waits until an order that passed is filled or withdrawn before
\* it checks the next one never has a position outside the caps, with any
\* partial fills, limit changes and sets of limits.
THEOREM PositionCapKept ==
  ASSUME MaxOpen = 1
  PROVE  RiskSpec => []PositionCapped
<1>1. RiskInit => CapInv
  <2> SUFFICES ASSUME RiskInit PROVE CapInv
    OBVIOUS
  <2>1. RiskTypeOK
    BY TypeInit
  <2>2. open = << >> /\ \A symbol : position(risk, symbol) = 0
    BY DEF RiskInit, NewChecker, position
  <2>3. Capped(0)
    <3>1. PICK l \in LimitChoices : risk = NewChecker(l)
      BY DEF RiskInit
    <3>2. l.max_position_abs \in Nat
      BY RiskAssumption DEF RiskLimits
    <3>3. Within(0, l.max_position_abs)
      BY <3>2 DEF Within
    <3> QED BY <3>3 DEF Capped
  <2> QED BY <2>1, <2>2, <2>3 DEF CapInv
<1>2. CapInv => PositionCapped
  BY DEF CapInv, Capped, PositionCapped
<1> QED
  BY <1>1, <1>2, CapStep, PTL DEF RiskSpec

-----------------------------------------------------------------------------

\* There are finitely many reasons.
LEMMA ReasonsFinite == IsFiniteSet(RejectReason)
<1>1. \A S, x, y : IsFiniteSet(S) => IsFiniteSet(S \cup {x, y})
  <2> SUFFICES ASSUME NEW S, NEW x, NEW y, IsFiniteSet(S)
               PROVE  IsFiniteSet(S \cup {x, y})
    OBVIOUS
  <2>1. IsFiniteSet((S \cup {x}) \cup {y})
    BY Zenon, FS_AddElement
  <2>2. (S \cup {x}) \cup {y} = S \cup {x, y}
    OBVIOUS
  <2> QED BY <2>1, <2>2
<1> DEFINE a == {} \cup {"None", "KillSwitchActive"}
           b == a \cup {"InvalidQuantity", "InvalidPrice"}
           c == b \cup {"MaxOrderQuantityExceeded", "MaxOrderNotionalExceeded"}
           d == c \cup {"MaxPositionExceeded", "MaxNotionalExposureExceeded"}
<1>2. RejectReason = d
  BY DEF RejectReason
<1>3. IsFiniteSet(a)
  BY <1>1, FS_EmptySet, Zenon
<1>4. IsFiniteSet(b)
  <2> HIDE DEF a
  <2> QED BY <1>1, <1>3, Zenon
<1>5. IsFiniteSet(c)
  <2> HIDE DEF b
  <2> QED BY <1>1, <1>4, Zenon
<1>6. IsFiniteSet(d)
  <2> HIDE DEF c
  <2> QED BY <1>1, <1>5, Zenon
<1> HIDE DEF d
<1> QED
  BY <1>2, <1>6

\* record_pass and record_reject keep the statistics in balance: a check is
\* counted once as a pass or once under its one reason.
LEMMA RecordedAddsUp ==
  ASSUME NEW s \in RiskStats, NEW reason \in RejectReason,
         s.total_checks = s.total_passes + s.total_rejections,
         s.total_rejections = SumOver(s.by_reason, RejectReason)
  PROVE  LET t == Recorded(s, reason)
         IN  /\ t.total_checks = t.total_passes + t.total_rejections
             /\ t.total_rejections = SumOver(t.by_reason, RejectReason)
<1> DEFINE t == Recorded(s, reason)
<1>1. CASE reason = "None"
  <2>1. /\ t.total_checks = s.total_checks + 1 /\ t.total_passes = s.total_passes + 1
        /\ t.total_rejections = s.total_rejections /\ t.by_reason = s.by_reason
    BY <1>1 DEF Recorded, RiskStats
  <2> HIDE DEF t
  <2> QED BY <2>1 DEF RiskStats, t
<1>2. CASE reason # "None"
  <2> DEFINE f == s.by_reason
             g == [s.by_reason EXCEPT ![reason] = s.by_reason[reason] + 1]
  <2>1. /\ t.total_checks = s.total_checks + 1 /\ t.total_passes = s.total_passes
        /\ t.total_rejections = s.total_rejections + 1 /\ t.by_reason = g
    BY <1>2 DEF Recorded, RiskStats
  <2>2. IsFiniteSet(RejectReason)
    BY ReasonsFinite
  <2>3. f \in [RejectReason -> Nat] /\ g \in [RejectReason -> Nat]
    BY DEF RiskStats
  <2>4. g[reason] = f[reason] + 1 /\ \A r \in RejectReason \ {reason} : g[r] = f[r]
    BY <2>3
  <2>5. SumOver(g, RejectReason) = SumOver(f, RejectReason) + 1
    <3> HIDE DEF f, g
    <3>1. SumOver(g, RejectReason) = SumOver(f, RejectReason) + (g[reason] - f[reason])
      BY <2>2, <2>3, <2>4, SumChange
    <3>2. SumOver(f, RejectReason) \in Nat
      BY <2>2, <2>3, SumType
    <3> QED BY <2>3, <2>4, <3>1, <3>2
  <2> HIDE DEF f, g, t
  <2>6. s.total_rejections = SumOver(f, RejectReason)
    BY DEF f
  <2>7. s.total_checks \in Nat /\ s.total_passes \in Nat /\ s.total_rejections \in Nat
    BY DEF RiskStats
  <2> QED BY <2>1, <2>5, <2>6, <2>7 DEF t
<1> QED BY <1>1, <1>2

\* The statistics add up after any sequence of calls, resets included.
THEOREM StatsAlwaysAddUp == RiskSpec => []StatsAddUp
<1>1. /\ NoStats.total_checks = 0 /\ NoStats.total_passes = 0 /\ NoStats.total_rejections = 0
      /\ SumOver(NoStats.by_reason, RejectReason) = 0
  <2> DEFINE none == [reason \in RejectReason |-> 0]
  <2>1. \A reason \in RejectReason : none[reason] = 0
    OBVIOUS
  <2>2. SumOver(none, RejectReason) = 0
    <3> HIDE DEF none
    <3> QED BY <2>1, ReasonsFinite, SumZero
  <2>3. /\ NoStats.total_checks = 0 /\ NoStats.total_passes = 0
        /\ NoStats.total_rejections = 0 /\ NoStats.by_reason = none
    BY DEF NoStats
  <2> HIDE DEF none
  <2> QED BY <2>2, <2>3
<1>2. RiskInit => StatsAddUp
  BY <1>1 DEF RiskInit, NewChecker, StatsAddUp
<1>3. ASSUME RiskTypeOK, StatsAddUp, [RiskNext]_riskVars
      PROVE  StatsAddUp'
  <2>1. risk \in Checker /\ open \in Seq(OpenOrder) /\ risk.stats \in RiskStats
    BY <1>3, TypeOKShape DEF Checker
  <2>2. ASSUME risk'.stats = risk.stats
        PROVE  StatsAddUp'
    BY <1>3, <2>2 DEF StatsAddUp
  <2>3. ASSUME NEW order \in CheckedOrder, Check(order)
        PROVE  StatsAddUp'
    <3>1. risk'.stats = Recorded(risk.stats, check(risk, order))
      BY <2>1, <2>3 DEF Check, Checker
    <3>2. check(risk, order) \in RejectReason
      BY CheckResult
    <3> QED BY <1>3, <2>1, <3>1, <3>2, RecordedAddsUp DEF StatsAddUp
  <2>4. ASSUME NEW i \in DOMAIN open, NEW price \in {p \in OrderPrices : p > 0},
               NEW quantity \in 1..open[i].quantity, OnFill(i, price, quantity)
        PROVE  risk'.stats = risk.stats
    BY <2>1, <2>4 DEF OnFill, on_fill, FillExposure, FillPosition, Checker
  <2>5. ASSUME ResetStats
        PROVE  StatsAddUp'
    <3>1. risk'.stats = NoStats
      BY <2>1, <2>5 DEF ResetStats, Checker
    <3> QED BY <1>1, <3>1 DEF StatsAddUp
  <2>6. ASSUME NEW i, Withdraw(i)
        PROVE  risk'.stats = risk.stats
    BY <2>6 DEF Withdraw
  <2>7. ASSUME EngageKillSwitch \/ DisengageKillSwitch \/ \E l \in LimitChoices : SetLimits(l)
        PROVE  risk'.stats = risk.stats
    BY <2>1, <2>7 DEF EngageKillSwitch, DisengageKillSwitch, SetLimits, Checker
  <2>8. ASSUME UNCHANGED riskVars
        PROVE  risk'.stats = risk.stats
    BY <2>8 DEF riskVars
  <2> QED BY <1>3, <2>2, <2>3, <2>4, <2>5, <2>6, <2>7, <2>8 DEF RiskNext
<1> QED
  BY <1>2, <1>3, RiskTypeCorrect, PTL DEF RiskSpec
=============================================================================
