---------------------------- MODULE EngineLemmas ----------------------------
(***************************************************************************)
(* What the steps of the matching engine do: to one book, for every book   *)
(* that satisfies BookInv, and to the engine, whose inductive invariant    *)
(* EngineInv every action keeps.                                           *)
(***************************************************************************)
EXTENDS MatchingEngine, ComponentLemmas

(***************************************************************************)
(* A book on which some of the live orders, inc, are still being matched,  *)
(* and the incoming order.                                                 *)
(***************************************************************************)

\* An order as it may rest on a book.
RestsWell(o) ==
    o.type = "Limit" /\ o.price \in 1..MaxPrice /\ o.remaining_qty \in 1..o.quantity

BookOK(b, inc) ==
    /\ BookInv(b)
    /\ \A i \in LiveIds(b) \ inc : RestsWell(OrderOf(b, i))
    /\ \A i, j \in LiveIds(b) \ inc :
          OrderOf(b, i).side = "Buy" /\ OrderOf(b, j).side = "Sell"
              => OrderOf(b, i).price < OrderOf(b, j).price

\* What IsValid and EffectivePrice guarantee of an accepted order.
IncomingOK(o) ==
    o.price =< MaxPrice /\ (o.type = "Limit" => o.price > 0) /\ o.remaining_qty =< o.quantity

\* The match loop is over: nothing is left to trade, or nothing to trade with.
Settled(b, id) ==
    \/ OrderOf(b, id).remaining_qty = 0
    \/ \A i \in LiveIds(b) \ {id} :
          OrderOf(b, i).side = Opposite(OrderOf(b, id).side)
              => ~Crosses(OrderOf(b, id), OrderOf(b, i))

\* A side with levels has a best one: the prices of resting orders are
\* between 1 and MaxPrice.
LEMMA BestLevelExists ==
  ASSUME NEW b, NEW inc, BookOK(b, inc), NEW side \in Side,
         \A i \in LiveIds(b) \cap inc : OrderOf(b, i).side # side,
         LevelPrices(b, side) # {}
  PROVE  /\ LevelPrices(b, side) \subseteq 1..MaxPrice
         /\ \E p \in LevelPrices(b, side) : IsBestLevel(b, side, p)
<1> DEFINE P == LevelPrices(b, side)
<1>1. ASSUME NEW p \in P
      PROVE  p \in 1..MaxPrice
  <2> DEFINE id == Deref(b, Node(b, side, p, 1)).id
  <2>1. id \in LiveIds(b) /\ OrderOf(b, id).side = side /\ OrderOf(b, id).price = p
    BY QueueFront DEF BookOK
  <2> HIDE DEF id
  <2>2. id \in LiveIds(b) \ inc
    BY <2>1
  <2> QED
    BY <2>1, <2>2 DEF BookOK, RestsWell
<1>2. MaxPrice \in Int
  BY EngineAssumption
<1> HIDE DEF P
<1>3. P \in SUBSET Nat /\ P \in SUBSET Int /\ P # {} /\ \A p \in P : p =< MaxPrice
  <2>1. \A p \in P : p \in Nat /\ p \in Int /\ p =< MaxPrice
    BY <1>1, <1>2
  <2>2. P # {}
    BY DEF P
  <2> QED BY Zenon, <2>1, <2>2
<1>4. CASE side = "Buy"
  <2>1. PICK x \in P : \A y \in P : y =< x
    BY Zenon, <1>2, <1>3, IntHasMax
  <2>2. \A y \in P : ~(y > x)
    BY <1>3, <2>1
  <2>3. IsBestLevel(b, side, x)
    BY <1>4, <2>2 DEF IsBestLevel, Better, P
  <2> QED BY <1>1, <2>3 DEF P
<1>5. CASE side = "Sell"
  <2>1. PICK x \in P : \A y \in P : x =< y
    BY <1>3, NatHasMin
  <2>2. \A y \in P : ~(y < x)
    BY <1>3, <2>1
  <2>3. IsBestLevel(b, side, x)
    BY <1>5, <2>2 DEF IsBestLevel, Better, P
  <2> QED BY <1>1, <2>3 DEF P
<1> QED
  BY <1>4, <1>5 DEF Side

-----------------------------------------------------------------------------
(***************************************************************************)
(* The match loop.                                                         *)
(***************************************************************************)

\* Taking a quantity off remaining_qty leaves the rest of an order as it is.
LEMMA FillOrder ==
  ASSUME NEW o \in Order, NEW q \in Nat, q =< o.remaining_qty
  PROVE  /\ Fill(o, q) \in Order
         /\ Fill(o, q).id = o.id /\ Fill(o, q).side = o.side
         /\ Fill(o, q).price = o.price /\ Fill(o, q).type = o.type
         /\ Fill(o, q).quantity = o.quantity
         /\ Fill(o, q).remaining_qty = o.remaining_qty - q
<1>1. o.remaining_qty \in Nat
  BY DEF Order
<1>2. o.remaining_qty - q \in Nat
  BY <1>1
<1> QED
  BY <1>2 DEF Fill, Order

\* Writing a status likewise.
LEMMA StatusOrder ==
  ASSUME NEW o \in Order, NEW status \in OrderStatus
  PROVE  LET w == [o EXCEPT !.status = status]
         IN  /\ w \in Order
             /\ w.id = o.id /\ w.side = o.side /\ w.price = o.price
             /\ w.type = o.type /\ w.quantity = o.quantity
             /\ w.remaining_qty = o.remaining_qty
  BY DEF Order

\* execute_match never takes more than either order has left.
LEMMA FillQtyBounds ==
  ASSUME NEW x \in Order, NEW y \in Order
  PROVE  /\ FillQty(x, y) \in Nat
         /\ FillQty(x, y) =< x.remaining_qty
         /\ FillQty(x, y) =< y.remaining_qty
         /\ x.remaining_qty \in Nat /\ y.remaining_qty \in Nat
<1>1. x.remaining_qty \in Nat /\ y.remaining_qty \in Nat
  BY DEF Order
<1> QED
  BY <1>1 DEF FillQty

\* One iteration of the match loop on the live orders id and r: both lose the
\* fill, a filled r leaves the book and nothing else moves.
LEMMA MatchLive ==
  ASSUME NEW b, BookInv(b), NEW id \in LiveIds(b), NEW r \in LiveIds(b), id # r
  PROVE  LET x == OrderOf(b, id)
             y == OrderOf(b, r)
             q == FillQty(x, y)
             c == RemoveIfFilled(execute_match(b, PtrOf(b, id), PtrOf(b, r)), PtrOf(b, r))
         IN  /\ BookInv(c)
             /\ c.next_order_id = b.next_order_id
             /\ LiveIds(c) = IF y.remaining_qty - q = 0 THEN LiveIds(b) \ {r} ELSE LiveIds(b)
             /\ \A i \in LiveIds(c) : PtrOf(c, i) = PtrOf(b, i)
             /\ \A i \in LiveIds(c) : OrderOf(c, i) = IF i = id THEN Fill(x, q)
                                                      ELSE IF i = r THEN Fill(y, q)
                                                      ELSE OrderOf(b, i)
<1> DEFINE x == OrderOf(b, id)
           y == OrderOf(b, r)
           q == FillQty(x, y)
           b1 == WriteOrder(b, PtrOf(b, id), Fill(x, q))
           b2 == WriteOrder(b1, PtrOf(b, r), Fill(y, q))
           c == RemoveIfFilled(execute_match(b, PtrOf(b, id), PtrOf(b, r)), PtrOf(b, r))
<1>1. x \in Order /\ y \in Order
  BY LiveOrder
<1>2. q \in Nat /\ q =< x.remaining_qty /\ q =< y.remaining_qty
  BY <1>1, FillQtyBounds
<1>3. /\ Fill(x, q) \in Order
      /\ Fill(x, q).id = x.id /\ Fill(x, q).side = x.side /\ Fill(x, q).price = x.price
  BY <1>1, <1>2, FillOrder
<1>4. /\ Fill(y, q) \in Order
      /\ Fill(y, q).id = y.id /\ Fill(y, q).side = y.side /\ Fill(y, q).price = y.price
      /\ Fill(y, q).remaining_qty = y.remaining_qty - q
  BY <1>1, <1>2, FillOrder
<1>5. /\ BookInv(b1) /\ b1.next_order_id = b.next_order_id
      /\ LiveIds(b1) = LiveIds(b)
      /\ \A i \in LiveIds(b) : /\ PtrOf(b1, i) = PtrOf(b, i)
                              /\ OrderOf(b1, i) = IF i = id THEN Fill(x, q) ELSE OrderOf(b, i)
  <2> HIDE DEF q
  <2> QED BY <1>3, WriteLive
<1>6. execute_match(b, PtrOf(b, id), PtrOf(b, r)) = b2
  <2>1. Deref(b1, PtrOf(b, r)) = y
    BY <1>5 DEF OrderOf
  <2> QED
    BY <2>1 DEF execute_match, OrderOf
<1> HIDE DEF x, y, q, b1
<1>7. OrderOf(b1, r) = y /\ PtrOf(b1, r) = PtrOf(b, r) /\ r \in LiveIds(b1)
  BY <1>5 DEF y
<1>8. /\ BookInv(b2) /\ b2.next_order_id = b.next_order_id
      /\ LiveIds(b2) = LiveIds(b)
      /\ \A i \in LiveIds(b) : /\ PtrOf(b2, i) = PtrOf(b, i)
                              /\ OrderOf(b2, i) = IF i = r THEN Fill(y, q) ELSE OrderOf(b1, i)
  BY <1>4, <1>5, <1>7, WriteLive
<1> HIDE DEF b2
<1>9. Deref(b2, PtrOf(b, r)) = Fill(y, q) /\ PtrOf(b2, r) = PtrOf(b, r) /\ OrderOf(b2, r) = Fill(y, q)
  BY <1>8 DEF OrderOf
<1>10. CASE y.remaining_qty - q = 0
  <2> DEFINE f == [Fill(y, q) EXCEPT !.status = "Filled"]
             b3 == WriteOrder(b2, PtrOf(b, r), f)
  <2>1. f \in Order /\ f.id = Fill(y, q).id /\ f.side = Fill(y, q).side /\ f.price = Fill(y, q).price
    <3>1. "Filled" \in OrderStatus
      BY DEF OrderStatus
    <3> QED BY <1>4, <3>1, StatusOrder
  <2>2. /\ BookInv(b3) /\ b3.next_order_id = b.next_order_id
        /\ LiveIds(b3) = LiveIds(b)
        /\ \A i \in LiveIds(b) : /\ PtrOf(b3, i) = PtrOf(b, i)
                                /\ OrderOf(b3, i) = IF i = r THEN f ELSE OrderOf(b2, i)
    <3> HIDE DEF f
    <3> QED BY <2>1, <1>8, <1>9, WriteLive
  <2>3. c = remove_order(b3, PtrOf(b, r))
    BY SMTT(30), <1>4, <1>6, <1>9, <1>10 DEF RemoveIfFilled, is_filled
  <2> HIDE DEF f, b3, c
  <2>4. c = Unlink(b3, r, PtrOf(b3, r))
    BY <2>2, <2>3, RemoveLive
  <2>5. /\ BookInv(c) /\ c.next_order_id = b.next_order_id
        /\ LiveIds(c) = LiveIds(b) \ {r}
        /\ \A i \in LiveIds(c) : PtrOf(c, i) = PtrOf(b3, i) /\ OrderOf(c, i) = OrderOf(b3, i)
    BY <2>2, <2>4, UnlinkLive
  <2>6. \A i \in LiveIds(c) : /\ PtrOf(c, i) = PtrOf(b, i)
                              /\ OrderOf(c, i) = IF i = id THEN Fill(x, q)
                                                 ELSE IF i = r THEN Fill(y, q)
                                                 ELSE OrderOf(b, i)
    BY SMTT(30), <2>2, <2>5, <1>5, <1>8
  <2> QED
    BY <1>10, <2>5, <2>6 DEF c, x, y, q
<1>11. CASE ~(y.remaining_qty - q = 0)
  <2>1. c = b2
    BY SMTT(30), <1>4, <1>6, <1>9, <1>11 DEF RemoveIfFilled, is_filled
  <2> HIDE DEF c
  <2>2. \A i \in LiveIds(c) : /\ PtrOf(c, i) = PtrOf(b, i)
                              /\ OrderOf(c, i) = IF i = id THEN Fill(x, q)
                                                 ELSE IF i = r THEN Fill(y, q)
                                                 ELSE OrderOf(b, i)
    BY <2>1, <1>5, <1>8
  <2> QED
    BY <1>8, <1>11, <2>1, <2>2 DEF c, x, y, q
<1> QED
  BY <1>10, <1>11

\* A book whose resting orders are among those of b, at the same side, price
\* and type and not yet filled, is as good as b.
LEMMA BookOKFrom ==
  ASSUME NEW b, NEW inc, BookOK(b, inc), NEW c, NEW out, BookInv(c),
         \A i \in LiveIds(c) \ out :
            /\ i \in LiveIds(b) \ inc
            /\ OrderOf(c, i).side = OrderOf(b, i).side
            /\ OrderOf(c, i).price = OrderOf(b, i).price
            /\ OrderOf(c, i).type = OrderOf(b, i).type
            /\ OrderOf(c, i).remaining_qty \in 1..OrderOf(c, i).quantity
  PROVE  BookOK(c, out)
<1>1. \A i \in LiveIds(c) \ out : RestsWell(OrderOf(c, i))
  BY DEF BookOK, RestsWell
<1>2. ASSUME NEW i \in LiveIds(c) \ out, NEW j \in LiveIds(c) \ out,
             OrderOf(c, i).side = "Buy", OrderOf(c, j).side = "Sell"
      PROVE  OrderOf(c, i).price < OrderOf(c, j).price
  <2>1. i \in LiveIds(b) \ inc /\ j \in LiveIds(b) \ inc
        /\ OrderOf(b, i).side = "Buy" /\ OrderOf(b, j).side = "Sell"
    BY <1>2
  <2>2. OrderOf(b, i).price < OrderOf(b, j).price
    BY <2>1 DEF BookOK
  <2> QED BY <2>2
<1> QED
  BY <1>1, <1>2 DEF BookOK

\* An iteration of the match loop: the rest of the book stays as good, and the
\* incoming order stays at its pointer.
LEMMA MatchKeepsOK ==
  ASSUME NEW b, NEW id \in LiveIds(b), BookOK(b, {id}), IncomingOK(OrderOf(b, id)),
         NEW r \in LiveIds(b) \ {id}
  PROVE  LET c == RemoveIfFilled(execute_match(b, PtrOf(b, id), PtrOf(b, r)), PtrOf(b, r))
         IN  /\ id \in LiveIds(c)
             /\ PtrOf(c, id) = PtrOf(b, id)
             /\ BookOK(c, {id})
             /\ IncomingOK(OrderOf(c, id))
<1> DEFINE x == OrderOf(b, id)
           y == OrderOf(b, r)
           q == FillQty(x, y)
           c == RemoveIfFilled(execute_match(b, PtrOf(b, id), PtrOf(b, r)), PtrOf(b, r))
<1>1. BookInv(b)
  BY DEF BookOK
<1>2. x \in Order /\ y \in Order
  BY <1>1, LiveOrder
<1>3. q \in Nat /\ q =< x.remaining_qty /\ q =< y.remaining_qty
      /\ x.remaining_qty \in Nat /\ y.remaining_qty \in Nat
  BY <1>2, FillQtyBounds
<1>4. /\ BookInv(c)
      /\ LiveIds(c) = IF y.remaining_qty - q = 0 THEN LiveIds(b) \ {r} ELSE LiveIds(b)
      /\ \A i \in LiveIds(c) : PtrOf(c, i) = PtrOf(b, i)
      /\ \A i \in LiveIds(c) : OrderOf(c, i) = IF i = id THEN Fill(x, q)
                                               ELSE IF i = r THEN Fill(y, q)
                                               ELSE OrderOf(b, i)
  BY <1>1, MatchLive
<1>5. /\ Fill(x, q).price = x.price /\ Fill(x, q).type = x.type
      /\ Fill(x, q).quantity = x.quantity
      /\ Fill(x, q).remaining_qty = x.remaining_qty - q
  BY <1>2, <1>3, FillOrder
<1>6. /\ Fill(y, q).side = y.side /\ Fill(y, q).price = y.price /\ Fill(y, q).type = y.type
      /\ Fill(y, q).quantity = y.quantity
      /\ Fill(y, q).remaining_qty = y.remaining_qty - q
  BY <1>2, <1>3, FillOrder
<1> HIDE DEF c, q
<1>7. id \in LiveIds(c)
  BY <1>4
<1>8. IncomingOK(OrderOf(c, id))
  <2>1. x.quantity \in Nat /\ x.remaining_qty - q =< x.quantity
    BY <1>2, <1>3 DEF IncomingOK, Order
  <2>2. OrderOf(c, id) = Fill(x, q)
    BY <1>4, <1>7
  <2> QED BY <1>5, <2>1, <2>2 DEF IncomingOK
<1>9. ASSUME NEW i \in LiveIds(c) \ {id}
      PROVE  /\ i \in LiveIds(b) \ {id}
             /\ OrderOf(c, i).side = OrderOf(b, i).side
             /\ OrderOf(c, i).price = OrderOf(b, i).price
             /\ OrderOf(c, i).type = OrderOf(b, i).type
             /\ OrderOf(c, i).remaining_qty \in 1..OrderOf(c, i).quantity
  <2>1. i \in LiveIds(b) \ {id} /\ RestsWell(OrderOf(b, i))
    BY <1>4 DEF BookOK
  <2>2. CASE i = r
    <3>1. OrderOf(c, i) = Fill(y, q) /\ y.remaining_qty - q # 0
      BY <1>4, <2>2
    <3>2. y.remaining_qty - q \in 1..y.quantity
      <4>1. y.remaining_qty \in 1..y.quantity /\ y.quantity \in Nat
        BY <1>2, <2>1, <2>2 DEF RestsWell, Order
      <4> QED BY <4>1, <1>3, <3>1
    <3> QED BY SMTT(30), <1>6, <2>1, <2>2, <3>1, <3>2
  <2>3. CASE i # r
    BY <1>4, <2>1, <2>3 DEF RestsWell
  <2> QED BY <2>2, <2>3
<1>10. BookOK(c, {id})
  BY <1>4, <1>9, BookOKFrom
<1> QED
  BY SMTT(30), <1>4, <1>7, <1>8, <1>10 DEF c

\* When the loop finds nothing to match at the front of the best opposite
\* level, no resting order crosses the incoming one.
LEMMA DoneMeansSettled ==
  ASSUME NEW b, NEW id \in LiveIds(b), BookOK(b, {id}), IncomingOK(OrderOf(b, id)),
         ~\E resting \in Slots(b) : CanMatch(b, OrderOf(b, id), resting)
  PROVE  Settled(b, id)
<1> DEFINE x == OrderOf(b, id)
           side == Opposite(x.side)
<1>1. BookInv(b)
  BY DEF BookOK
<1>2. x \in Order
  BY <1>1, LiveOrder
<1>3. /\ x.remaining_qty \in Nat /\ x.price \in Int
      /\ x.side \in Side /\ side \in Side /\ x.side # side
  BY <1>2 DEF Order, Side, Opposite
<1> HIDE DEF x, side
<1>4. SUFFICES ASSUME x.remaining_qty > 0, NEW j \in LiveIds(b) \ {id},
                      OrderOf(b, j).side = side, Crosses(x, OrderOf(b, j))
               PROVE  FALSE
  BY <1>3 DEF Settled, x, side
<1>5. OrderOf(b, j).price \in LevelPrices(b, side)
  <2>1. SideOf(b, j) = side /\ PriceOf(b, j) = OrderOf(b, j).price
    BY <1>1, <1>4, LiveSlots DEF OrderOf
  <2> QED
    BY <1>1, <2>1 DEF BookInv, IndexedIsQueued
<1>6. /\ LevelPrices(b, side) \subseteq 1..MaxPrice
      /\ \E p \in LevelPrices(b, side) : IsBestLevel(b, side, p)
  BY <1>3, <1>5, BestLevelExists DEF x
<1>7. PICK p \in LevelPrices(b, side) : IsBestLevel(b, side, p)
  BY <1>6
<1> DEFINE ptr == Node(b, side, p, 1)
<1>8. /\ Depth(b, side, p) > 0
      /\ ptr \in Slots(b)
      /\ Deref(b, ptr).price = p
  BY <1>1, <1>3, QueueFront DEF OrderOf
<1>9. Crosses(x, Deref(b, ptr))
  <2>1. p \in Int /\ OrderOf(b, j).price \in Int
    BY <1>5, <1>6
  <2>2. ~Better(side, OrderOf(b, j).price, p)
    BY <1>5, <1>7 DEF IsBestLevel
  <2> HIDE DEF ptr
  <2>3. CASE x.side = "Buy"
    <3>1. side = "Sell"
      BY <2>3 DEF side, Opposite
    <3> QED BY SMTT(30), <1>3, <1>4, <1>8, <2>1, <2>2, <2>3, <3>1 DEF Crosses, Better
  <2>4. CASE x.side = "Sell"
    <3>1. side = "Buy"
      BY <2>4 DEF side, Opposite
    <3> QED BY SMTT(30), <1>3, <1>4, <1>8, <2>1, <2>2, <2>4, <3>1 DEF Crosses, Better
  <2> QED BY <1>3, <2>3, <2>4 DEF Side
<1>10. CanMatch(b, x, ptr)
  BY SMTT(30), <1>4, <1>7, <1>8, <1>9 DEF CanMatch, side
<1> QED
  BY <1>8, <1>10 DEF x

\* A write of the incoming order's status, as match_order and the post-match
\* handling make it.
LEMMA StatusKeepsOK ==
  ASSUME NEW b, NEW id \in LiveIds(b), BookOK(b, {id}), NEW status \in OrderStatus
  PROVE  LET x == OrderOf(b, id)
             c == WriteOrder(b, PtrOf(b, id), [x EXCEPT !.status = status])
         IN  /\ LiveIds(c) = LiveIds(b)
             /\ PtrOf(c, id) = PtrOf(b, id)
             /\ BookOK(c, {id})
             /\ IncomingOK(x) => IncomingOK(OrderOf(c, id))
             /\ Settled(b, id) => Settled(c, id)
<1> DEFINE x == OrderOf(b, id)
           w == [x EXCEPT !.status = status]
           c == WriteOrder(b, PtrOf(b, id), w)
<1>1. BookInv(b)
  BY DEF BookOK
<1>2. x \in Order
  BY <1>1, LiveOrder
<1>3. /\ w \in Order
      /\ w.id = x.id /\ w.side = x.side /\ w.price = x.price
      /\ w.type = x.type /\ w.quantity = x.quantity
      /\ w.remaining_qty = x.remaining_qty
  BY <1>2, StatusOrder
<1> HIDE DEF w
<1>4. /\ BookInv(c)
      /\ LiveIds(c) = LiveIds(b)
      /\ \A i \in LiveIds(b) : /\ PtrOf(c, i) = PtrOf(b, i)
                              /\ OrderOf(c, i) = IF i = id THEN w ELSE OrderOf(b, i)
  BY <1>1, <1>3, WriteLive
<1> HIDE DEF c
<1>5. OrderOf(c, id) = w /\ PtrOf(c, id) = PtrOf(b, id)
  BY <1>4
<1>6. \A i \in LiveIds(b) \ {id} : OrderOf(c, i) = OrderOf(b, i)
  BY <1>4
<1>7. BookOK(c, {id})
  BY <1>4, <1>6, BookOKFrom DEF BookOK, RestsWell
<1>8. IncomingOK(x) => IncomingOK(OrderOf(c, id))
  BY <1>3, <1>5 DEF IncomingOK
<1>9. Settled(b, id) => Settled(c, id)
  BY SMTT(30), <1>3, <1>4, <1>5, <1>6 DEF Settled, Crosses
<1> QED
  BY SMTT(30), <1>4, <1>5, <1>7, <1>8, <1>9 DEF c, w

\* Taking a live order off a book.
LEMMA UnlinkKeepsOK ==
  ASSUME NEW b, NEW inc, BookOK(b, inc), NEW id \in LiveIds(b)
  PROVE  BookOK(Unlink(b, id, PtrOf(b, id)), inc \ {id})
<1> DEFINE c == Unlink(b, id, PtrOf(b, id))
<1>1. /\ BookInv(c)
      /\ LiveIds(c) = LiveIds(b) \ {id}
      /\ \A i \in LiveIds(c) : OrderOf(c, i) = OrderOf(b, i)
  BY UnlinkLive DEF BookOK
<1> HIDE DEF c
<1>2. ASSUME NEW i \in LiveIds(c) \ (inc \ {id})
      PROVE  i \in LiveIds(b) \ inc /\ OrderOf(c, i) = OrderOf(b, i)
             /\ RestsWell(OrderOf(b, i))
  BY <1>1 DEF BookOK
<1> QED
  BY <1>1, <1>2, BookOKFrom DEF RestsWell, c

\* The end of submit_order: the incoming order is off the book, or it is a
\* limit remainder that may rest.
LEMMA FinishKeepsOK ==
  ASSUME NEW b, NEW id \in LiveIds(b), BookOK(b, {id}), IncomingOK(OrderOf(b, id)),
         Settled(b, id)
  PROVE  BookOK(AfterMatch(b, PtrOf(b, id)), {})
<1> DEFINE x == OrderOf(b, id)
           status == IF filled_qty(x) > 0 THEN "PartiallyFilled" ELSE "Cancelled"
           w == WriteOrder(b, PtrOf(b, id), [x EXCEPT !.status = status])
           c == AfterMatch(b, PtrOf(b, id))
<1>1. BookInv(b)
  BY DEF BookOK
<1>2. x \in Order
  BY <1>1, LiveOrder
<1>3. /\ x.remaining_qty \in Nat /\ x.quantity \in Nat /\ x.price \in Int
      /\ x.side \in Side /\ x.type \in OrderType
  BY <1>2 DEF Order
<1>4. {id} \ {id} = {}
  OBVIOUS
<1>5. CASE is_filled(x)
  <2>1. c = remove_order(b, PtrOf(b, id))
    BY <1>5 DEF AfterMatch, OrderOf
  <2> QED
    BY SMTT(30), <1>1, <1>4, <2>1, RemoveLive, UnlinkKeepsOK
<1>6. CASE ~is_filled(x) /\ x.type \in {"Market", "IOC"}
  <2>1. c = remove_order(w, PtrOf(b, id))
    BY <1>6 DEF AfterMatch, OrderOf
  <2>2. status \in OrderStatus
    BY DEF OrderStatus
  <2> HIDE DEF status
  <2>3. LiveIds(w) = LiveIds(b) /\ PtrOf(w, id) = PtrOf(b, id) /\ BookOK(w, {id})
    BY <2>2, StatusKeepsOK
  <2> HIDE DEF w, c
  <2>4. BookInv(w) /\ id \in LiveIds(w)
    BY <2>3 DEF BookOK
  <2>5. c = Unlink(w, id, PtrOf(w, id))
    BY SMTT(30), <2>1, <2>3, <2>4, RemoveLive
  <2>6. BookOK(c, {})
    BY SMTT(30), <1>4, <2>3, <2>4, <2>5, UnlinkKeepsOK
  <2> QED BY <2>6 DEF c
<1>7. CASE ~is_filled(x) /\ x.type = "Limit"
  <2>1. c = b
    BY <1>7 DEF AfterMatch, OrderOf
  <2> HIDE DEF c
  <2>2. RestsWell(x)
    BY <1>3, <1>7, EngineAssumption DEF RestsWell, IncomingOK, is_filled
  <2>3. \A i \in LiveIds(b) : RestsWell(OrderOf(b, i))
    BY <2>2 DEF BookOK
  <2>4. \A i \in LiveIds(b) \ {id} :
           OrderOf(b, i).side = Opposite(x.side) => ~Crosses(x, OrderOf(b, i))
    BY <1>7 DEF Settled, is_filled
  <2>5. ASSUME NEW i \in LiveIds(b), NEW j \in LiveIds(b),
               OrderOf(b, i).side = "Buy", OrderOf(b, j).side = "Sell"
        PROVE  OrderOf(b, i).price < OrderOf(b, j).price
    <3>1. OrderOf(b, i).price \in Int /\ OrderOf(b, j).price \in Int
      BY <2>3 DEF RestsWell
    <3>2. CASE i = id
      <4>1. j \in LiveIds(b) \ {id} /\ x.side = "Buy" /\ ~Crosses(x, OrderOf(b, j))
        BY <2>4, <2>5, <3>2 DEF Opposite
      <4> QED BY <3>1, <3>2, <4>1 DEF Crosses
    <3>3. CASE j = id
      <4>1. i \in LiveIds(b) \ {id} /\ x.side = "Sell" /\ ~Crosses(x, OrderOf(b, i))
        BY <2>4, <2>5, <3>3 DEF Opposite
      <4> QED BY <3>1, <3>3, <4>1 DEF Crosses
    <3>4. CASE i # id /\ j # id
      BY <2>5, <3>4 DEF BookOK
    <3> QED BY <3>2, <3>3, <3>4
  <2> QED BY SMTT(30), <1>1, <2>1, <2>3, <2>5 DEF BookOK, c
<1> QED
  BY SMTT(30), <1>3, <1>5, <1>6, <1>7 DEF OrderType

\* cancel_order between calls.
LEMMA CancelKeepsOK ==
  ASSUME NEW b, BookOK(b, {}), NEW id \in LiveIds(b)
  PROVE  BookOK(cancel_order(b, id), {})
<1> DEFINE x == OrderOf(b, id)
           w == WriteOrder(b, PtrOf(b, id), [x EXCEPT !.status = "Cancelled"])
           c == cancel_order(b, id)
<1>1. BookInv(b)
  BY DEF BookOK
<1>2. BookOK(b, {id})
  BY <1>1, BookOKFrom DEF BookOK, RestsWell
<1>3. "Cancelled" \in OrderStatus
  BY DEF OrderStatus
<1>4. LiveIds(w) = LiveIds(b) /\ PtrOf(w, id) = PtrOf(b, id) /\ BookOK(w, {id})
  BY <1>2, <1>3, StatusKeepsOK
<1>5. c = Unlink(w, id, PtrOf(b, id))
  BY DEF cancel_order
<1> HIDE DEF w, c
<1>6. BookOK(c, {id} \ {id})
  BY <1>4, <1>5, UnlinkKeepsOK
<1>7. {id} \ {id} = {}
  OBVIOUS
<1> QED
  BY <1>6, <1>7 DEF c

\* A book just created.
LEMMA NewBookOK == BookOK(NewBook, {})
<1>1. LiveIds(NewBook) = {}
  BY DEF NewBook, LiveIds
<1> QED
  BY <1>1, NewBookInv DEF BookOK

\* An order that passed the validation, on the book.
LEMMA AcceptKeepsOK ==
  ASSUME NEW b, BookOK(b, {}), NEW side \in Side, NEW type \in OrderType,
         NEW price \in Prices, NEW quantity \in Quantities, IsValid(type, price, quantity)
  PROVE  LET c  == add_order(b, side, type, EffectivePrice(side, type, price), quantity)
             id == b.next_order_id
         IN  /\ id \in LiveIds(c)
             /\ PtrOf(c, id) = acquired(b.pool)
             /\ BookOK(c, {id})
             /\ IncomingOK(OrderOf(c, id))
<1> DEFINE p  == EffectivePrice(side, type, price)
           c  == add_order(b, side, type, p, quantity)
           id == b.next_order_id
<1>1. price \in Int /\ price =< MaxPrice /\ quantity \in Nat /\ MaxPrice \in Int /\ 0 < MaxPrice
  BY EngineAssumption
<1>2. p \in Int /\ p =< MaxPrice /\ (type = "Limit" => p > 0)
  BY <1>1 DEF EffectivePrice, IsValid, Side
<1>3. BookInv(b)
  BY DEF BookOK
<1> HIDE DEF p
<1>4. /\ BookInv(c)
      /\ id \notin LiveIds(b)
      /\ LiveIds(c) = LiveIds(b) \cup {id}
      /\ PtrOf(c, id) = acquired(b.pool)
      /\ OrderOf(c, id) = NewOrder(id, side, type, p, quantity)
      /\ \A i \in LiveIds(b) : OrderOf(c, i) = OrderOf(b, i)
  BY SMTT(30), <1>1, <1>2, <1>3, AddLive
<1> HIDE DEF c, id
<1>5. IncomingOK(OrderOf(c, id))
  BY <1>1, <1>2, <1>4 DEF IncomingOK, NewOrder
<1>6. ASSUME NEW i \in LiveIds(c) \ {id}
      PROVE  i \in LiveIds(b) \ {} /\ OrderOf(c, i) = OrderOf(b, i) /\ RestsWell(OrderOf(b, i))
  BY <1>4 DEF BookOK
<1>7. BookOK(c, {id})
  BY <1>4, <1>6, BookOKFrom DEF RestsWell
<1> QED
  BY <1>4, <1>5, <1>7 DEF c, id, p

-----------------------------------------------------------------------------
(***************************************************************************)
(* What the end of a call and a cancel do to the live orders of a book.    *)
(***************************************************************************)

\* The end of submit_order: the order stays if it is a limit remainder, and
\* nothing else changes.
LEMMA FinishLive ==
  ASSUME NEW b, BookInv(b), NEW id \in LiveIds(b)
  PROVE  LET x == OrderOf(b, id)
             c == AfterMatch(b, PtrOf(b, id))
             rests == ~is_filled(x) /\ x.type = "Limit"
         IN  /\ LiveIds(c) = IF rests THEN LiveIds(b) ELSE LiveIds(b) \ {id}
             /\ \A i \in LiveIds(c) : OrderOf(c, i) = OrderOf(b, i)
             /\ c.next_order_id = b.next_order_id
<1> DEFINE x == OrderOf(b, id)
           status == IF filled_qty(x) > 0 THEN "PartiallyFilled" ELSE "Cancelled"
           f == [x EXCEPT !.status = status]
           w == WriteOrder(b, PtrOf(b, id), f)
           c == AfterMatch(b, PtrOf(b, id))
<1>1. x \in Order
  BY LiveOrder
<1>2. x.type \in OrderType
  BY <1>1 DEF Order
<1>3. CASE is_filled(x)
  <2>1. c = Unlink(b, id, PtrOf(b, id))
    BY <1>3, RemoveLive DEF AfterMatch, OrderOf
  <2> HIDE DEF x, c
  <2>2. LiveIds(c) = LiveIds(b) \ {id} /\ c.next_order_id = b.next_order_id
        /\ \A i \in LiveIds(c) : OrderOf(c, i) = OrderOf(b, i)
    BY <2>1, UnlinkLive
  <2> QED BY <1>3, <2>2 DEF c, x
<1>4. CASE ~is_filled(x) /\ x.type \in {"Market", "IOC"}
  <2>1. c = remove_order(w, PtrOf(b, id))
    BY <1>4 DEF AfterMatch, OrderOf
  <2>2. status \in OrderStatus
    BY DEF OrderStatus
  <2> HIDE DEF status
  <2>3. f \in Order /\ f.id = x.id /\ f.side = x.side /\ f.price = x.price
    BY <1>1, <2>2, StatusOrder
  <2> HIDE DEF f
  <2>4. /\ BookInv(w) /\ LiveIds(w) = LiveIds(b) /\ w.next_order_id = b.next_order_id
        /\ \A i \in LiveIds(b) : /\ PtrOf(w, i) = PtrOf(b, i)
                                 /\ OrderOf(w, i) = IF i = id THEN f ELSE OrderOf(b, i)
    BY <2>3, WriteLive
  <2> HIDE DEF w, c
  <2>5. c = Unlink(w, id, PtrOf(w, id))
    BY <2>1, <2>4, RemoveLive
  <2>6. LiveIds(c) = LiveIds(w) \ {id} /\ c.next_order_id = w.next_order_id
        /\ \A i \in LiveIds(c) : OrderOf(c, i) = OrderOf(w, i)
    BY <2>4, <2>5, UnlinkLive
  <2>7. LiveIds(c) = LiveIds(b) \ {id} /\ c.next_order_id = b.next_order_id
        /\ \A i \in LiveIds(c) : OrderOf(c, i) = OrderOf(b, i)
    BY <2>4, <2>6
  <2> QED BY <1>4, <2>7 DEF c
<1>5. CASE ~is_filled(x) /\ x.type = "Limit"
  <2>1. c = b
    BY <1>5 DEF AfterMatch, OrderOf
  <2> QED BY <1>5, <2>1
<1> QED
  BY <1>2, <1>3, <1>4, <1>5 DEF OrderType

\* cancel_order takes one order off the book.
LEMMA CancelLive ==
  ASSUME NEW b, BookInv(b), NEW id \in LiveIds(b)
  PROVE  LET c == cancel_order(b, id)
         IN  /\ LiveIds(c) = LiveIds(b) \ {id}
             /\ \A i \in LiveIds(c) : OrderOf(c, i) = OrderOf(b, i)
             /\ c.next_order_id = b.next_order_id
<1> DEFINE x == OrderOf(b, id)
           f == [x EXCEPT !.status = "Cancelled"]
           w == WriteOrder(b, PtrOf(b, id), f)
           c == cancel_order(b, id)
<1>1. x \in Order /\ "Cancelled" \in OrderStatus
  BY LiveOrder DEF OrderStatus
<1>2. f \in Order /\ f.id = x.id /\ f.side = x.side /\ f.price = x.price
  BY <1>1, StatusOrder
<1>3. c = Unlink(w, id, PtrOf(b, id))
  BY DEF cancel_order
<1> HIDE DEF f, c
<1>4. /\ BookInv(w) /\ LiveIds(w) = LiveIds(b) /\ w.next_order_id = b.next_order_id
      /\ \A i \in LiveIds(b) : /\ PtrOf(w, i) = PtrOf(b, i)
                               /\ OrderOf(w, i) = IF i = id THEN f ELSE OrderOf(b, i)
  BY <1>2, WriteLive
<1> HIDE DEF w
<1>5. LiveIds(c) = LiveIds(w) \ {id} /\ c.next_order_id = w.next_order_id
      /\ \A i \in LiveIds(c) : OrderOf(c, i) = OrderOf(w, i)
  BY <1>3, <1>4, UnlinkLive
<1> QED
  BY <1>4, <1>5 DEF c

-----------------------------------------------------------------------------
(***************************************************************************)
(* The inductive invariant, and that each action keeps it.                 *)
(***************************************************************************)

\* A book that no call is working on is good as it is; the call in progress
\* holds the pointer of a live order, the rest of its book is good, and once
\* the match loop is over nothing on the book crosses the order.
CallOK(symbol) ==
    LET b == books[symbol]
    IN  \E id \in LiveIds(b) : /\ PtrOf(b, id) = op.order
                               /\ BookOK(b, {id})
                               /\ IncomingOK(OrderOf(b, id))
                               /\ op.phase = "report" => Settled(b, id)

EngineInv ==
    /\ TypeOK
    /\ \A symbol \in DOMAIN books :
          op = NoOp \/ symbol # op.symbol => BookOK(books[symbol], {})
    /\ op # NoOp => CallOK(op.symbol)

OpRecord == [phase : Phases, symbol : Symbols, order : Nat, trades : Seq(Trade)]

\* The call goes on, and its order stays where the call finds it.
SameIncoming ==
    /\ op # NoOp /\ op' # NoOp /\ op'.symbol = op.symbol
    /\ \A id \in LiveIds(books[op.symbol]) :
          PtrOf(books[op.symbol], id) = op.order =>
             /\ id \in LiveIds(books'[op.symbol])
             /\ PtrOf(books'[op.symbol], id) = op'.order

\* No call in progress has the phase of NoOp.
LEMMA BusyOp ==
  ASSUME NEW o \in OpRecord
  PROVE  o # NoOp /\ o.phase \in Phases /\ o.symbol \in Symbols
         /\ o.order \in Nat /\ o.trades \in Seq(Trade)
<1>1. o.phase \in Phases /\ o.symbol \in Symbols /\ o.order \in Nat /\ o.trades \in Seq(Trade)
  BY DEF OpRecord
<1>2. NoOp.phase \notin Phases
  BY DEF NoOp, Phases
<1> QED
  BY <1>1, <1>2

\* A step that leaves the mutex free.
LEMMA IdleAfter ==
  ASSUME op' = NoOp, DOMAIN books' \subseteq Symbols, stats' \in EngineStats,
         \A symbol \in DOMAIN books' : BookOK(books'[symbol], {})
  PROVE  EngineInv'
<1>1. \A symbol \in DOMAIN books' : BookTypeOK(books'[symbol])
  BY DEF BookOK, BookInv
<1> QED
  BY <1>1 DEF EngineInv, TypeOK

\* A step that leaves a call in progress.
LEMMA BusyAfter ==
  ASSUME op' \in OpRecord, op'.symbol \in DOMAIN books', DOMAIN books' \subseteq Symbols,
         stats' \in EngineStats,
         \A symbol \in DOMAIN books' : symbol # op'.symbol => BookOK(books'[symbol], {}),
         NEW id \in LiveIds(books'[op'.symbol]),
         PtrOf(books'[op'.symbol], id) = op'.order,
         BookOK(books'[op'.symbol], {id}),
         IncomingOK(OrderOf(books'[op'.symbol], id)),
         op'.phase = "report" => Settled(books'[op'.symbol], id)
  PROVE  EngineInv'
<1>1. \A symbol \in DOMAIN books' : BookTypeOK(books'[symbol])
  BY DEF BookOK, BookInv
<1>2. TypeOK'
  BY <1>1 DEF TypeOK, OpRecord
<1>3. op' # NoOp
  BY BusyOp
<1>4. CallOK(op.symbol)'
  BY Zenon DEF CallOK
<1> QED
  BY SMTT(30), <1>2, <1>3, <1>4 DEF EngineInv

\* What the invariant says of a call in progress.
LEMMA InCall ==
  ASSUME EngineInv, op # NoOp
  PROVE  /\ op \in OpRecord
         /\ op.symbol \in DOMAIN books
         /\ DOMAIN books \subseteq Symbols
         /\ stats \in EngineStats
         /\ \A symbol \in DOMAIN books : symbol # op.symbol => BookOK(books[symbol], {})
         /\ \E id \in LiveIds(books[op.symbol]) :
               /\ PtrOf(books[op.symbol], id) = op.order
               /\ BookOK(books[op.symbol], {id})
               /\ IncomingOK(OrderOf(books[op.symbol], id))
               /\ op.phase = "report" => Settled(books[op.symbol], id)
  BY Zenon DEF EngineInv, TypeOK, CallOK, OpRecord

\* try_emplace: a book is created or left as it is.
LEMMA OpenedBooks ==
  ASSUME EngineInv, op = NoOp, NEW symbol \in Symbols
  PROVE  LET opened == get_order_book(symbol)
         IN  /\ DOMAIN opened = DOMAIN books \cup {symbol}
             /\ DOMAIN opened \subseteq Symbols
             /\ \A s \in DOMAIN opened : BookOK(opened[s], {})
<1>1. DOMAIN books \subseteq Symbols /\ \A s \in DOMAIN books : BookOK(books[s], {})
  BY DEF EngineInv, TypeOK
<1> QED
  BY <1>1, NewBookOK DEF get_order_book

\* The counters of a call that is rejected, accepted or cancelled.
LEMMA CountersTyped ==
  ASSUME stats \in EngineStats
  PROVE  /\ [stats EXCEPT !.total_orders = @ + 1] \in EngineStats
         /\ [stats EXCEPT !.total_orders = @ + 1, !.total_rejects = @ + 1] \in EngineStats
         /\ [stats EXCEPT !.total_cancels = @ + 1] \in EngineStats
<1>1. [stats EXCEPT !.total_orders = @ + 1] \in EngineStats
  BY DEF EngineStats
<1>2. [stats EXCEPT !.total_orders = @ + 1, !.total_rejects = @ + 1] \in EngineStats
  <2> DEFINE s == [stats EXCEPT !.total_orders = @ + 1]
  <2>1. s \in EngineStats
    BY <1>1
  <2>2. s.total_rejects = stats.total_rejects
    BY DEF EngineStats
  <2>3. [stats EXCEPT !.total_orders = @ + 1, !.total_rejects = @ + 1]
        = [s EXCEPT !.total_rejects = stats.total_rejects + 1]
    OBVIOUS
  <2> HIDE DEF s
  <2>4. [s EXCEPT !.total_rejects = s.total_rejects + 1] \in EngineStats
    BY <2>1 DEF EngineStats
  <2> QED BY <2>2, <2>3, <2>4
<1>3. [stats EXCEPT !.total_cancels = @ + 1] \in EngineStats
  BY DEF EngineStats
<1> QED
  BY <1>1, <1>2, <1>3

\* A valid order goes on a good book and becomes the call's order.
LEMMA AcceptOrderInv ==
  ASSUME EngineInv, NEW symbol \in Symbols, NEW side \in Side, NEW type \in OrderType,
         NEW price \in Prices, NEW quantity \in Quantities,
         AcceptOrder(symbol, side, type, price, quantity)
  PROVE  EngineInv'
<1> DEFINE opened == get_order_book(symbol)
           b  == opened[symbol]
           c  == add_order(b, side, type, EffectivePrice(side, type, price), quantity)
           id == b.next_order_id
<1>1. /\ op = NoOp /\ IsValid(type, price, quantity)
      /\ books' = [opened EXCEPT ![symbol] = c]
      /\ op' = [phase |-> "match", symbol |-> symbol, order |-> acquired(b.pool),
                trades |-> << >>]
      /\ stats' = [stats EXCEPT !.total_orders = @ + 1]
  BY DEF AcceptOrder
<1>2. /\ DOMAIN opened = DOMAIN books \cup {symbol}
      /\ DOMAIN opened \subseteq Symbols
      /\ \A s \in DOMAIN opened : BookOK(opened[s], {})
  BY Zenon, <1>1, OpenedBooks
<1> HIDE DEF opened
<1>3. BookOK(b, {})
  BY <1>2
<1>4. acquired(b.pool) \in Nat
  BY <1>3, AcquireFacts DEF BookOK
<1>5. /\ id \in LiveIds(c)
      /\ PtrOf(c, id) = acquired(b.pool)
      /\ BookOK(c, {id})
      /\ IncomingOK(OrderOf(c, id))
  BY Zenon, <1>1, <1>3, AcceptKeepsOK
<1> HIDE DEF c, id, b
<1>6. << >> \in Seq(Trade)
  OBVIOUS
<1>7. op' \in OpRecord
  BY <1>1, <1>4, <1>6 DEF OpRecord, Phases
<1>8. op'.symbol = symbol /\ op'.order = acquired(b.pool) /\ op'.phase # "report"
  BY <1>1
<1>9. DOMAIN books' = DOMAIN opened /\ books'[symbol] = c
      /\ \A s \in DOMAIN books' : s # symbol => books'[s] = opened[s]
  BY <1>1, <1>2
<1>10. stats' \in EngineStats
  BY <1>1, CountersTyped DEF EngineInv, TypeOK
<1> QED
  BY SMTT(30), <1>2, <1>5, <1>7, <1>8, <1>9, <1>10, BusyAfter

\* An iteration of the match loop trades with a live order of the other side
\* and leaves the call's pointer valid.
LEMMA MatchStepInv ==
  ASSUME EngineInv, MatchStep
  PROVE  EngineInv' /\ SameIncoming
<1> DEFINE b == books[op.symbol]
<1>1. PICK resting \in Slots(b) :
        /\ CanMatch(b, Deref(b, op.order), resting)
        /\ books' = [books EXCEPT ![op.symbol] =
               RemoveIfFilled(execute_match(b, op.order, resting), resting)]
        /\ op' = [op EXCEPT !.trades =
               Append(@, TradeOf(Deref(b, op.order), Deref(b, resting)))]
        /\ stats' = stats
  BY Zenon DEF MatchStep
<1>2. op.phase = "match" /\ op # NoOp
  BY DEF MatchStep, NoOp
<1>3. /\ op \in OpRecord
      /\ op.symbol \in DOMAIN books
      /\ DOMAIN books \subseteq Symbols
      /\ stats \in EngineStats
      /\ \A symbol \in DOMAIN books : symbol # op.symbol => BookOK(books[symbol], {})
  BY <1>2, InCall
<1>4. PICK id \in LiveIds(b) :
        /\ PtrOf(b, id) = op.order
        /\ BookOK(b, {id})
        /\ IncomingOK(OrderOf(b, id))
  BY <1>2, InCall
<1> HIDE DEF b
<1>5. BookInv(b) /\ Deref(b, op.order) = OrderOf(b, id)
  BY <1>4 DEF BookOK, OrderOf
<1> DEFINE x == OrderOf(b, id)
           r == Deref(b, resting).id
           c == RemoveIfFilled(execute_match(b, op.order, resting), resting)
           trade == TradeOf(x, Deref(b, resting))
<1>6. x \in Order
  BY <1>5, LiveOrder
<1>7. x.side \in Side /\ Opposite(x.side) \in Side /\ Opposite(x.side) # x.side
  BY <1>6 DEF Order, Side, Opposite
<1>8. r \in LiveIds(b) /\ PtrOf(b, r) = resting /\ OrderOf(b, r).side = Opposite(x.side)
  <2>1. PICK p \in LevelPrices(b, Opposite(x.side)) :
          resting = Node(b, Opposite(x.side), p, 1)
    BY <1>1, <1>5 DEF CanMatch
  <2> QED BY SMTT(30), <1>5, <1>7, <2>1, QueueFront
<1> HIDE DEF x, r
<1>9. r \in LiveIds(b) \ {id}
  BY SMTT(30), <1>7, <1>8 DEF x
<1>10. /\ id \in LiveIds(c)
       /\ PtrOf(c, id) = op.order
       /\ BookOK(c, {id})
       /\ IncomingOK(OrderOf(c, id))
  BY SMTT(30), <1>4, <1>8, <1>9, MatchKeepsOK
<1>11. trade \in Trade
  <2>1. OrderOf(b, r) \in Order /\ OrderOf(b, r) = Deref(b, resting)
    BY SMTT(30), <1>5, <1>8, LiveOrder DEF OrderOf
  <2> DEFINE y == Deref(b, resting)
  <2>2. FillQty(x, y) \in Nat
    BY SMTT(30), <1>6, <2>1, FillQtyBounds
  <2>3. x.id \in Nat /\ y.id \in Nat /\ y.price \in Int
    BY SMTT(30), <1>6, <2>1 DEF Order
  <2> HIDE DEF y
  <2>4. TradeOf(x, y) \in Trade
    BY <2>2, <2>3 DEF TradeOf, Trade
  <2> QED BY <2>4 DEF y
<1> HIDE DEF c, trade
<1>12. op' = [op EXCEPT !.trades = Append(@, trade)]
  BY <1>1, <1>5 DEF trade, x
<1>13. op' \in OpRecord /\ op'.symbol = op.symbol /\ op'.order = op.order
       /\ op'.phase = "match"
  <2>1. Append(op.trades, trade) \in Seq(Trade)
    BY <1>3, <1>11, BusyOp, AppendProperties
  <2> QED BY Zenon, <1>2, <1>3, <1>12, <2>1 DEF OpRecord
<1>14. DOMAIN books' = DOMAIN books /\ books'[op.symbol] = c
       /\ \A s \in DOMAIN books : s # op.symbol => books'[s] = books[s]
  BY <1>1, <1>3 DEF c
<1>15. SameIncoming
  <2>1. \A i \in LiveIds(b) : PtrOf(b, i) = op.order => i = id
    BY <1>4, <1>5, LiveSlots
  <2>2. op' # NoOp
    BY <1>13, BusyOp
  <2> QED BY <1>2, <1>10, <1>13, <1>14, <2>1, <2>2 DEF SameIncoming, b
<1> QED
  BY SMTT(30), <1>1, <1>3, <1>10, <1>13, <1>14, <1>15, BusyAfter

\* The match loop ends with nothing left that crosses.
LEMMA MatchDoneInv ==
  ASSUME EngineInv, MatchDone
  PROVE  EngineInv' /\ SameIncoming
<1> DEFINE b == books[op.symbol]
           x == Deref(b, op.order)
           c == WriteOrder(b, op.order, [x EXCEPT !.status = MatchedStatus(x)])
<1>1. /\ op.phase = "match"
      /\ ~\E resting \in Slots(b) : CanMatch(b, x, resting)
      /\ books' = [books EXCEPT ![op.symbol] = c]
      /\ op' = [op EXCEPT !.phase = "report"]
      /\ stats' = stats
  BY DEF MatchDone
<1>2. op # NoOp
  BY <1>1 DEF NoOp
<1>3. /\ op \in OpRecord
      /\ op.symbol \in DOMAIN books
      /\ DOMAIN books \subseteq Symbols
      /\ stats \in EngineStats
      /\ \A symbol \in DOMAIN books : symbol # op.symbol => BookOK(books[symbol], {})
  BY <1>2, InCall
<1>4. PICK id \in LiveIds(b) :
        /\ PtrOf(b, id) = op.order
        /\ BookOK(b, {id})
        /\ IncomingOK(OrderOf(b, id))
  BY Zenon, <1>2, InCall
<1> HIDE DEF b
<1>5. BookInv(b) /\ x = OrderOf(b, id)
  BY <1>4 DEF BookOK, OrderOf
<1>6. MatchedStatus(x) \in OrderStatus
  <2>1. x \in Order
    BY <1>5, LiveOrder
  <2>2. x.status \in OrderStatus /\ x.quantity - x.remaining_qty \in Int
    BY <2>1 DEF Order
  <2> HIDE DEF x
  <2> QED BY <2>2 DEF MatchedStatus, OrderStatus, filled_qty, is_filled
<1>7. Settled(b, id)
  BY SMTT(30), <1>1, <1>4, <1>5, DoneMeansSettled
<1>8. /\ LiveIds(c) = LiveIds(b)
      /\ PtrOf(c, id) = op.order
      /\ BookOK(c, {id})
      /\ IncomingOK(OrderOf(c, id))
      /\ Settled(c, id)
  BY SMTT(30), <1>4, <1>5, <1>6, <1>7, StatusKeepsOK
<1> HIDE DEF c, x
<1>9. op' \in OpRecord /\ op'.symbol = op.symbol /\ op'.order = op.order
  BY <1>1, <1>3 DEF OpRecord, Phases
<1>10. DOMAIN books' = DOMAIN books /\ books'[op.symbol] = c
       /\ \A s \in DOMAIN books : s # op.symbol => books'[s] = books[s]
  BY <1>1, <1>3
<1>11. SameIncoming
  <2>1. \A i \in LiveIds(b) : PtrOf(b, i) = op.order => i = id
    BY <1>4, <1>5, LiveSlots
  <2>2. op' # NoOp
    BY <1>9, BusyOp
  <2> QED BY <1>2, <1>8, <1>9, <1>10, <2>1, <2>2 DEF SameIncoming, b
<1> QED
  BY SMTT(30), <1>1, <1>3, <1>8, <1>9, <1>10, <1>11, BusyAfter

\* Delivering a trade only moves the counters and the list of trades.
LEMMA ReportTradeInv ==
  ASSUME EngineInv, ReportTrade
  PROVE  EngineInv' /\ SameIncoming
<1> DEFINE trade == Head(op.trades)
<1>1. /\ op.phase = "report" /\ op.trades # << >>
      /\ stats' = [stats EXCEPT !.total_trades = @ + 1,
                                !.total_volume = @ + trade.quantity,
                                !.total_notional = @ + trade.price * trade.quantity]
      /\ op' = [op EXCEPT !.trades = Tail(@)]
      /\ books' = books
  BY DEF ReportTrade
<1>2. op # NoOp
  BY <1>1 DEF NoOp
<1>3. /\ op \in OpRecord
      /\ op.symbol \in DOMAIN books
      /\ DOMAIN books \subseteq Symbols
      /\ stats \in EngineStats
      /\ \A symbol \in DOMAIN books : symbol # op.symbol => BookOK(books[symbol], {})
  BY <1>2, InCall
<1>4. PICK id \in LiveIds(books[op.symbol]) :
        /\ PtrOf(books[op.symbol], id) = op.order
        /\ BookOK(books[op.symbol], {id})
        /\ IncomingOK(OrderOf(books[op.symbol], id))
        /\ Settled(books[op.symbol], id)
  BY Zenon, <1>1, <1>2, InCall
<1>5. op.trades \in Seq(Trade)
  BY <1>3, BusyOp
<1>6. trade \in Trade /\ Tail(op.trades) \in Seq(Trade)
  BY <1>1, <1>5, HeadTailProperties
<1>7. stats' \in EngineStats
  <2> HIDE DEF trade
  <2> DEFINE qty == trade.quantity
             notional == trade.price * trade.quantity
  <2>1. qty \in Nat /\ notional \in Int
    <3>1. trade.quantity \in Nat /\ trade.price \in Int
      BY <1>6 DEF Trade
    <3>2. \A p, q \in Int : p * q \in Int
      OBVIOUS
    <3> QED BY <3>1, <3>2
  <2> HIDE DEF qty, notional
  <2>2. /\ stats.total_trades + 1 \in Nat
        /\ stats.total_volume + qty \in Nat
        /\ stats.total_notional + notional \in Int
    BY <1>3, <2>1 DEF EngineStats
  <2>3. stats' = [stats EXCEPT !.total_trades = stats.total_trades + 1,
                               !.total_volume = stats.total_volume + qty,
                               !.total_notional = stats.total_notional + notional]
    BY <1>1 DEF qty, notional
  <2> QED BY Zenon, <1>3, <2>2, <2>3 DEF EngineStats
<1>8. op' \in OpRecord /\ op'.symbol = op.symbol /\ op'.order = op.order
  <2> HIDE DEF trade
  <2> QED BY Zenon, <1>1, <1>3, <1>6 DEF OpRecord
<1>9. SameIncoming
  <2>1. op' # NoOp
    BY <1>8, BusyOp
  <2> QED BY <1>1, <1>2, <1>8, <2>1 DEF SameIncoming
<1> QED
  BY SMTT(30), <1>1, <1>3, <1>4, <1>7, <1>8, <1>9, BusyAfter

\* The post-match handling leaves a good book behind.
LEMMA FinishInv ==
  ASSUME EngineInv, Finish
  PROVE  EngineInv'
<1> DEFINE b == books[op.symbol]
           c == AfterMatch(b, op.order)
<1>1. /\ op.phase = "report"
      /\ books' = [books EXCEPT ![op.symbol] = c]
      /\ op' = NoOp
      /\ stats' = stats
  BY DEF Finish
<1>2. op # NoOp
  BY <1>1 DEF NoOp
<1>3. /\ op.symbol \in DOMAIN books
      /\ DOMAIN books \subseteq Symbols
      /\ stats \in EngineStats
      /\ \A symbol \in DOMAIN books : symbol # op.symbol => BookOK(books[symbol], {})
  BY <1>2, InCall
<1>4. PICK id \in LiveIds(b) :
        /\ PtrOf(b, id) = op.order
        /\ BookOK(b, {id})
        /\ IncomingOK(OrderOf(b, id))
        /\ Settled(b, id)
  BY SMTT(30), <1>1, <1>2, InCall
<1> HIDE DEF b
<1>5. BookOK(c, {})
  BY <1>4, FinishKeepsOK
<1> HIDE DEF c
<1>6. DOMAIN books' = DOMAIN books /\ books'[op.symbol] = c
      /\ \A s \in DOMAIN books : s # op.symbol => books'[s] = books[s]
  BY <1>1, <1>3
<1> QED
  BY <1>1, <1>3, <1>5, <1>6, IdleAfter

\* A cancel by ID between two calls.
LEMMA CancelOrderStepInv ==
  ASSUME EngineInv, NEW symbol \in Symbols, NEW id, CancelOrder(symbol, id)
  PROVE  EngineInv'
<1>1. /\ op = NoOp /\ op' = NoOp
      /\ DOMAIN books \subseteq Symbols /\ stats \in EngineStats
      /\ \A s \in DOMAIN books : BookOK(books[s], {})
  BY DEF CancelOrder, EngineInv, TypeOK
<1>2. CASE symbol \in DOMAIN books /\ id \in LiveIds(books[symbol])
  <2> DEFINE c == cancel_order(books[symbol], id)
  <2>1. books' = [books EXCEPT ![symbol] = c]
        /\ stats' = [stats EXCEPT !.total_cancels = @ + 1]
    BY <1>2 DEF CancelOrder
  <2>2. BookOK(c, {})
    BY <1>1, <1>2, CancelKeepsOK
  <2>3. stats' \in EngineStats
    BY <1>1, <2>1, CountersTyped
  <2> HIDE DEF c
  <2>4. DOMAIN books' = DOMAIN books
        /\ \A s \in DOMAIN books : books'[s] = IF s = symbol THEN c ELSE books[s]
    BY <1>2, <2>1
  <2> QED
    BY SMTT(30), <1>1, <2>2, <2>3, <2>4, IdleAfter
<1>3. CASE ~(symbol \in DOMAIN books /\ id \in LiveIds(books[symbol]))
  <2>1. books' = books /\ stats' = stats
    BY <1>3 DEF CancelOrder
  <2> QED
    BY <1>1, <2>1, IdleAfter
<1> QED
  BY <1>2, <1>3

\* RejectOrder and GetOrderBook open a book and leave the rest alone.
LEMMA OpenOnlyInv ==
  ASSUME EngineInv, op = NoOp, op' = op, NEW symbol \in Symbols,
         books' = get_order_book(symbol), stats' \in EngineStats
  PROVE  EngineInv'
<1> DEFINE opened == get_order_book(symbol)
<1>1. DOMAIN opened \subseteq Symbols /\ \A s \in DOMAIN opened : BookOK(opened[s], {})
  BY Zenon, OpenedBooks
<1> HIDE DEF opened
<1>2. books' = opened
  BY DEF opened
<1> QED
  BY SMTT(30), <1>1, <1>2, IdleAfter

-----------------------------------------------------------------------------
(***************************************************************************)
(* What each step does to the live orders of the books.  The modules that  *)
(* run the engine with an observer or behind a server use these lemmas and *)
(* never look into a book.                                                 *)
(***************************************************************************)

\* Books b and c hand out the same ID next, and the orders on c are orders on
\* b with the same terms.
Kept(b, c) ==
    /\ c.next_order_id = b.next_order_id
    /\ LiveIds(c) \subseteq LiveIds(b)
    /\ \A i \in LiveIds(c) : /\ OrderOf(c, i).type = OrderOf(b, i).type
                             /\ OrderOf(c, i).price = OrderOf(b, i).price
                             /\ OrderOf(c, i).quantity = OrderOf(b, i).quantity

\* All books but one are as before.
OnlyBook(symbol) ==
    /\ DOMAIN books' = DOMAIN books
    /\ \A s \in DOMAIN books : s # symbol => books'[s] = books[s]

\* try_emplace leaves the books alone and creates an empty one.
LEMMA OpenEffect ==
  ASSUME NEW symbol
  PROVE  LET opened == get_order_book(symbol)
         IN  /\ DOMAIN opened = DOMAIN books \cup {symbol}
             /\ \A s \in DOMAIN books : opened[s] = books[s]
             /\ symbol \notin DOMAIN books =>
                   LiveIds(opened[symbol]) = {} /\ opened[symbol].next_order_id = 1
<1>1. LiveIds(NewBook) = {} /\ NewBook.next_order_id = 1
  BY DEF NewBook, LiveIds
<1> HIDE DEF NewBook
<1> QED
  BY <1>1 DEF get_order_book

\* An accepted order gets the next ID of its book and is live, unfilled, on
\* the terms it was submitted with.
Accepted(symbol, side, type, price, quantity) ==
    LET b  == get_order_book(symbol)[symbol]
        c  == books'[symbol]
        id == b.next_order_id
    IN  /\ op = NoOp /\ op' \in OpRecord /\ op'.phase = "match"
        /\ op'.symbol = symbol /\ op'.trades = << >> /\ op'.order = PtrOf(c, id)
        /\ IsValid(type, price, quantity)
        /\ stats' = [stats EXCEPT !.total_orders = @ + 1]
        /\ DOMAIN books' = DOMAIN books \cup {symbol}
        /\ \A s \in DOMAIN books : s # symbol => books'[s] = books[s]
        /\ id \in Nat \ {0} /\ c.next_order_id = id + 1
        /\ id \notin LiveIds(b) /\ LiveIds(c) = LiveIds(b) \cup {id}
        /\ OrderOf(c, id) =
              NewOrder(id, side, type, EffectivePrice(side, type, price), quantity)
        /\ \A i \in LiveIds(b) : OrderOf(c, i) = OrderOf(b, i)

\* What AcceptOrder does.
LEMMA AcceptEffect ==
  ASSUME EngineInv, NEW symbol \in Symbols, NEW side \in Side, NEW type \in OrderType,
         NEW price \in Prices, NEW quantity \in Quantities,
         AcceptOrder(symbol, side, type, price, quantity)
  PROVE  Accepted(symbol, side, type, price, quantity)
<1> DEFINE opened == get_order_book(symbol)
           b  == opened[symbol]
           e  == EffectivePrice(side, type, price)
           c  == add_order(b, side, type, e, quantity)
           id == b.next_order_id
<1>1. /\ op = NoOp /\ IsValid(type, price, quantity)
      /\ books' = [opened EXCEPT ![symbol] = c]
      /\ op' = [phase |-> "match", symbol |-> symbol, order |-> acquired(b.pool),
                trades |-> << >>]
      /\ stats' = [stats EXCEPT !.total_orders = @ + 1]
  BY DEF AcceptOrder
<1>2. DOMAIN opened = DOMAIN books \cup {symbol} /\ \A s \in DOMAIN opened : BookOK(opened[s], {})
  BY Zenon, <1>1, OpenedBooks
<1>3. \A s \in DOMAIN books : opened[s] = books[s]
  BY Zenon, OpenEffect
<1> HIDE DEF opened
<1>4. BookInv(b)
  BY <1>2 DEF BookOK
<1>5. e \in Int /\ quantity \in Nat
  BY EngineAssumption DEF EffectivePrice, OrderType, Side
<1> HIDE DEF e, b
<1>6. acquired(b.pool) \in Nat
  BY <1>4, AcquireFacts
<1>7. /\ id \in Nat \ {0} /\ c.next_order_id = id + 1
      /\ id \notin LiveIds(b) /\ LiveIds(c) = LiveIds(b) \cup {id}
      /\ PtrOf(c, id) = acquired(b.pool)
      /\ OrderOf(c, id) = NewOrder(id, side, type, e, quantity)
      /\ \A i \in LiveIds(b) : OrderOf(c, i) = OrderOf(b, i)
  BY <1>4, <1>5, AddLive
<1> HIDE DEF c, id
<1>8. DOMAIN books' = DOMAIN opened /\ books'[symbol] = c
      /\ \A s \in DOMAIN opened : s # symbol => books'[s] = opened[s]
  BY <1>1, <1>2
<1>9. op' \in OpRecord /\ op'.phase = "match" /\ op'.symbol = symbol /\ op'.trades = << >>
      /\ op'.order = acquired(b.pool)
  <2>1. << >> \in Seq(Trade)
    OBVIOUS
  <2> QED BY <1>1, <1>6, <2>1 DEF OpRecord, Phases
<1> QED
  BY <1>1, <1>2, <1>3, <1>7, <1>8, <1>9 DEF Accepted, b, id, opened, e

\* An iteration of the match loop between the call's order id and a resting
\* order r: both lose the quantity of the trade that is appended, and r leaves
\* the book when it is filled.
Matched(id, r) ==
    LET b == books[op.symbol]
        c == books'[op.symbol]
        x == OrderOf(b, id)
        y == OrderOf(b, r)
        t == TradeOf(x, y)
        q == FillQty(x, y)
    IN  /\ id # r /\ PtrOf(b, id) = op.order
        /\ op \in OpRecord /\ op.symbol \in DOMAIN books /\ BookInv(b)
        /\ op' \in OpRecord /\ op'.symbol = op.symbol /\ op'.phase = "match"
        /\ op'.trades = Append(op.trades, t)
        /\ t.quantity = q
        /\ \/ t.buy_order_id = id /\ t.sell_order_id = r
           \/ t.buy_order_id = r /\ t.sell_order_id = id
        /\ stats' = stats
        /\ OnlyBook(op.symbol)
        /\ c.next_order_id = b.next_order_id
        /\ LiveIds(c) = IF y.remaining_qty - q = 0 THEN LiveIds(b) \ {r} ELSE LiveIds(b)
        /\ \A i \in LiveIds(c) : OrderOf(c, i) = IF i = id THEN Fill(x, q)
                                                 ELSE IF i = r THEN Fill(y, q)
                                                 ELSE OrderOf(b, i)

\* What MatchStep does.
LEMMA MatchEffect ==
  ASSUME EngineInv, MatchStep
  PROVE  \E id \in LiveIds(books[op.symbol]), r \in LiveIds(books[op.symbol]) : Matched(id, r)
<1> DEFINE b == books[op.symbol]
<1>1. PICK resting \in Slots(b) :
        /\ CanMatch(b, Deref(b, op.order), resting)
        /\ books' = [books EXCEPT ![op.symbol] =
               RemoveIfFilled(execute_match(b, op.order, resting), resting)]
        /\ op' = [op EXCEPT !.trades =
               Append(@, TradeOf(Deref(b, op.order), Deref(b, resting)))]
        /\ stats' = stats
  BY Zenon DEF MatchStep
<1>2. op.phase = "match" /\ op # NoOp
  BY DEF MatchStep, NoOp
<1>3. op \in OpRecord /\ op.symbol \in DOMAIN books
  BY <1>2, InCall
<1>4. PICK id \in LiveIds(b) : PtrOf(b, id) = op.order /\ BookOK(b, {id})
  BY <1>2, InCall
<1> HIDE DEF b
<1>5. BookInv(b) /\ Deref(b, op.order) = OrderOf(b, id)
  BY <1>4 DEF BookOK, OrderOf
<1> DEFINE x == OrderOf(b, id)
           r == Deref(b, resting).id
<1>6. x \in Order /\ x.id = id
  BY <1>5, LiveOrder
<1>7. x.side \in Side /\ Opposite(x.side) \in Side /\ Opposite(x.side) # x.side
  BY <1>6 DEF Order, Side, Opposite
<1>8. r \in LiveIds(b) /\ PtrOf(b, r) = resting /\ OrderOf(b, r).side = Opposite(x.side)
  <2>1. PICK p \in LevelPrices(b, Opposite(x.side)) :
          resting = Node(b, Opposite(x.side), p, 1)
    BY <1>1, <1>5 DEF CanMatch
  <2> QED BY SMTT(30), <1>5, <1>7, <2>1, QueueFront
<1> HIDE DEF r
<1>9. id # r
  BY SMTT(30), <1>7, <1>8 DEF x
<1> DEFINE y == OrderOf(b, r)
           q == FillQty(x, y)
           t == TradeOf(x, y)
           c == RemoveIfFilled(execute_match(b, PtrOf(b, id), PtrOf(b, r)), PtrOf(b, r))
<1>10. y = Deref(b, resting) /\ y.id = r /\ y \in Order
  BY <1>5, <1>8, LiveOrder DEF OrderOf
<1>11. /\ c.next_order_id = b.next_order_id
       /\ LiveIds(c) = IF y.remaining_qty - q = 0 THEN LiveIds(b) \ {r} ELSE LiveIds(b)
       /\ \A i \in LiveIds(c) : OrderOf(c, i) = IF i = id THEN Fill(x, q)
                                                ELSE IF i = r THEN Fill(y, q)
                                                ELSE OrderOf(b, i)
  BY <1>5, <1>8, <1>9, MatchLive
<1>12. c = RemoveIfFilled(execute_match(b, op.order, resting), resting)
  BY <1>4, <1>8
<1>13. /\ t.quantity = q
       /\ \/ t.buy_order_id = id /\ t.sell_order_id = r
          \/ t.buy_order_id = r /\ t.sell_order_id = id
  BY <1>6, <1>10 DEF TradeOf
<1>14. t \in Trade
  <2>1. q \in Nat /\ x.id \in Nat /\ y.id \in Nat /\ y.price \in Int
    BY <1>6, <1>10, FillQtyBounds DEF Order
  <2> QED BY <2>1 DEF TradeOf, Trade
<1>15. op' = [op EXCEPT !.trades = Append(@, t)]
  BY <1>1, <1>5, <1>10
<1>16. OnlyBook(op.symbol) /\ books'[op.symbol] = c
  <2> HIDE DEF c
  <2> QED BY <1>1, <1>3, <1>12 DEF OnlyBook
<1> HIDE DEF c, t
<1>17. op' \in OpRecord /\ op'.symbol = op.symbol /\ op'.phase = "match"
       /\ op'.trades = Append(op.trades, t)
  <2>1. Append(op.trades, t) \in Seq(Trade)
    BY <1>3, <1>14, BusyOp, AppendProperties
  <2> QED BY Zenon, <1>2, <1>3, <1>15, <2>1 DEF OpRecord
<1> DEFINE n == books'[op.symbol]
<1>18. /\ n.next_order_id = b.next_order_id
       /\ LiveIds(n) = IF y.remaining_qty - q = 0 THEN LiveIds(b) \ {r} ELSE LiveIds(b)
       /\ \A i \in LiveIds(n) : OrderOf(n, i) = IF i = id THEN Fill(x, q)
                                                ELSE IF i = r THEN Fill(y, q)
                                                ELSE OrderOf(b, i)
  BY <1>11, <1>16, Zenon
<1>19. id \in LiveIds(b) /\ r \in LiveIds(b) /\ stats' = stats
  BY <1>1, <1>8
<1> QED
  <2>1. Matched(id, r)
    BY <1>3, <1>4, <1>5, <1>9, <1>13, <1>16, <1>17, <1>18, <1>19, ZenonT(60) DEF Matched, b, t
  <2> QED BY <1>19, <2>1, Zenon DEF b

\* The end of the match loop writes the status of the call's order.
LEMMA DoneEffect ==
  ASSUME EngineInv, MatchDone
  PROVE  LET b == books[op.symbol]
             c == books'[op.symbol]
         IN  /\ op \in OpRecord /\ op.symbol \in DOMAIN books /\ BookInv(b)
             /\ op' \in OpRecord /\ op'.symbol = op.symbol /\ op'.trades = op.trades
             /\ stats' = stats
             /\ OnlyBook(op.symbol)
             /\ c.next_order_id = b.next_order_id
             /\ LiveIds(c) = LiveIds(b)
             /\ \A i \in LiveIds(b) :
                   /\ OrderOf(b, i) \in Order
                   /\ \E status : OrderOf(c, i) = [OrderOf(b, i) EXCEPT !.status = status]
<1> DEFINE b == books[op.symbol]
           x == Deref(b, op.order)
           w == [x EXCEPT !.status = MatchedStatus(x)]
           c == WriteOrder(b, op.order, w)
<1>1. /\ op.phase = "match"
      /\ books' = [books EXCEPT ![op.symbol] = c]
      /\ op' = [op EXCEPT !.phase = "report"]
      /\ stats' = stats
  BY DEF MatchDone
<1>2. op # NoOp
  BY <1>1 DEF NoOp
<1>3. op \in OpRecord /\ op.symbol \in DOMAIN books
  BY <1>2, InCall
<1>4. PICK id \in LiveIds(b) : PtrOf(b, id) = op.order /\ BookOK(b, {id})
  BY Zenon, <1>2, InCall
<1> HIDE DEF b
<1>5. BookInv(b) /\ x = OrderOf(b, id)
  BY <1>4 DEF BookOK, OrderOf
<1>6. \A i \in LiveIds(b) : OrderOf(b, i) \in Order
  BY <1>5, LiveOrder
<1>7. MatchedStatus(x) \in OrderStatus
  <2>1. x \in Order
    BY <1>5, <1>6
  <2>2. x.status \in OrderStatus /\ x.quantity - x.remaining_qty \in Int
    BY <2>1 DEF Order
  <2> HIDE DEF x
  <2> QED BY <2>2 DEF MatchedStatus, OrderStatus, filled_qty, is_filled
<1>8. /\ w \in Order /\ w.id = OrderOf(b, id).id /\ w.side = OrderOf(b, id).side
      /\ w.price = OrderOf(b, id).price
  <2>1. x \in Order
    BY <1>5, <1>6
  <2> HIDE DEF x
  <2> QED BY <1>5, <1>7, <2>1, StatusOrder
<1>9. w = [OrderOf(b, id) EXCEPT !.status = MatchedStatus(x)]
  BY <1>5
<1>10. \A i \in LiveIds(b) : [OrderOf(b, i) EXCEPT !.status = OrderOf(b, i).status] = OrderOf(b, i)
  BY <1>6 DEF Order
<1> HIDE DEF w, x
<1>11. /\ LiveIds(c) = LiveIds(b) /\ c.next_order_id = b.next_order_id
       /\ \A i \in LiveIds(b) : OrderOf(c, i) = IF i = id THEN w ELSE OrderOf(b, i)
  BY <1>4, <1>5, <1>8, WriteLive
<1> HIDE DEF c
<1>12. \A i \in LiveIds(b) : \E status : OrderOf(c, i) = [OrderOf(b, i) EXCEPT !.status = status]
  BY <1>9, <1>10, <1>11, Zenon
<1>13. op' \in OpRecord /\ op'.symbol = op.symbol /\ op'.trades = op.trades
  BY <1>1, <1>3 DEF OpRecord, Phases
<1>14. OnlyBook(op.symbol) /\ books'[op.symbol] = c
  BY <1>1, <1>3 DEF OnlyBook
<1> QED
  BY <1>1, <1>3, <1>5, <1>6, <1>11, <1>12, <1>13, <1>14 DEF b

\* A delivered trade leaves the list and is counted.
LEMMA ReportEffect ==
  ASSUME EngineInv, ReportTrade
  PROVE  LET t == Head(op.trades)
         IN  /\ op \in OpRecord /\ op.symbol \in DOMAIN books /\ BookInv(books[op.symbol])
             /\ op.trades \in Seq(Trade) /\ op.trades # << >> /\ t \in Trade
             /\ op' \in OpRecord /\ op'.symbol = op.symbol /\ op'.trades = Tail(op.trades)
             /\ books' = books
             /\ stats' = [stats EXCEPT !.total_trades = @ + 1,
                                       !.total_volume = @ + t.quantity,
                                       !.total_notional = @ + t.price * t.quantity]
<1>1. op.phase = "report" /\ op.trades # << >> /\ op' = [op EXCEPT !.trades = Tail(@)]
  BY DEF ReportTrade
<1>2. op # NoOp
  BY <1>1 DEF NoOp
<1>3. op \in OpRecord /\ op.symbol \in DOMAIN books
  BY <1>2, InCall
<1>4. BookInv(books[op.symbol])
  BY <1>2, InCall DEF BookOK
<1>5. op.trades \in Seq(Trade)
  BY <1>3, BusyOp
<1>6. Head(op.trades) \in Trade /\ Tail(op.trades) \in Seq(Trade)
  BY <1>1, <1>5, HeadTailProperties
<1>7. op' \in OpRecord /\ op'.symbol = op.symbol /\ op'.trades = Tail(op.trades)
  BY <1>1, <1>3, <1>6, Zenon DEF OpRecord
<1> QED
  BY <1>1, <1>3, <1>4, <1>5, <1>6, <1>7, Zenon DEF ReportTrade

\* The end of submit_order: the call's order stays if it is a limit order that
\* is not filled.
LEMMA FinishEffect ==
  ASSUME EngineInv, Finish
  PROVE  LET b == books[op.symbol]
             c == books'[op.symbol]
         IN  /\ op \in OpRecord /\ op.symbol \in DOMAIN books /\ BookInv(b)
             /\ op.trades = << >> /\ op' = NoOp
             /\ stats' = stats
             /\ OnlyBook(op.symbol)
             /\ c.next_order_id = b.next_order_id
             /\ \E id \in LiveIds(b) :
                   LiveIds(c) = IF OrderOf(b, id).remaining_qty # 0 /\ OrderOf(b, id).type = "Limit"
                                THEN LiveIds(b) ELSE LiveIds(b) \ {id}
             /\ \A i \in LiveIds(c) : OrderOf(c, i) = OrderOf(b, i)
<1> DEFINE b == books[op.symbol]
           c == AfterMatch(b, op.order)
<1>1. /\ op.phase = "report" /\ op.trades = << >>
      /\ books' = [books EXCEPT ![op.symbol] = c]
      /\ op' = NoOp
      /\ stats' = stats
  BY DEF Finish
<1>2. op # NoOp
  BY <1>1 DEF NoOp
<1>3. op \in OpRecord /\ op.symbol \in DOMAIN books
  BY <1>2, InCall
<1>4. PICK id \in LiveIds(b) : PtrOf(b, id) = op.order /\ BookOK(b, {id})
  BY Zenon, <1>2, InCall
<1> HIDE DEF b
<1>5. BookInv(b)
  BY <1>4 DEF BookOK
<1>6. /\ LiveIds(c) = IF OrderOf(b, id).remaining_qty # 0 /\ OrderOf(b, id).type = "Limit"
                      THEN LiveIds(b) ELSE LiveIds(b) \ {id}
      /\ \A i \in LiveIds(c) : OrderOf(c, i) = OrderOf(b, i)
      /\ c.next_order_id = b.next_order_id
  <2>1. /\ LiveIds(c) = IF ~is_filled(OrderOf(b, id)) /\ OrderOf(b, id).type = "Limit"
                        THEN LiveIds(b) ELSE LiveIds(b) \ {id}
        /\ \A i \in LiveIds(c) : OrderOf(c, i) = OrderOf(b, i)
        /\ c.next_order_id = b.next_order_id
    BY <1>4, <1>5, FinishLive
  <2>2. is_filled(OrderOf(b, id)) <=> OrderOf(b, id).remaining_qty = 0
    BY DEF is_filled
  <2> HIDE DEF c
  <2> QED BY <2>1, <2>2
<1> HIDE DEF c
<1>7. OnlyBook(op.symbol) /\ books'[op.symbol] = c
  BY <1>1, <1>3 DEF OnlyBook
<1> QED
  BY <1>1, <1>3, <1>5, <1>6, <1>7 DEF b

\* A cancel between calls takes a live order off its book and is counted, or
\* does nothing.
LEMMA CancelEffect ==
  ASSUME EngineInv, NEW symbol \in Symbols, NEW id, CancelOrder(symbol, id)
  PROVE  LET b == books[symbol]
             c == books'[symbol]
         IN  /\ op = NoOp /\ op' = op
             /\ IF symbol \in DOMAIN books /\ id \in LiveIds(books[symbol])
                THEN /\ BookInv(b)
                     /\ stats' = [stats EXCEPT !.total_cancels = @ + 1]
                     /\ OnlyBook(symbol)
                     /\ c.next_order_id = b.next_order_id
                     /\ LiveIds(c) = LiveIds(b) \ {id}
                     /\ \A i \in LiveIds(c) : OrderOf(c, i) = OrderOf(b, i)
                ELSE books' = books /\ stats' = stats
<1>1. op = NoOp /\ op' = op
  BY DEF CancelOrder
<1>2. CASE symbol \in DOMAIN books /\ id \in LiveIds(books[symbol])
  <2> DEFINE b == books[symbol]
             c == cancel_order(b, id)
  <2>1. BookInv(b)
    BY <1>1, <1>2 DEF EngineInv, BookOK
  <2>2. books' = [books EXCEPT ![symbol] = c] /\ stats' = [stats EXCEPT !.total_cancels = @ + 1]
    BY <1>2 DEF CancelOrder
  <2>3. /\ c.next_order_id = b.next_order_id
        /\ LiveIds(c) = LiveIds(b) \ {id}
        /\ \A i \in LiveIds(c) : OrderOf(c, i) = OrderOf(b, i)
    <3> HIDE DEF b
    <3>1. id \in LiveIds(b)
      BY <1>2 DEF b
    <3> QED BY <2>1, <3>1, CancelLive
  <2> HIDE DEF c
  <2>4. OnlyBook(symbol) /\ books'[symbol] = c
    BY <1>2, <2>2 DEF OnlyBook
  <2> QED BY <1>1, <1>2, <2>1, <2>2, <2>3, <2>4
<1>3. CASE ~(symbol \in DOMAIN books /\ id \in LiveIds(books[symbol]))
  BY <1>1, <1>3 DEF CancelOrder
<1> QED
  BY <1>2, <1>3

\* Every step of the engine but an accepted order keeps the terms of the
\* orders on the books and hands out no ID.
LEMMA StepKeeps ==
  ASSUME EngineInv,
         \/ Proceed
         \/ \E symbol \in Symbols : \E id : CancelOrder(symbol, id)
  PROVE  /\ DOMAIN books' = DOMAIN books
         /\ \A s \in DOMAIN books : Kept(books[s], books'[s])
         /\ stats'.total_orders = stats.total_orders
         /\ stats'.total_rejects = stats.total_rejects
<1> DEFINE Goal == /\ DOMAIN books' = DOMAIN books
                   /\ \A s \in DOMAIN books : Kept(books[s], books'[s])
                   /\ stats'.total_orders = stats.total_orders
                   /\ stats'.total_rejects = stats.total_rejects
<1>0. \A b : Kept(b, b)
  BY DEF Kept
<1>t. stats \in EngineStats
  BY DEF EngineInv, TypeOK
<1>1. ASSUME NEW symbol, OnlyBook(symbol), Kept(books[symbol], books'[symbol]), stats' = stats
      PROVE  Goal
  BY <1>0, <1>1 DEF OnlyBook
<1>2. CASE MatchStep
  <2> DEFINE b == books[op.symbol]
             c == books'[op.symbol]
  <2>0. PICK id \in LiveIds(b), r \in LiveIds(b) : Matched(id, r)
    BY <1>2, MatchEffect, Zenon
  <2>1. /\ id # r /\ BookInv(b) /\ stats' = stats /\ OnlyBook(op.symbol)
        /\ c.next_order_id = b.next_order_id
        /\ LiveIds(c) \subseteq LiveIds(b)
        /\ \A i \in LiveIds(c) : OrderOf(c, i) =
              IF i = id THEN Fill(OrderOf(b, id), FillQty(OrderOf(b, id), OrderOf(b, r)))
              ELSE IF i = r THEN Fill(OrderOf(b, r), FillQty(OrderOf(b, id), OrderOf(b, r)))
              ELSE OrderOf(b, i)
    BY <2>0 DEF Matched
  <2> DEFINE x == OrderOf(b, id)
             y == OrderOf(b, r)
             q == FillQty(x, y)
  <2>2. x \in Order /\ y \in Order
    BY <2>1, LiveOrder
  <2> HIDE DEF b, c
  <2>3. /\ Fill(x, q).type = x.type /\ Fill(x, q).price = x.price
        /\ Fill(x, q).quantity = x.quantity
        /\ Fill(y, q).type = y.type /\ Fill(y, q).price = y.price
        /\ Fill(y, q).quantity = y.quantity
    BY Zenon, <2>2, FillQtyBounds, FillOrder
  <2>4. Kept(b, c)
    BY <2>1, <2>3 DEF Kept
  <2> QED BY <1>1, <2>1, <2>4 DEF b, c
<1>3. CASE MatchDone
  <2> DEFINE b == books[op.symbol]
             c == books'[op.symbol]
  <2>1. /\ stats' = stats /\ OnlyBook(op.symbol)
        /\ c.next_order_id = b.next_order_id /\ LiveIds(c) = LiveIds(b)
        /\ \A i \in LiveIds(b) :
              /\ OrderOf(b, i) \in Order
              /\ \E status : OrderOf(c, i) = [OrderOf(b, i) EXCEPT !.status = status]
    BY Zenon, <1>3, DoneEffect
  <2> HIDE DEF b, c
  <2>2. \A i \in LiveIds(b) : /\ OrderOf(c, i).type = OrderOf(b, i).type
                              /\ OrderOf(c, i).price = OrderOf(b, i).price
                              /\ OrderOf(c, i).quantity = OrderOf(b, i).quantity
    BY <2>1 DEF Order
  <2>3. Kept(b, c)
    BY <2>1, <2>2 DEF Kept
  <2> QED BY <1>1, <2>1, <2>3 DEF b, c
<1>4. CASE ReportTrade
  <2>1. books' = books /\ stats'.total_orders = stats.total_orders
        /\ stats'.total_rejects = stats.total_rejects
    BY <1>4, <1>t DEF ReportTrade, EngineStats
  <2> QED BY <1>0, <2>1
<1>5. CASE Finish
  <2> DEFINE b == books[op.symbol]
             c == books'[op.symbol]
  <2>1. /\ stats' = stats /\ OnlyBook(op.symbol)
        /\ c.next_order_id = b.next_order_id /\ LiveIds(c) \subseteq LiveIds(b)
        /\ \A i \in LiveIds(c) : OrderOf(c, i) = OrderOf(b, i)
    BY Zenon, <1>5, FinishEffect
  <2> HIDE DEF b, c
  <2>2. Kept(b, c)
    BY <2>1 DEF Kept
  <2> QED BY <1>1, <2>1, <2>2 DEF b, c
<1>6. ASSUME NEW symbol \in Symbols, NEW id, CancelOrder(symbol, id)
      PROVE  Goal
  <2> DEFINE b == books[symbol]
             c == books'[symbol]
  <2>1. CASE books' = books /\ stats' = stats
    BY <1>0, <2>1
  <2>2. CASE ~(books' = books /\ stats' = stats)
    <3>1. /\ stats' = [stats EXCEPT !.total_cancels = @ + 1] /\ OnlyBook(symbol)
          /\ c.next_order_id = b.next_order_id /\ LiveIds(c) \subseteq LiveIds(b)
          /\ \A i \in LiveIds(c) : OrderOf(c, i) = OrderOf(b, i)
      BY <1>6, <2>2, CancelEffect
    <3> HIDE DEF b, c
    <3>2. Kept(b, c)
      BY <3>1 DEF Kept
    <3>3. stats'.total_orders = stats.total_orders /\ stats'.total_rejects = stats.total_rejects
      BY <1>t, <3>1 DEF EngineStats
    <3> QED BY <1>0, <3>1, <3>2, <3>3 DEF OnlyBook, b, c
  <2> QED BY <2>1, <2>2
<1> QED
  BY Zenon, <1>2, <1>3, <1>4, <1>5, <1>6 DEF Proceed

\* EngineInv is an inductive invariant of the engine: every step of every call
\* preserves it.
THEOREM EngineAlwaysSound == Spec => []EngineInv
<1>1. Init => EngineInv
  <2> SUFFICES ASSUME Init PROVE EngineInv
    OBVIOUS
  <2>1. DOMAIN books = {} /\ op = NoOp
    BY DEF Init
  <2>2. stats \in EngineStats
    BY DEF Init, EngineStats
  <2> QED
    BY <2>1, <2>2 DEF EngineInv, TypeOK
<1>2. EngineInv /\ [Next]_vars => EngineInv'
  <2> SUFFICES ASSUME EngineInv, [Next]_vars
               PROVE  EngineInv'
    OBVIOUS
  <2>1. stats \in EngineStats
    BY DEF EngineInv, TypeOK
  <2>2. ASSUME NEW symbol \in Symbols, NEW type \in OrderType, NEW price \in Prices,
               NEW quantity \in Quantities, RejectOrder(symbol, type, price, quantity)
        PROVE  EngineInv'
    <3>1. op = NoOp /\ op' = op /\ books' = get_order_book(symbol) /\ stats' \in EngineStats
      BY SMTT(30), <2>1, <2>2, CountersTyped DEF RejectOrder
    <3> QED BY <3>1, OpenOnlyInv
  <2>3. ASSUME NEW symbol \in Symbols, NEW side \in Side, NEW type \in OrderType,
               NEW price \in Prices, NEW quantity \in Quantities,
               AcceptOrder(symbol, side, type, price, quantity)
        PROVE  EngineInv'
    BY <2>3, AcceptOrderInv
  <2>4. CASE MatchStep
    BY <2>4, MatchStepInv
  <2>5. CASE MatchDone
    BY SMTT(30), <2>5, MatchDoneInv
  <2>6. CASE ReportTrade
    BY <2>6, ReportTradeInv
  <2>7. CASE Finish
    BY <2>7, FinishInv
  <2>8. ASSUME NEW symbol \in Symbols, NEW id \in 1..MaxOrders, CancelOrder(symbol, id)
        PROVE  EngineInv'
    BY <2>8, CancelOrderStepInv
  <2>9. ASSUME NEW symbol \in Symbols, GetOrderBook(symbol)
        PROVE  EngineInv'
    <3>1. op = NoOp /\ op' = op /\ books' = get_order_book(symbol) /\ stats' \in EngineStats
      BY SMTT(30), <2>1, <2>9 DEF GetOrderBook
    <3> QED BY <3>1, OpenOnlyInv
  <2>10. CASE UNCHANGED vars
    BY Zenon, <2>10 DEF vars, EngineInv, TypeOK, CallOK
  <2> QED
    BY SMTT(30), <2>2, <2>3, <2>4, <2>5, <2>6, <2>7, <2>8, <2>9, <2>10 DEF Next, Proceed
<1> QED
  BY <1>1, <1>2, PTL DEF Spec
=============================================================================
