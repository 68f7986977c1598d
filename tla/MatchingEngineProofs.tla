------------------------ MODULE MatchingEngineProofs ------------------------
(***************************************************************************)
(* The safety properties of MatchingEngine, for every set of symbols,      *)
(* prices and quantities, every pool size and any number of calls, and     *)
(* that it implements PriceTimePriority: each of its steps is a step of    *)
(* the abstract market or leaves the market as it is.                      *)
(***************************************************************************)
EXTENDS EngineLemmas

(***************************************************************************)
(* The theorems.                                                           *)
(***************************************************************************)

\* The engine's state is well typed.
THEOREM EngineTypeCorrect == Spec => []TypeOK
<1>1. EngineInv => TypeOK
  BY DEF EngineInv
<1> QED
  BY <1>1, EngineAlwaysSound, PTL

\* Levels, index and pool of every book agree at every step of the match loop.
THEOREM BooksAlwaysSound == Spec => []BooksSound
<1>1. EngineInv => BooksSound
  <2> SUFFICES ASSUME EngineInv, NEW symbol \in DOMAIN books
               PROVE  BookInv(books[symbol])
    BY DEF BooksSound
  <2>1. CASE op = NoOp \/ symbol # op.symbol
    BY SMTT(30), <2>1 DEF EngineInv, BookOK
  <2>2. CASE op # NoOp /\ symbol = op.symbol
    BY SMTT(30), <2>2 DEF EngineInv, CallOK, BookOK
  <2> QED BY <2>1, <2>2
<1> QED
  BY <1>1, EngineAlwaysSound, PTL

\* The pointer submit_order holds is that of a live order until the call ends.
THEOREM IncomingAlwaysLive == Spec => []IncomingStaysLive
<1>1. EngineInv => IncomingStaysLive
  BY Zenon DEF EngineInv, CallOK, IncomingStaysLive
<1> QED
  BY <1>1, EngineAlwaysSound, PTL

\* The resting orders of a book are good, whether or not a call works on it.
LEMMA RestingOK ==
  ASSUME EngineInv, NEW symbol \in DOMAIN books
  PROVE  \E inc : /\ BookOK(books[symbol], inc)
                  /\ RestingIds(symbol) \subseteq LiveIds(books[symbol]) \ inc
<1>1. CASE op = NoOp \/ symbol # op.symbol
  <2>1. BookOK(books[symbol], {})
    BY <1>1 DEF EngineInv
  <2>2. RestingIds(symbol) \subseteq LiveIds(books[symbol]) \ {}
    BY DEF RestingIds
  <2> QED BY <2>1, <2>2
<1>2. CASE op # NoOp /\ symbol = op.symbol
  <2>1. PICK id \in LiveIds(books[symbol]) :
          PtrOf(books[symbol], id) = op.order /\ BookOK(books[symbol], {id})
    BY Zenon, <1>2 DEF EngineInv, CallOK
  <2>2. RestingIds(symbol) \subseteq LiveIds(books[symbol]) \ {id}
    BY <1>2, <2>1 DEF RestingIds
  <2> QED BY SMTT(30), <2>1, <2>2
<1> QED
  BY <1>1, <1>2

\* No resting buy is priced at or above a resting sell: the match loop leaves
\* nothing behind that could trade.
THEOREM RestingAlwaysUncrossed == Spec => []RestingUncrossed
<1>1. EngineInv => RestingUncrossed
  <2> SUFFICES ASSUME EngineInv, NEW symbol \in DOMAIN books,
                      NEW i \in RestingIds(symbol), NEW j \in RestingIds(symbol),
                      OrderOf(books[symbol], i).side = "Buy",
                      OrderOf(books[symbol], j).side = "Sell"
               PROVE  OrderOf(books[symbol], i).price < OrderOf(books[symbol], j).price
    BY DEF RestingUncrossed
  <2>1. PICK inc : /\ BookOK(books[symbol], inc)
                   /\ RestingIds(symbol) \subseteq LiveIds(books[symbol]) \ inc
    BY SMTT(30), RestingOK
  <2> QED BY <2>1 DEF BookOK
<1> QED
  BY <1>1, EngineAlwaysSound, PTL

\* Only unfilled limit orders at positive prices rest on a book.
THEOREM OnlyLimitsEverRest == Spec => []OnlyLimitsRest
<1>1. EngineInv => OnlyLimitsRest
  <2> SUFFICES ASSUME EngineInv, NEW symbol \in DOMAIN books, NEW id \in RestingIds(symbol)
               PROVE  LET order == OrderOf(books[symbol], id)
                      IN  /\ order.type = "Limit"
                          /\ order.price > 0
                          /\ order.remaining_qty \in 1..order.quantity
    BY DEF OnlyLimitsRest
  <2>1. PICK inc : /\ BookOK(books[symbol], inc)
                   /\ RestingIds(symbol) \subseteq LiveIds(books[symbol]) \ inc
    BY RestingOK
  <2>2. RestsWell(OrderOf(books[symbol], id))
    BY <2>1 DEF BookOK
  <2> QED BY <2>2, EngineAssumption DEF RestsWell
<1> QED
  BY <1>1, EngineAlwaysSound, PTL

\* best_price of a side with levels is the price of a live order there.
LEMMA BestPrice ==
  ASSUME NEW b, BookOK(b, {}), NEW side \in Side, LevelPrices(b, side) # {}
  PROVE  /\ best_price(b, side) \in 1..MaxPrice
         /\ \E id \in LiveIds(b) : /\ OrderOf(b, id).side = side
                                   /\ OrderOf(b, id).price = best_price(b, side)
<1> DEFINE p == best_price(b, side)
<1>1. /\ LevelPrices(b, side) \subseteq 1..MaxPrice
      /\ \E x \in LevelPrices(b, side) : IsBestLevel(b, side, x)
  BY BestLevelExists
<1>2. p \in LevelPrices(b, side)
  BY <1>1 DEF best_price
<1> HIDE DEF p
<1>3. Deref(b, Node(b, side, p, 1)).id \in LiveIds(b)
      /\ OrderOf(b, Deref(b, Node(b, side, p, 1)).id).side = side
      /\ OrderOf(b, Deref(b, Node(b, side, p, 1)).id).price = p
  BY SMTT(30), <1>2, QueueFront DEF BookOK
<1> QED
  BY SMTT(30), <1>1, <1>2, <1>3 DEF p

\* spread() is positive between calls when both sides are quoted.
THEOREM SpreadAlwaysPositive == Spec => []SpreadPositive
<1>1. EngineInv => SpreadPositive
  <2> SUFFICES ASSUME EngineInv, op = NoOp, NEW symbol \in DOMAIN books,
                      LevelPrices(books[symbol], "Buy") # {},
                      LevelPrices(books[symbol], "Sell") # {}
               PROVE  spread(books[symbol]) > 0
    BY DEF SpreadPositive
  <2> DEFINE b == books[symbol]
             bid == best_price(b, "Buy")
             ask == best_price(b, "Sell")
  <2>1. BookOK(b, {})
    BY DEF EngineInv
  <2> HIDE DEF b
  <2>2. "Buy" \in Side /\ "Sell" \in Side /\ LevelPrices(b, "Buy") # {}
        /\ LevelPrices(b, "Sell") # {}
    BY DEF Side, b
  <2>3. bid \in 1..MaxPrice /\ ask \in 1..MaxPrice
    BY SMTT(30), <2>1, <2>2, BestPrice
  <2>4. PICK i \in LiveIds(b) : OrderOf(b, i).side = "Buy" /\ OrderOf(b, i).price = bid
    BY SMTT(30), <2>1, <2>2, BestPrice
  <2>5. PICK j \in LiveIds(b) : OrderOf(b, j).side = "Sell" /\ OrderOf(b, j).price = ask
    BY SMTT(30), <2>1, <2>2, BestPrice
  <2>6. bid < ask
    BY SMTT(30), <2>1, <2>4, <2>5 DEF BookOK
  <2>7. spread(b) = IF bid = 0 \/ ask = 0 THEN 0 ELSE ask - bid
    BY DEF spread
  <2> HIDE DEF bid, ask
  <2>8. spread(b) > 0
    BY <2>3, <2>6, <2>7, EngineAssumption
  <2> QED BY <2>8 DEF b
<1> QED
  BY <1>1, EngineAlwaysSound, PTL

\* Every submitted order was rejected or was given the next ID of its book: the
\* counters and the IDs handed out, over all books, never drift apart.
THEOREM OrdersAlwaysAccounted == Spec => []OrdersAccounted
<1> DEFINE Given(bs) == [s \in DOMAIN bs |-> bs[s].next_order_id - 1]
           Inv == /\ IsFiniteSet(DOMAIN books)
                  /\ stats.total_orders = stats.total_rejects + SumOver(Given(books), DOMAIN books)
<1>1. Init => Inv
  <2> SUFFICES ASSUME Init PROVE Inv
    OBVIOUS
  <2>1. DOMAIN books = {} /\ stats.total_orders = 0 /\ stats.total_rejects = 0
    BY DEF Init
  <2>2. IsFiniteSet({}) /\ SumOver(Given(books), {}) = 0
    BY FS_EmptySet, SumUnfolds
  <2> QED BY <2>1, <2>2
<1>2. ASSUME EngineInv, Inv, [Next]_vars
      PROVE  Inv'
  <2> DEFINE f == Given(books)
             D == DOMAIN books
  <2>1. /\ stats \in EngineStats /\ DOMAIN books \subseteq Symbols
        /\ \A s \in D : books[s].next_order_id \in Nat \ {0}
    BY <1>2 DEF EngineInv, TypeOK, BookTypeOK
  <2>2. /\ IsFiniteSet(D) /\ SumOver(f, D) \in Int
        /\ stats.total_orders = stats.total_rejects + SumOver(f, D)
    <3>1. \A s \in D : f[s] \in Int
      BY <2>1
    <3> HIDE DEF f, D
    <3>2. IsFiniteSet(D)
      BY <1>2 DEF D
    <3>3. SumOver(f, D) \in Int
      BY <3>1, <3>2, SumType
    <3> QED BY <1>2, <3>2, <3>3 DEF f, D
  <2>3. stats.total_orders \in Nat /\ stats.total_rejects \in Nat
    BY <2>1 DEF EngineStats
  \* A step that hands out n IDs of book symbol, which it may create.
  <2>4. ASSUME NEW symbol, NEW n \in Nat, NEW g,
               DOMAIN g = D \cup {symbol}, \A s \in D : s # symbol => g[s] = f[s],
               g[symbol] = (IF symbol \in D THEN f[symbol] ELSE 0) + n
        PROVE  IsFiniteSet(D \cup {symbol}) /\ SumOver(g, D \cup {symbol}) = SumOver(f, D) + n
    <3>1. IsFiniteSet(D \cup {symbol})
      BY <2>2, FS_AddElement
    <3>2. \A s \in D : f[s] \in Int
      BY <2>1
    <3> HIDE DEF f, D
    <3>3. CASE symbol \in D
      <4>1. D \cup {symbol} = D /\ g[symbol] = f[symbol] + n /\ g[symbol] \in Int
        BY <2>4, <3>2, <3>3
      <4>2. SumOver(g, D) = SumOver(f, D) + (g[symbol] - f[symbol])
        BY <2>2, <2>4, <3>2, <3>3, <4>1, SumChange
      <4>3. SumOver(g, D) = SumOver(f, D) + n
        BY <2>2, <3>2, <3>3, <4>1, <4>2
      <4> QED BY Zenon, <3>1, <4>1, <4>3
    <3>4. CASE symbol \notin D
      <4>1. g[symbol] = n /\ g[symbol] \in Int
        BY <2>4, <3>4
      <4>2. SumOver(g, D) = SumOver(f, D)
        <5>1. \A s \in D : f[s] = g[s]
          BY <2>4, <3>4
        <5> QED BY <2>2, <3>2, <5>1, SumSame
      <4>3. SumOver(g, D \cup {symbol}) = g[symbol] + SumOver(g, D)
        <5>1. \A s \in D : g[s] \in Int
          BY <2>4, <3>2, <3>4
        <5> QED BY <2>2, <3>4, <4>1, <5>1, SumAdd
      <4> QED BY <2>2, <3>1, <4>1, <4>2, <4>3
    <3> QED BY <3>3, <3>4
  <2>5. ASSUME NEW symbol \in Symbols, books' = get_order_book(symbol), op = NoOp,
               stats'.total_orders - stats'.total_rejects = stats.total_orders - stats.total_rejects,
               stats' \in EngineStats
        PROVE  Inv'
    <3> DEFINE g == Given(books')
    <3>1. /\ DOMAIN books' = D \cup {symbol} /\ \A s \in D : books'[s] = books[s]
          /\ symbol \notin D => books'[symbol].next_order_id = 1
      BY Zenon, <2>5, OpenEffect
    <3>2. /\ DOMAIN g = D \cup {symbol} /\ \A s \in D : s # symbol => g[s] = f[s]
          /\ g[symbol] = (IF symbol \in D THEN f[symbol] ELSE 0) + 0
      BY <2>1, <3>1
    <3>3. IsFiniteSet(D \cup {symbol}) /\ SumOver(g, D \cup {symbol}) = SumOver(f, D) + 0
      <4> HIDE DEF f, g, D
      <4> QED BY <2>4, <3>2
    <3>4. stats'.total_orders \in Nat /\ stats'.total_rejects \in Nat
      BY <2>5 DEF EngineStats
    <3>5. stats'.total_orders = stats'.total_rejects + SumOver(g, D \cup {symbol})
      <4> HIDE DEF f, g, D
      <4> QED BY <2>2, <2>3, <2>5, <3>3, <3>4
    <3> HIDE DEF D
    <3> QED BY <3>1, <3>3, <3>5
  <2>6. ASSUME NEW symbol \in Symbols, NEW type \in OrderType, NEW price \in Prices,
               NEW quantity \in Quantities, RejectOrder(symbol, type, price, quantity)
        PROVE  Inv'
    <3>1. /\ books' = get_order_book(symbol) /\ op = NoOp
          /\ stats' = [stats EXCEPT !.total_orders = @ + 1, !.total_rejects = @ + 1]
      BY <2>6 DEF RejectOrder
    <3>2. stats' \in EngineStats
      BY <2>1, <3>1, CountersTyped
    <3>3. /\ stats'.total_orders = stats.total_orders + 1
          /\ stats'.total_rejects = stats.total_rejects + 1
      BY <2>1, <3>1 DEF EngineStats
    <3>4. stats'.total_orders - stats'.total_rejects = stats.total_orders - stats.total_rejects
      BY <2>3, <3>3
    <3> QED BY <2>5, <3>1, <3>2, <3>4
  <2>7. ASSUME NEW symbol \in Symbols, NEW side \in Side, NEW type \in OrderType,
               NEW price \in Prices, NEW quantity \in Quantities,
               AcceptOrder(symbol, side, type, price, quantity)
        PROVE  Inv'
    <3> DEFINE g == Given(books')
               b == get_order_book(symbol)[symbol]
    <3>1. /\ DOMAIN books' = D \cup {symbol} /\ \A s \in D : s # symbol => books'[s] = books[s]
          /\ books'[symbol].next_order_id = b.next_order_id + 1
          /\ b.next_order_id \in Nat \ {0}
          /\ stats' = [stats EXCEPT !.total_orders = @ + 1]
      <4>1. Accepted(symbol, side, type, price, quantity)
        BY <1>2, <2>7, AcceptEffect
      <4> QED BY <4>1 DEF Accepted
    <3>2. IF symbol \in D THEN b = books[symbol] ELSE b.next_order_id = 1
      BY Zenon, OpenEffect
    <3> HIDE DEF b
    <3>3. /\ DOMAIN g = D \cup {symbol} /\ \A s \in D : s # symbol => g[s] = f[s]
          /\ g[symbol] = (IF symbol \in D THEN f[symbol] ELSE 0) + 1
      BY <2>1, <3>1, <3>2
    <3>4. IsFiniteSet(D \cup {symbol}) /\ SumOver(g, D \cup {symbol}) = SumOver(f, D) + 1
      <4> HIDE DEF f, g, D
      <4> QED BY Zenon, <2>4, <3>3
    <3>5. /\ stats'.total_orders = stats.total_orders + 1
          /\ stats'.total_rejects = stats.total_rejects
      BY <2>1, <3>1 DEF EngineStats
    <3>6. stats'.total_orders = stats'.total_rejects + SumOver(g, D \cup {symbol})
      <4> HIDE DEF f, g, D
      <4> QED BY <2>2, <2>3, <3>4, <3>5
    <3> HIDE DEF D
    <3> QED BY <3>1, <3>4, <3>6
  <2>8. ASSUME DOMAIN books' = DOMAIN books,
               \A s \in DOMAIN books : books'[s].next_order_id = books[s].next_order_id,
               stats'.total_orders = stats.total_orders,
               stats'.total_rejects = stats.total_rejects
        PROVE  Inv'
    <3>1. Given(books') = f
      BY <2>8
    <3> QED BY <1>2, <2>8, <3>1
  <2>9. CASE Proceed \/ \E symbol \in Symbols, id \in 1..MaxOrders : CancelOrder(symbol, id)
    <3>1. /\ DOMAIN books' = DOMAIN books
          /\ \A s \in DOMAIN books : Kept(books[s], books'[s])
          /\ stats'.total_orders = stats.total_orders
          /\ stats'.total_rejects = stats.total_rejects
      BY <1>2, <2>9, StepKeeps
    <3> QED BY <2>8, <3>1 DEF Kept
  <2>10. ASSUME NEW symbol \in Symbols, GetOrderBook(symbol)
         PROVE  Inv'
    BY <2>1, <2>5, <2>10 DEF GetOrderBook
  <2>11. CASE UNCHANGED vars
    BY <2>8, <2>11 DEF vars
  <2> HIDE DEF Inv
  <2> QED BY Zenon, <1>2, <2>6, <2>7, <2>9, <2>10, <2>11 DEF Next
<1>3. Inv => OrdersAccounted
  BY DEF OrdersAccounted
<1> QED
  BY <1>1, <1>2, <1>3, EngineAlwaysSound, PTL DEF Spec

-----------------------------------------------------------------------------
(***************************************************************************)
(* The book as the abstract market sees it, and the refinement mapping of  *)
(* MatchingEngine as a function of the books and the call in progress.     *)
(***************************************************************************)

\* A live order as the market sees it, and those of a book but for inc.
View(b, i) ==
    [id |-> i, side |-> OrderOf(b, i).side, price |-> OrderOf(b, i).price,
     quantity |-> OrderOf(b, i).remaining_qty]

Views(b, inc) == {View(b, i) : i \in LiveIds(b) \ inc}

-----------------------------------------------------------------------------
(***************************************************************************)
(* What the engine's steps do to the views of a book.                      *)
(***************************************************************************)

\* Two books with the same live orders but for inc and the same fields there
\* look the same.
LEMMA SameViews ==
  ASSUME NEW b, NEW c, NEW inb, NEW inc, LiveIds(b) \ inb = LiveIds(c) \ inc,
         \A i \in LiveIds(b) \ inb : OrderOf(c, i) = OrderOf(b, i)
  PROVE  Views(c, inc) = Views(b, inb)
BY DEF Views, View

\* A fill shrinks the view of the resting order, or takes it away.
LEMMA MatchViews ==
  ASSUME NEW b, BookInv(b), NEW id \in LiveIds(b), NEW r \in LiveIds(b), id # r
  PROVE  LET q == FillQty(OrderOf(b, id), OrderOf(b, r))
             c == RemoveIfFilled(execute_match(b, PtrOf(b, id), PtrOf(b, r)), PtrOf(b, r))
             left == [View(b, r) EXCEPT !.quantity = @ - q]
         IN  Views(c, {id}) = (Views(b, {id}) \ {View(b, r)})
                                  \cup {o \in {left} : o.quantity > 0}
<1> DEFINE x == OrderOf(b, id)
           y == OrderOf(b, r)
           q == FillQty(x, y)
           c == RemoveIfFilled(execute_match(b, PtrOf(b, id), PtrOf(b, r)), PtrOf(b, r))
           left == [View(b, r) EXCEPT !.quantity = @ - q]
<1>1. x \in Order /\ y \in Order
  BY LiveOrder
<1>2. q \in Nat /\ q =< y.remaining_qty /\ y.remaining_qty \in Nat
  BY <1>1, FillQtyBounds
<1>3. /\ LiveIds(c) = IF y.remaining_qty - q = 0 THEN LiveIds(b) \ {r} ELSE LiveIds(b)
      /\ \A i \in LiveIds(c) : OrderOf(c, i) = IF i = id THEN Fill(x, q)
                                               ELSE IF i = r THEN Fill(y, q)
                                               ELSE OrderOf(b, i)
  BY MatchLive
<1>4. /\ Fill(y, q).side = y.side /\ Fill(y, q).price = y.price
      /\ Fill(y, q).remaining_qty = y.remaining_qty - q
  BY <1>1, <1>2, FillOrder
<1>5. left = [id |-> r, side |-> y.side, price |-> y.price, quantity |-> y.remaining_qty - q]
      /\ left.quantity = y.remaining_qty - q
  BY DEF View
<1> HIDE DEF x, y, q, c, left
<1>6. \A i \in LiveIds(c) \ {id, r} : View(c, i) = View(b, i)
  BY <1>3 DEF View
<1>7. r \in LiveIds(c) => View(c, r) = left
  BY SMTT(30), <1>3, <1>4, <1>5 DEF View
<1>8. \A i : View(b, i) = View(b, r) => i = r
  BY DEF View
<1>9. Views(b, {id}) \ {View(b, r)} = {View(b, i) : i \in LiveIds(b) \ {id, r}}
  BY <1>8 DEF Views
<1>10. CASE y.remaining_qty - q = 0
  <2>1. {o \in {left} : o.quantity > 0} = {}
    BY <1>5, <1>10
  <2>2. LiveIds(c) \ {id} = LiveIds(b) \ {id, r}
    BY <1>3, <1>10
  <2>3. Views(c, {id}) = {View(b, i) : i \in LiveIds(b) \ {id, r}}
    BY <1>6, <2>2 DEF Views
  <2> QED BY SMTT(30), <1>9, <2>1, <2>3 DEF left, c, q, x, y
<1>11. CASE y.remaining_qty - q # 0
  <2>1. {o \in {left} : o.quantity > 0} = {left}
    BY <1>2, <1>5, <1>11
  <2>2. LiveIds(c) = LiveIds(b)
    BY <1>3, <1>11
  <2>3. Views(c, {id}) = {View(b, i) : i \in LiveIds(b) \ {id, r}} \cup {left}
    BY <1>6, <1>7, <2>2 DEF Views
  <2> QED BY <1>9, <2>1, <2>3 DEF left, c, q, x, y
<1> QED
  BY <1>10, <1>11

-----------------------------------------------------------------------------
(***************************************************************************)
(* The refinement mapping in the two kinds of states.                      *)
(***************************************************************************)

\* MarketOpen as a function of the books and the call in progress.
OpenIn(bs, o) ==
    [s \in Symbols |->
        IF s \notin DOMAIN bs
        THEN {}
        ELSE {View(bs[s], i) : i \in {k \in LiveIds(bs[s]) :
                 o # NoOp /\ o.symbol = s => PtrOf(bs[s], k) # o.order}}]

\* The mapping before and after a step.
LEMMA OpenIsOpenIn ==
  MarketOpen = OpenIn(books, op) /\ MarketOpen' = OpenIn(books', op')
BY Zenon DEF MarketOpen, OpenOrders, RestingIds, OpenIn, View

\* Between calls all live orders are open.
LEMMA IdleOpen ==
  ASSUME NEW bs
  PROVE  OpenIn(bs, NoOp) =
            [s \in Symbols |-> IF s \in DOMAIN bs THEN Views(bs[s], {}) ELSE {}]
<1>1. ASSUME NEW s PROVE {k \in LiveIds(bs[s]) :
                 NoOp # NoOp /\ NoOp.symbol = s => PtrOf(bs[s], k) # NoOp.order}
                = LiveIds(bs[s]) \ {}
  OBVIOUS
<1> QED
  BY <1>1 DEF OpenIn, Views

\* During a call all but its own order are open.
LEMMA BusyOpen ==
  ASSUME NEW bs, NEW o, o # NoOp, o.symbol \in DOMAIN bs, BookInv(bs[o.symbol]),
         NEW id \in LiveIds(bs[o.symbol]), PtrOf(bs[o.symbol], id) = o.order
  PROVE  OpenIn(bs, o) =
            [s \in Symbols |-> IF s \in DOMAIN bs
                               THEN Views(bs[s], IF s = o.symbol THEN {id} ELSE {}) ELSE {}]
<1> DEFINE Rest(s) == {k \in LiveIds(bs[s]) :
                          o # NoOp /\ o.symbol = s => PtrOf(bs[s], k) # o.order}
<1>1. \A i \in LiveIds(bs[o.symbol]) : PtrOf(bs[o.symbol], i) = o.order => i = id
  BY LiveSlots
<1>2. ASSUME NEW s
      PROVE  Rest(s) = LiveIds(bs[s]) \ (IF s = o.symbol THEN {id} ELSE {})
  BY <1>1
<1>3. OpenIn(bs, o) = [s \in Symbols |-> IF s \notin DOMAIN bs THEN {}
                                         ELSE {View(bs[s], i) : i \in Rest(s)}]
  BY DEF OpenIn
<1> HIDE DEF Rest
<1> QED
  BY <1>2, <1>3 DEF Views

\* The incoming order of the market when it is order x of the engine.
Incoming(symbol, x) ==
    [symbol |-> symbol, id |-> x.id, side |-> x.side, price |-> x.price,
     quantity |-> x.remaining_qty, rests |-> x.type = "Limit"]

\* Its fields; it is not the record that stands for no order.
LEMMA IncomingFields ==
  ASSUME NEW symbol, NEW x
  PROVE  LET o == Incoming(symbol, x)
         IN  /\ o # [symbol |-> "none"]
             /\ o.symbol = symbol /\ o.id = x.id /\ o.side = x.side /\ o.price = x.price
             /\ o.quantity = x.remaining_qty /\ o.rests = (x.type = "Limit")
<1>1. DOMAIN Incoming(symbol, x) # DOMAIN [symbol |-> "none"]
  <2>1. "id" \in DOMAIN Incoming(symbol, x)
    BY DEF Incoming
  <2>2. "id" \notin DOMAIN [symbol |-> "none"]
    OBVIOUS
  <2> QED BY <2>1, <2>2
<1>2. Incoming(symbol, x) # [symbol |-> "none"]
  BY Zenon, <1>1
<1> QED
  BY <1>2 DEF Incoming

\* The mapping of the rest of the state before and after a step.
LEMMA CallMarket ==
  /\ op = NoOp => MarketIncoming = [symbol |-> "none"] /\ MarketPending = << >>
  /\ op' = NoOp => MarketIncoming' = [symbol |-> "none"] /\ MarketPending' = << >>
  /\ op # NoOp => /\ MarketIncoming = Incoming(op.symbol, Deref(books[op.symbol], op.order))
                  /\ MarketPending = op.trades
  /\ op' # NoOp =>
        /\ MarketIncoming' = Incoming(op'.symbol, Deref(books'[op'.symbol], op'.order))
        /\ MarketPending' = op'.trades
BY Zenon DEF MarketIncoming, MarketPending, IncomingOrder, Incoming

-----------------------------------------------------------------------------
(***************************************************************************)
(* One lemma for each action of the engine.                                *)
(***************************************************************************)

\* A book just created has no orders and starts counting where the market does.
LEMMA NewBookViews == Views(NewBook, {}) = {} /\ NewBook.next_order_id = 1
<1>1. LiveIds(NewBook) = {} /\ NewBook.next_order_id = 1
  BY DEF NewBook, LiveIds
<1> QED
  BY <1>1 DEF Views

\* The market before and after a book is opened is the same.
LEMMA OpenedMarket ==
  ASSUME NEW symbol \in Symbols
  PROVE  LET opened == get_order_book(symbol)
         IN  /\ \A s \in Symbols :
                   (IF s \in DOMAIN opened THEN Views(opened[s], {}) ELSE {})
                   = (IF s \in DOMAIN books THEN Views(books[s], {}) ELSE {})
             /\ \A s \in Symbols :
                   (IF s \in DOMAIN opened THEN opened[s].next_order_id ELSE 1)
                   = (IF s \in DOMAIN books THEN books[s].next_order_id ELSE 1)
BY NewBookViews DEF get_order_book

\* RejectOrder and GetOrderBook leave the market as it is.
LEMMA OpenOnlyStutters ==
  ASSUME op = NoOp, op' = op, NEW symbol \in Symbols, books' = get_order_book(symbol)
  PROVE  UNCHANGED Market!market
<1>1. MarketOpen' = MarketOpen
  <2>1. MarketOpen = [s \in Symbols |-> IF s \in DOMAIN books THEN Views(books[s], {}) ELSE {}]
    BY OpenIsOpenIn, IdleOpen
  <2>2. MarketOpen' = [s \in Symbols |-> IF s \in DOMAIN books' THEN Views(books'[s], {})
                                                                ELSE {}]
    BY OpenIsOpenIn, IdleOpen
  <2>3. \A s \in Symbols : (IF s \in DOMAIN books' THEN Views(books'[s], {}) ELSE {})
                           = (IF s \in DOMAIN books THEN Views(books[s], {}) ELSE {})
    BY OpenedMarket
  <2> QED BY <2>1, <2>2, <2>3
<1>2. MarketNext' = MarketNext
  BY OpenedMarket DEF MarketNext
<1>3. MarketIncoming' = MarketIncoming /\ MarketPending' = MarketPending
  BY CallMarket
<1> QED
  BY SMTT(30), <1>1, <1>2, <1>3 DEF Market!market

\* A delivery.
LEMMA ReportTradeDelivers ==
  ASSUME EngineInv, ReportTrade
  PROVE  Market!Deliver
<1>1. /\ op.phase = "report" /\ op.trades # << >>
      /\ op' = [op EXCEPT !.trades = Tail(@)]
      /\ books' = books
  BY DEF ReportTrade
<1>2. op # NoOp
  BY <1>1 DEF NoOp
<1>3. op \in OpRecord
  BY <1>2, InCall
<1>4. op'.symbol = op.symbol /\ op'.order = op.order /\ op'.trades = Tail(op.trades)
      /\ op'.phase = op.phase
  BY <1>1, <1>3 DEF OpRecord
<1>5. op' # NoOp
  BY <1>1, <1>4 DEF NoOp
<1>6. MarketOpen' = MarketOpen
  BY Zenon, <1>1, <1>2, <1>4, <1>5, OpenIsOpenIn DEF OpenIn
<1>7. MarketNext' = MarketNext
  BY <1>1 DEF MarketNext
<1>8. MarketIncoming' = MarketIncoming /\ MarketPending = op.trades
      /\ MarketPending' = Tail(op.trades)
  BY SMTT(30), <1>1, <1>2, <1>4, <1>5, CallMarket
<1> QED
  BY SMTT(30), <1>1, <1>6, <1>7, <1>8 DEF Market!Deliver

\* A cancel takes an open order away, or finds none.
LEMMA CancelOrderCancels ==
  ASSUME EngineInv, NEW symbol \in Symbols, NEW id, CancelOrder(symbol, id)
  PROVE  Market!Cancel(symbol) \/ UNCHANGED Market!market
<1>1. op = NoOp /\ op' = NoOp
  BY DEF CancelOrder
<1>2. MarketIncoming = [symbol |-> "none"] /\ MarketIncoming' = MarketIncoming
      /\ MarketPending' = MarketPending
  BY <1>1, CallMarket
<1>3. CASE ~(symbol \in DOMAIN books /\ id \in LiveIds(books[symbol]))
  <2>1. books' = books
    BY <1>3 DEF CancelOrder
  <2>2. MarketOpen' = MarketOpen /\ MarketNext' = MarketNext
    BY SMTT(30), <1>1, <2>1, OpenIsOpenIn DEF MarketNext
  <2> QED BY <1>2, <2>2 DEF Market!market
<1>4. CASE symbol \in DOMAIN books /\ id \in LiveIds(books[symbol])
  <2> DEFINE b == books[symbol]
             c == cancel_order(b, id)
  <2>1. books' = [books EXCEPT ![symbol] = c]
    BY <1>4 DEF CancelOrder
  <2>2. BookInv(b)
    BY <1>1, <1>4 DEF EngineInv, BookOK
  <2>3. /\ LiveIds(c) = LiveIds(b) \ {id}
        /\ \A i \in LiveIds(c) : OrderOf(c, i) = OrderOf(b, i)
        /\ c.next_order_id = b.next_order_id
    BY SMTT(30), <1>4, <2>2, CancelLive
  <2> HIDE DEF c
  <2>4. Views(c, {}) = Views(b, {}) \ {View(b, id)} /\ View(b, id) \in Views(b, {})
    <3>1. \A i : View(b, i) = View(b, id) => i = id
      BY DEF View
    <3>2. \A i \in LiveIds(c) : View(c, i) = View(b, i)
      BY <2>3 DEF View
    <3> QED BY SMTT(30), <1>4, <2>3, <3>1, <3>2 DEF Views
  <2>5. DOMAIN books' = DOMAIN books /\ books'[symbol] = c
        /\ \A s \in DOMAIN books : s # symbol => books'[s] = books[s]
    BY <1>4, <2>1
  <2>6. MarketOpen = [s \in Symbols |-> IF s \in DOMAIN books THEN Views(books[s], {}) ELSE {}]
    BY SMTT(30), <1>1, OpenIsOpenIn, IdleOpen
  <2>7. MarketOpen' = [s \in Symbols |-> IF s \in DOMAIN books' THEN Views(books'[s], {})
                                                                ELSE {}]
    BY SMTT(30), <1>1, OpenIsOpenIn, IdleOpen
  <2>8. MarketOpen[symbol] = Views(b, {})
    BY <1>4, <2>6
  <2>9. MarketOpen' = [MarketOpen EXCEPT ![symbol] = MarketOpen[symbol] \ {View(b, id)}]
    BY Zenon, <1>4, <2>4, <2>5, <2>6, <2>7, <2>8
  <2>10. MarketNext' = MarketNext
    BY <1>4, <2>3, <2>5 DEF MarketNext
  <2> QED
    BY Zenon, <1>2, <2>4, <2>8, <2>9, <2>10 DEF Market!Cancel, Market!NoOrder
<1> QED
  BY <1>3, <1>4

\* What a call in progress is, for the lemmas below.
LEMMA CallFacts ==
  ASSUME EngineInv, op # NoOp
  PROVE  /\ op \in OpRecord
         /\ op.symbol \in DOMAIN books /\ op.symbol \in Symbols
         /\ \E id \in LiveIds(books[op.symbol]) :
               /\ PtrOf(books[op.symbol], id) = op.order
               /\ BookInv(books[op.symbol])
               /\ Deref(books[op.symbol], op.order) = OrderOf(books[op.symbol], id)
               /\ op.phase = "report" => Settled(books[op.symbol], id)
<1>1. op \in OpRecord /\ op.symbol \in DOMAIN books
  BY InCall
<1>2. op.symbol \in Symbols
  BY <1>1, BusyOp
<1>3. PICK id \in LiveIds(books[op.symbol]) :
        /\ PtrOf(books[op.symbol], id) = op.order
        /\ BookOK(books[op.symbol], {id})
        /\ op.phase = "report" => Settled(books[op.symbol], id)
  BY Zenon, InCall
<1>4. BookInv(books[op.symbol])
      /\ Deref(books[op.symbol], op.order) = OrderOf(books[op.symbol], id)
  BY <1>3 DEF BookOK, OrderOf
<1> QED
  BY Zenon, <1>1, <1>2, <1>3, <1>4

\* The exit of the match loop leaves the market as it is.
LEMMA MatchDoneStutters ==
  ASSUME EngineInv, MatchDone
  PROVE  UNCHANGED Market!market
<1> DEFINE b == books[op.symbol]
           x == Deref(b, op.order)
           f == [x EXCEPT !.status = MatchedStatus(x)]
           c == WriteOrder(b, op.order, f)
<1>1. /\ op.phase = "match"
      /\ books' = [books EXCEPT ![op.symbol] = c]
      /\ op' = [op EXCEPT !.phase = "report"]
  BY DEF MatchDone
<1>2. op # NoOp
  BY <1>1 DEF NoOp
<1>3. op \in OpRecord /\ op.symbol \in DOMAIN books /\ op.symbol \in Symbols
  BY <1>2, CallFacts
<1>4. PICK id \in LiveIds(b) : PtrOf(b, id) = op.order /\ BookInv(b) /\ x = OrderOf(b, id)
  BY <1>2, CallFacts
<1> HIDE DEF b
<1>5. x \in Order
  BY <1>4, LiveOrder
<1>6. MatchedStatus(x) \in OrderStatus
  <2>1. x.status \in OrderStatus /\ x.quantity - x.remaining_qty \in Int
    BY <1>5 DEF Order
  <2> HIDE DEF x
  <2> QED BY <2>1 DEF MatchedStatus, OrderStatus, filled_qty, is_filled
<1> HIDE DEF x
<1>7. /\ f \in Order /\ f.id = x.id /\ f.side = x.side /\ f.price = x.price
      /\ f.type = x.type /\ f.remaining_qty = x.remaining_qty
  BY SMTT(30), <1>5, <1>6, StatusOrder
<1> HIDE DEF f
<1>8. /\ BookInv(c) /\ LiveIds(c) = LiveIds(b) /\ c.next_order_id = b.next_order_id
      /\ \A i \in LiveIds(b) : /\ PtrOf(c, i) = PtrOf(b, i)
                               /\ OrderOf(c, i) = IF i = id THEN f ELSE OrderOf(b, i)
  BY <1>4, <1>7, WriteLive
<1> HIDE DEF c
<1>9. op'.symbol = op.symbol /\ op'.order = op.order /\ op'.trades = op.trades
      /\ op'.phase = "report"
  BY <1>1, <1>3 DEF OpRecord
<1>10. op' # NoOp
  BY <1>9 DEF NoOp
<1>11. DOMAIN books' = DOMAIN books /\ books'[op.symbol] = c
       /\ \A s \in DOMAIN books : s # op.symbol => books'[s] = books[s]
  BY <1>1, <1>3
<1>12. MarketOpen' = MarketOpen
  <2>1. Views(c, {id}) = Views(b, {id})
    BY <1>8, SameViews
  <2>2. MarketOpen = [s \in Symbols |->
           IF s \in DOMAIN books
           THEN Views(books[s], IF s = op.symbol THEN {id} ELSE {}) ELSE {}]
    BY SMTT(30), <1>2, <1>3, <1>4, OpenIsOpenIn, BusyOpen DEF b
  <2>3. MarketOpen' = [s \in Symbols |->
           IF s \in DOMAIN books'
           THEN Views(books'[s], IF s = op.symbol THEN {id} ELSE {}) ELSE {}]
    BY SMTT(30), <1>3, <1>4, <1>8, <1>9, <1>10, <1>11, OpenIsOpenIn, BusyOpen
  <2>4. \A s \in DOMAIN books : Views(books'[s], IF s = op.symbol THEN {id} ELSE {})
                              = Views(books[s], IF s = op.symbol THEN {id} ELSE {})
    BY <1>11, <2>1 DEF b
  <2> QED BY SMTT(30), <1>11, <2>2, <2>3, <2>4
<1>13. MarketNext' = MarketNext
  BY <1>8, <1>11 DEF MarketNext, b
<1>14. MarketIncoming' = MarketIncoming
  <2>1. Deref(c, op.order) = f
    BY SMTT(30), <1>4, <1>8 DEF OrderOf
  <2>2. MarketIncoming = Incoming(op.symbol, x) /\ MarketIncoming' = Incoming(op.symbol, f)
    BY SMTT(30), <1>2, <1>9, <1>10, <1>11, <2>1, CallMarket DEF x, b
  <2> QED BY <1>7, <2>2 DEF Incoming
<1>15. MarketPending' = MarketPending
  BY SMTT(30), <1>2, <1>9, <1>10, CallMarket
<1> QED
  BY SMTT(30), <1>12, <1>13, <1>14, <1>15 DEF Market!market

\* The end of a call: nothing is left to trade, and a limit remainder is open
\* from now on.
LEMMA FinishSettles ==
  ASSUME EngineInv, Finish
  PROVE  Market!Settle
<1> DEFINE b == books[op.symbol]
           x == Deref(b, op.order)
           c == AfterMatch(b, op.order)
<1>1. /\ op.phase = "report" /\ op.trades = << >>
      /\ books' = [books EXCEPT ![op.symbol] = c]
      /\ op' = NoOp
  BY DEF Finish
<1>2. op # NoOp
  BY <1>1 DEF NoOp
<1>3. op.symbol \in DOMAIN books /\ op.symbol \in Symbols
  BY SMTT(30), <1>2, CallFacts
<1>4. PICK id \in LiveIds(b) : /\ PtrOf(b, id) = op.order /\ BookInv(b)
                               /\ x = OrderOf(b, id) /\ Settled(b, id)
  BY SMTT(30), <1>1, <1>2, CallFacts
<1>5. MarketOpen = [s \in Symbols |->
         IF s \in DOMAIN books
         THEN Views(books[s], IF s = op.symbol THEN {id} ELSE {}) ELSE {}]
  BY SMTT(30), <1>2, <1>3, <1>4, OpenIsOpenIn, BusyOpen
<1>6. MarketOpen[op.symbol] = Views(b, {id})
  BY SMTT(30), <1>3, <1>5
<1>7. MarketIncoming = Incoming(op.symbol, x) /\ MarketPending = << >>
      /\ MarketIncoming' = [symbol |-> "none"] /\ MarketPending' = << >>
  BY SMTT(30), <1>1, <1>2, CallMarket
<1> HIDE DEF b
<1>8. x \in Order /\ x.id = id
  BY <1>4, LiveOrder
<1>9. x.remaining_qty \in Nat /\ x.side \in Side /\ x.price \in Int
  BY <1>8 DEF Order
<1>10. /\ LiveIds(c) = IF ~is_filled(x) /\ x.type = "Limit" THEN LiveIds(b)
                       ELSE LiveIds(b) \ {id}
       /\ \A i \in LiveIds(c) : OrderOf(c, i) = OrderOf(b, i)
       /\ c.next_order_id = b.next_order_id
  <2> HIDE DEF x
  <2> QED BY <1>4, FinishLive
<1> HIDE DEF c, x
<1> DEFINE I == Incoming(op.symbol, x)
           new == [id |-> I.id, side |-> I.side, price |-> I.price, quantity |-> I.quantity]
<1>11. /\ I # [symbol |-> "none"] /\ I.symbol = op.symbol /\ I.id = id /\ I.side = x.side
       /\ I.price = x.price /\ I.quantity = x.remaining_qty /\ I.rests = (x.type = "Limit")
  BY <1>8, IncomingFields
<1> HIDE DEF I
<1>12. Views(c, {}) = Views(b, {id}) \cup {o \in {new} : I.rests /\ o.quantity > 0}
  <2>1. new = View(b, id) /\ new.quantity = x.remaining_qty
    BY SMTT(30), <1>4, <1>11 DEF View
  <2>2. CASE ~is_filled(x) /\ x.type = "Limit"
    <3>1. {o \in {new} : I.rests /\ o.quantity > 0} = {View(b, id)}
      <4>1. new.quantity > 0
        BY SMTT(30), <1>9, <2>1, <2>2 DEF is_filled
      <4>2. I.rests
        BY Zenon, <1>11, <2>2
      <4> HIDE DEF new
      <4> QED BY Zenon, <2>1, <4>1, <4>2
    <3>2. LiveIds(c) = LiveIds(b)
      BY <1>10, <2>2
    <3>3. \A i \in LiveIds(b) : View(c, i) = View(b, i)
      BY <1>10, <3>2 DEF View
    <3> QED BY SMTT(30), <1>4, <3>1, <3>2, <3>3 DEF Views
  <2>3. CASE ~(~is_filled(x) /\ x.type = "Limit")
    <3>1. {o \in {new} : I.rests /\ o.quantity > 0} = {}
      <4>1. x.remaining_qty = 0 => ~(new.quantity > 0)
        BY <2>1
      <4>2. x.type # "Limit" => ~I.rests
        BY Zenon, <1>11
      <4> HIDE DEF new
      <4> QED BY Zenon, <2>3, <4>1, <4>2 DEF is_filled
    <3>2. LiveIds(c) = LiveIds(b) \ {id}
      BY <1>10, <2>3
    <3>3. Views(c, {}) = Views(b, {id})
      BY SMTT(30), <1>10, <3>2, SameViews
    <3> QED BY <3>1, <3>3
  <2> QED BY SMTT(30), <2>2, <2>3
<1>13. DOMAIN books' = DOMAIN books /\ books'[op.symbol] = c
       /\ \A s \in DOMAIN books : s # op.symbol => books'[s] = books[s]
  BY <1>1, <1>3
<1>14. MarketOpen' = [MarketOpen EXCEPT ![op.symbol] = MarketOpen[op.symbol] \cup
                          {o \in {new} : I.rests /\ o.quantity > 0}]
  <2>1. MarketOpen' = [s \in Symbols |-> IF s \in DOMAIN books' THEN Views(books'[s], {})
                                                                ELSE {}]
    BY ZenonT(30), <1>1, OpenIsOpenIn, IdleOpen
  <2> DEFINE rest == {o \in {new} : I.rests /\ o.quantity > 0}
  <2> HIDE DEF rest
  <2>2. Views(c, {}) = MarketOpen[op.symbol] \cup rest
    BY <1>6, <1>12 DEF rest
  <2>3. MarketOpen' = [MarketOpen EXCEPT ![op.symbol] = MarketOpen[op.symbol] \cup rest]
    BY Zenon, <1>3, <1>5, <1>13, <2>1, <2>2
  <2> QED BY <2>3 DEF rest
<1>15. MarketNext' = MarketNext
  BY <1>10, <1>13 DEF MarketNext, b
<1>16. x.remaining_qty = 0 \/ Market!Counterparties = {}
  <2> SUFFICES ASSUME x.remaining_qty # 0, NEW o \in Market!Counterparties
               PROVE  FALSE
    OBVIOUS
  <2>1. /\ o \in MarketOpen[op.symbol] /\ o.side # x.side
        /\ Market!Accepts(x.side, x.price, o.price)
    BY <1>7, <1>11 DEF Market!Counterparties, I
  <2>2. PICK i \in LiveIds(b) \ {id} : o = View(b, i)
    BY <1>6, <2>1 DEF Views
  <2>3. o.side = OrderOf(b, i).side /\ o.price = OrderOf(b, i).price
    BY <2>2 DEF View
  <2>4. OrderOf(b, i).side = Opposite(x.side)
    <3>1. OrderOf(b, i).side \in Side
      BY <1>4, LiveOrder DEF Order
    <3> QED BY SMTT(30), <1>9, <2>1, <2>3, <3>1 DEF Side, Opposite
  <2>5. ~Crosses(x, OrderOf(b, i))
    BY <1>4, <2>4 DEF Settled
  <2> QED BY SMTT(30), <2>1, <2>3, <2>5 DEF Crosses, Market!Accepts
<1>17. MarketIncoming = I
  BY <1>7 DEF I
<1> QED
  BY Zenon, <1>7, <1>11, <1>14, <1>15, <1>16, <1>17 DEF Market!Settle, Market!NoOrder

\* A valid order arrives in the market; it is on its book but not open yet.
LEMMA AcceptOrderArrives ==
  ASSUME EngineInv, NEW symbol \in Symbols, NEW side \in Side, NEW type \in OrderType,
         NEW price \in Prices, NEW quantity \in Quantities,
         AcceptOrder(symbol, side, type, price, quantity)
  PROVE  Market!Arrive(symbol)
<1> DEFINE opened == get_order_book(symbol)
           b  == opened[symbol]
           p  == EffectivePrice(side, type, price)
           c  == add_order(b, side, type, p, quantity)
           id == b.next_order_id
           x  == NewOrder(id, side, type, p, quantity)
<1>1. /\ op = NoOp /\ IsValid(type, price, quantity)
      /\ books' = [opened EXCEPT ![symbol] = c]
      /\ op' = [phase |-> "match", symbol |-> symbol, order |-> acquired(b.pool),
                trades |-> << >>]
  BY DEF AcceptOrder
<1>2. /\ DOMAIN opened = DOMAIN books \cup {symbol}
      /\ \A s \in DOMAIN opened : BookOK(opened[s], {})
  BY Zenon, <1>1, OpenedBooks
<1>3. /\ \A s \in Symbols : (IF s \in DOMAIN opened THEN Views(opened[s], {}) ELSE {})
                            = (IF s \in DOMAIN books THEN Views(books[s], {}) ELSE {})
      /\ \A s \in Symbols : (IF s \in DOMAIN opened THEN opened[s].next_order_id ELSE 1)
                            = (IF s \in DOMAIN books THEN books[s].next_order_id ELSE 1)
  BY OpenedMarket
<1> HIDE DEF opened
<1>4. BookInv(b)
  BY <1>2 DEF BookOK
<1>5. p \in Int /\ p \in Prices \cup {0, MaxPrice} /\ quantity \in Nat /\ quantity # 0
  BY SMTT(30), <1>1, EngineAssumption DEF EffectivePrice, Side, IsValid
<1> HIDE DEF p
<1>6. /\ BookInv(c)
      /\ id \notin LiveIds(b)
      /\ LiveIds(c) = LiveIds(b) \cup {id}
      /\ c.next_order_id = id + 1
      /\ PtrOf(c, id) = acquired(b.pool)
      /\ OrderOf(c, id) = x
      /\ \A i \in LiveIds(b) : OrderOf(c, i) = OrderOf(b, i)
  BY SMTT(30), <1>4, <1>5, AddLive
<1>7. x.id = id /\ x.side = side /\ x.price = p /\ x.remaining_qty = quantity
  BY DEF NewOrder
<1> HIDE DEF c, id, x, b
<1>8. op'.symbol = symbol /\ op'.order = PtrOf(c, id) /\ op'.trades = << >>
      /\ op'.phase = "match"
  BY SMTT(30), <1>1, <1>6
<1>9. op' # NoOp
  BY <1>8 DEF NoOp
<1>10. DOMAIN books' = DOMAIN opened /\ books'[symbol] = c
       /\ \A s \in DOMAIN opened : s # symbol => books'[s] = opened[s]
  BY SMTT(30), <1>1, <1>2
<1>11. MarketOpen' = MarketOpen
  <2>1. Views(c, {id}) = Views(b, {})
    <3>1. LiveIds(b) \ {} = LiveIds(c) \ {id}
      BY <1>6
    <3> QED BY SMTT(30), <1>6, <3>1, SameViews
  <2>2. MarketOpen = [s \in Symbols |-> IF s \in DOMAIN books THEN Views(books[s], {}) ELSE {}]
    BY SMTT(30), <1>1, OpenIsOpenIn, IdleOpen
  <2>3. MarketOpen' = [s \in Symbols |->
           IF s \in DOMAIN books'
           THEN Views(books'[s], IF s = symbol THEN {id} ELSE {}) ELSE {}]
    <3>1. /\ op'.symbol \in DOMAIN books' /\ books'[op'.symbol] = c
          /\ BookInv(books'[op'.symbol]) /\ id \in LiveIds(books'[op'.symbol])
          /\ PtrOf(books'[op'.symbol], id) = op'.order
      BY SMTT(30), <1>2, <1>6, <1>8, <1>10
    <3>2. OpenIn(books', op') = [s \in Symbols |->
             IF s \in DOMAIN books'
             THEN Views(books'[s], IF s = op'.symbol THEN {id} ELSE {}) ELSE {}]
      BY SMTT(30), <1>9, <3>1, BusyOpen
    <3> QED BY SMTT(30), <1>8, <3>2, OpenIsOpenIn
  <2>4. \A s \in Symbols :
           (IF s \in DOMAIN books' THEN Views(books'[s], IF s = symbol THEN {id} ELSE {})
                                   ELSE {})
           = (IF s \in DOMAIN opened THEN Views(opened[s], {}) ELSE {})
    BY SMTT(30), <1>2, <1>10, <2>1 DEF b
  <2> QED BY Zenon, <1>3, <2>2, <2>3, <2>4
<1>12. MarketNext[symbol] = id /\ MarketNext' = [MarketNext EXCEPT ![symbol] = id + 1]
  <2>1. MarketNext = [s \in Symbols |-> IF s \in DOMAIN opened THEN opened[s].next_order_id
                                                               ELSE 1]
    BY <1>3 DEF MarketNext
  <2>2. MarketNext' = [s \in Symbols |-> IF s \in DOMAIN books' THEN books'[s].next_order_id
                                                                ELSE 1]
    BY DEF MarketNext
  <2> QED BY SMTT(30), <1>2, <1>6, <1>10, <2>1, <2>2 DEF id, b
<1>13. MarketIncoming = [symbol |-> "none"] /\ MarketPending = << >>
       /\ MarketIncoming' = Incoming(symbol, x) /\ MarketPending' = << >>
  <2>1. Deref(c, PtrOf(c, id)) = x
    BY <1>6 DEF OrderOf
  <2> QED BY SMTT(30), <1>1, <1>8, <1>9, <1>10, <2>1, CallMarket
<1>14. MarketIncoming' \in [symbol : {symbol}, id : {MarketNext[symbol]}, side : Market!Sides,
                            price : Prices \cup {0, MaxPrice}, quantity : Quantities \ {0},
                            rests : BOOLEAN]
  <2>1. side \in Market!Sides
    BY DEF Side, Market!Sides
  <2>2. (x.type = "Limit") \in BOOLEAN
    OBVIOUS
  <2>3. quantity \in Quantities \ {0}
    BY <1>5
  <2> QED BY Zenon, <1>5, <1>7, <1>12, <1>13, <2>1, <2>2, <2>3 DEF Incoming
<1> QED
  BY SMTT(30), <1>11, <1>12, <1>13, <1>14 DEF Market!Arrive, Market!NoOrder

\* An iteration of the match loop is a trade with the open order that has
\* price-time priority among those that cross.
LEMMA MatchStepMatches ==
  ASSUME EngineInv, MatchStep
  PROVE  Market!Match
<1> DEFINE b == books[op.symbol]
<1>1. PICK resting \in Slots(b) :
        /\ CanMatch(b, Deref(b, op.order), resting)
        /\ books' = [books EXCEPT ![op.symbol] =
               RemoveIfFilled(execute_match(b, op.order, resting), resting)]
        /\ op' = [op EXCEPT !.trades =
               Append(@, TradeOf(Deref(b, op.order), Deref(b, resting)))]
  BY Zenon DEF MatchStep
<1>2. op.phase = "match" /\ op # NoOp
  BY DEF MatchStep, NoOp
<1>3. op \in OpRecord /\ op.symbol \in DOMAIN books /\ op.symbol \in Symbols
  BY SMTT(30), <1>2, CallFacts
<1>4. PICK id \in LiveIds(b) : /\ PtrOf(b, id) = op.order /\ BookInv(b)
                               /\ Deref(b, op.order) = OrderOf(b, id)
  BY SMTT(30), <1>2, CallFacts
<1>5. MarketOpen = [s \in Symbols |->
         IF s \in DOMAIN books
         THEN Views(books[s], IF s = op.symbol THEN {id} ELSE {}) ELSE {}]
  BY SMTT(30), <1>2, <1>3, <1>4, OpenIsOpenIn, BusyOpen
<1>6. MarketOpen[op.symbol] = Views(b, {id})
  BY SMTT(30), <1>3, <1>5
<1> DEFINE x == OrderOf(b, id)
           side == Opposite(x.side)
           r == Deref(b, resting).id
           y == OrderOf(b, r)
           q == FillQty(x, y)
           c == RemoveIfFilled(execute_match(b, op.order, resting), resting)
<1>7. MarketIncoming = Incoming(op.symbol, x) /\ MarketPending = op.trades
  BY SMTT(30), <1>2, <1>4, CallMarket
<1> HIDE DEF b
<1>8. x \in Order /\ x.id = id
  BY <1>4, LiveOrder
<1>9. x.side \in Side /\ side \in Side /\ side # x.side
  BY <1>8 DEF Order, Side, Opposite
<1>10. PICK p \in LevelPrices(b, side) :
          IsBestLevel(b, side, p) /\ resting = Node(b, side, p, 1)
  BY SMTT(30), <1>1, <1>4 DEF CanMatch
<1>11. r \in LiveIds(b) /\ PtrOf(b, r) = resting /\ y.side = side /\ y.price = p
  BY SMTT(30), <1>4, <1>9, <1>10, QueueFront
<1>12. y = Deref(b, resting) /\ r \in LiveIds(b) \ {id} /\ y \in Order /\ y.id = r
  BY SMTT(30), <1>4, <1>9, <1>11, LiveOrder DEF OrderOf
<1>13. x.remaining_qty > 0 /\ Crosses(x, y)
  BY SMTT(30), <1>1, <1>4, <1>12 DEF CanMatch
<1> HIDE DEF side, r, y
<1>14. q \in Nat /\ y.remaining_qty \in Nat /\ x.remaining_qty \in Nat
       /\ q = IF x.remaining_qty < y.remaining_qty THEN x.remaining_qty ELSE y.remaining_qty
  <2>1. x.remaining_qty \in Nat /\ y.remaining_qty \in Nat
    BY <1>8, <1>12 DEF Order
  <2> HIDE DEF x
  <2> QED BY <2>1 DEF FillQty
<1>15. /\ BookInv(c) /\ c.next_order_id = b.next_order_id
       /\ id \in LiveIds(c)
       /\ PtrOf(c, id) = op.order
       /\ OrderOf(c, id) = Fill(x, q)
       /\ Views(c, {id}) = (Views(b, {id}) \ {View(b, r)})
              \cup {o \in {[View(b, r) EXCEPT !.quantity = @ - q]} : o.quantity > 0}
  BY SMTT(30), <1>4, <1>11, <1>12, MatchLive, MatchViews DEF y
<1> HIDE DEF x, q, c
<1>16. op'.symbol = op.symbol /\ op'.order = op.order /\ op'.phase = "match"
       /\ op'.trades = Append(op.trades, TradeOf(x, y))
  BY SMTT(30), <1>1, <1>2, <1>3, <1>4, <1>12 DEF OpRecord, x
<1>17. op' # NoOp
  BY <1>16 DEF NoOp
<1>18. DOMAIN books' = DOMAIN books /\ books'[op.symbol] = c
       /\ \A s \in DOMAIN books : s # op.symbol => books'[s] = books[s]
  BY <1>1, <1>3 DEF c
<1>19. MarketOpen' = [MarketOpen EXCEPT ![op.symbol] = Views(c, {id})]
  <2>1. OpenIn(books', op') = [s \in Symbols |->
           IF s \in DOMAIN books'
           THEN Views(books'[s], IF s = op'.symbol THEN {id} ELSE {}) ELSE {}]
    <3>1. /\ op'.symbol \in DOMAIN books'
          /\ BookInv(books'[op'.symbol]) /\ id \in LiveIds(books'[op'.symbol])
          /\ PtrOf(books'[op'.symbol], id) = op'.order
      BY SMTT(30), <1>3, <1>15, <1>16, <1>18
    <3> QED BY SMTT(30), <1>17, <3>1, BusyOpen
  <2>2. ASSUME NEW s \in Symbols
        PROVE  MarketOpen'[s] = [MarketOpen EXCEPT ![op.symbol] = Views(c, {id})][s]
    <3>1. CASE s = op.symbol
      BY SMTT(30), <1>3, <1>5, <1>16, <1>18, <2>1, <3>1, OpenIsOpenIn
    <3>2. CASE s # op.symbol
      BY SMTT(30), <1>3, <1>5, <1>16, <1>18, <2>1, <3>2, OpenIsOpenIn
    <3> QED BY SMTT(30), <3>1, <3>2
  <2>3. MarketOpen = [s \in Symbols |-> MarketOpen[s]]
        /\ MarketOpen' = [s \in Symbols |-> MarketOpen'[s]]
    BY DEF MarketOpen
  <2> QED BY SMTT(30), <2>2, <2>3
<1>20. MarketNext' = MarketNext
  BY SMTT(30), <1>15, <1>18 DEF MarketNext, b
<1> DEFINE I == Incoming(op.symbol, x)
           best == View(b, r)
<1>21. /\ I # [symbol |-> "none"] /\ I.symbol = op.symbol /\ I.id = x.id /\ I.side = x.side
       /\ I.price = x.price /\ I.quantity = x.remaining_qty
  BY IncomingFields
<1>22. MarketIncoming = I /\ MarketIncoming' = [I EXCEPT !.quantity = @ - q]
  <2>1. Deref(c, op.order) = Fill(x, q)
    BY <1>15 DEF OrderOf
  <2>2. MarketIncoming' = Incoming(op.symbol, Fill(x, q))
    BY SMTT(30), <1>16, <1>17, <1>18, <2>1, CallMarket
  <2>3. q =< x.remaining_qty
    BY <1>14
  <2>4. /\ Fill(x, q).id = x.id /\ Fill(x, q).side = x.side /\ Fill(x, q).price = x.price
        /\ Fill(x, q).type = x.type /\ Fill(x, q).remaining_qty = x.remaining_qty - q
    BY SMTT(30), <1>8, <1>14, <2>3, FillOrder
  <2>5. [I EXCEPT !.quantity = @ - q] = Incoming(op.symbol, Fill(x, q))
    <3> DEFINE lim == x.type = "Limit"
    <3>1. I = [symbol |-> op.symbol, id |-> x.id, side |-> x.side, price |-> x.price,
               quantity |-> x.remaining_qty, rests |-> lim]
      BY DEF Incoming
    <3>2. Incoming(op.symbol, Fill(x, q)) =
              [symbol |-> op.symbol, id |-> x.id, side |-> x.side, price |-> x.price,
               quantity |-> x.remaining_qty - q, rests |-> lim]
      BY Zenon, <2>4 DEF Incoming
    <3> HIDE DEF I, lim
    <3> QED BY SMTT(30), <3>1, <3>2
  <2> QED BY SMTT(30), <1>7, <2>2, <2>5
<1>23. best.id = y.id /\ best.side = y.side /\ best.price = y.price
       /\ best.quantity = y.remaining_qty /\ best \in Views(b, {id})
  BY <1>12 DEF View, Views, y
<1>24. MarketPending' = Append(MarketPending,
          [buy_order_id  |-> IF I.side = "Buy" THEN I.id ELSE best.id,
           sell_order_id |-> IF I.side = "Buy" THEN best.id ELSE I.id,
           price |-> best.price, quantity |-> q])
  <2>1. MarketPending' = Append(MarketPending, TradeOf(x, y))
    BY SMTT(30), <1>7, <1>16, <1>17, CallMarket
  <2> QED BY Zenon, <1>21, <1>23, <2>1 DEF TradeOf, q
<1>25. best \in Market!Counterparties
  <2>1. best.side # x.side /\ Market!Accepts(x.side, x.price, best.price)
    BY SMTT(30), <1>9, <1>11, <1>13, <1>23 DEF Crosses, Market!Accepts
  <2> QED BY SMTT(30), <1>6, <1>21, <1>22, <1>23, <2>1 DEF Market!Counterparties
<1>26. ASSUME NEW o \in Market!Counterparties \ {best}
       PROVE  Market!Precedes(best, o)
  <2>1. o \in Views(b, {id}) /\ o.side # x.side /\ o # best
    BY SMTT(30), <1>6, <1>21, <1>22 DEF Market!Counterparties
  <2>2. PICK i \in LiveIds(b) \ {id} : o = View(b, i)
    BY <2>1 DEF Views
  <2>3. o.id = i /\ o.side = OrderOf(b, i).side /\ o.price = OrderOf(b, i).price
    BY <2>2 DEF View
  <2>4. i # r
    BY SMTT(30), <2>1, <2>2
  <2>5. OrderOf(b, i).side = side
    <3>1. OrderOf(b, i).side \in Side
      BY SMTT(30), <1>4, LiveOrder DEF Order
    <3> QED BY SMTT(30), <1>9, <2>1, <2>3, <3>1 DEF Side
  <2>6. Better(side, p, OrderOf(b, i).price) \/ (p = OrderOf(b, i).price /\ r < i)
    BY SMTT(30), <1>4, <1>9, <1>10, <2>4, <2>5, FrontHasPriority DEF r
  <2> QED
    BY SMTT(30), <1>11, <1>12, <1>23, <2>3, <2>6 DEF Market!Precedes, Better
<1> HIDE DEF I, best
<1>27. MarketOpen' = [MarketOpen EXCEPT ![I.symbol] = (@ \ {best})
          \cup {o \in {[best EXCEPT !.quantity = @ - q]} : o.quantity > 0}]
  BY Zenon, <1>6, <1>15, <1>19, <1>21 DEF best
<1>28. q = IF I.quantity < best.quantity THEN I.quantity ELSE best.quantity
  BY SMTT(30), <1>14, <1>21, <1>23
<1>29. I.quantity > 0
  BY <1>13, <1>21
<1> QED
  BY Zenon, <1>20, <1>21, <1>22, <1>24, <1>25, <1>26, <1>27, <1>28, <1>29
     DEF Market!Match, Market!NoOrder

-----------------------------------------------------------------------------
(***************************************************************************)
(* The theorem.                                                            *)
(***************************************************************************)

\* Every behaviour of the engine is one of the price-time priority market.
THEOREM EngineImplementsPriceTimePriority == Spec => ImplementsPriceTimePriority
<1>1. Init => Market!Init
  <2> SUFFICES ASSUME Init PROVE Market!Init
    OBVIOUS
  <2>1. DOMAIN books = {} /\ op = NoOp
    BY DEF Init
  <2>2. MarketOpen = [symbol \in Symbols |-> {}]
    BY <2>1, OpenIsOpenIn DEF OpenIn
  <2>3. MarketNext = [symbol \in Symbols |-> 1]
    BY <2>1 DEF MarketNext
  <2> QED
    BY SMTT(30), <2>1, <2>2, <2>3, CallMarket DEF Market!Init, Market!NoOrder
<1>2. EngineInv /\ [Next]_vars => [Market!Next]_(Market!market)
  <2> SUFFICES ASSUME EngineInv, [Next]_vars
               PROVE  Market!Next \/ UNCHANGED Market!market
    OBVIOUS
  <2>1. ASSUME NEW symbol \in Symbols, NEW type \in OrderType, NEW price \in Prices,
               NEW quantity \in Quantities, RejectOrder(symbol, type, price, quantity)
        PROVE  UNCHANGED Market!market
    BY <2>1, OpenOnlyStutters DEF RejectOrder
  <2>2. ASSUME NEW symbol \in Symbols, NEW side \in Side, NEW type \in OrderType,
               NEW price \in Prices, NEW quantity \in Quantities,
               AcceptOrder(symbol, side, type, price, quantity)
        PROVE  Market!Next
    BY <2>2, AcceptOrderArrives DEF Market!Next
  <2>3. CASE MatchStep
    BY <2>3, MatchStepMatches DEF Market!Next
  <2>4. CASE MatchDone
    BY <2>4, MatchDoneStutters
  <2>5. CASE ReportTrade
    BY <2>5, ReportTradeDelivers DEF Market!Next
  <2>6. CASE Finish
    BY <2>6, FinishSettles DEF Market!Next
  <2>7. ASSUME NEW symbol \in Symbols, NEW id \in 1..MaxOrders, CancelOrder(symbol, id)
        PROVE  Market!Next \/ UNCHANGED Market!market
    BY <2>7, CancelOrderCancels DEF Market!Next
  <2>8. ASSUME NEW symbol \in Symbols, GetOrderBook(symbol)
        PROVE  UNCHANGED Market!market
    BY <2>8, OpenOnlyStutters DEF GetOrderBook
  <2>9. CASE UNCHANGED vars
    <3>1. books' = books /\ op' = op
      BY <2>9 DEF vars
    <3>2. MarketOpen' = MarketOpen /\ MarketNext' = MarketNext
      BY <3>1, OpenIsOpenIn DEF MarketNext
    <3>3. MarketIncoming' = MarketIncoming /\ MarketPending' = MarketPending
      BY <3>1, CallMarket
    <3> QED BY <3>2, <3>3 DEF Market!market
  <2> QED
    BY SMTT(30), <2>1, <2>2, <2>3, <2>4, <2>5, <2>6, <2>7, <2>8, <2>9 DEF Next, Proceed
<1> QED
  BY <1>1, <1>2, EngineAlwaysSound, PTL DEF Spec, ImplementsPriceTimePriority, Market!Spec
=============================================================================
