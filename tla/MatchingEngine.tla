--------------------------- MODULE MatchingEngine ---------------------------
(***************************************************************************)
(* src/core/MatchingEngine.cpp: the books of all symbols behind one mutex. *)
(*   books  books_, the books created so far, by symbol                    *)
(*   stats  stats_, without the latency fields                             *)
(*   op     the submit_order call that holds mutex_, or NoOp when the      *)
(*          mutex is free                                                  *)
(* submit_order is split where another thread could look at its effects:   *)
(* a callback runs after the match loop, trade by trade, before the        *)
(* remainder is dealt with.  One step is the part up to the match loop     *)
(* (RejectOrder, AcceptOrder), one iteration of the loop (MatchStep), its  *)
(* exit (MatchDone), one delivered trade (ReportTrade) or the part after   *)
(* the deliveries (Finish).  Only the thread that holds the mutex moves    *)
(* while op # NoOp.                                                        *)
(***************************************************************************)
EXTENDS OrderBook

CONSTANTS
    Symbols,     \* the symbols orders are submitted for
    Prices,      \* the prices of submitted limit and IOC orders
    Quantities,  \* the quantities of submitted orders
    MaxPrice,    \* std::numeric_limits<Price>::max()
    MaxOrders    \* bound on the number of submit_order calls

ASSUME EngineAssumption ==
    /\ Prices \subseteq Int
    /\ Quantities \subseteq Nat
    /\ MaxPrice \in Int
    /\ \A price \in Prices : price =< MaxPrice
    /\ 0 < MaxPrice
    /\ MaxOrders \in Nat

VARIABLES books, stats, op

vars == << books, stats, op >>

NoOp == [phase |-> "idle"]

Trade == [buy_order_id : Nat, sell_order_id : Nat, price : Int, quantity : Nat]

EngineStats ==
    [total_orders : Nat, total_trades : Nat, total_cancels : Nat,
     total_rejects : Nat, total_volume : Nat, total_notional : Int]

Init ==
    /\ books = [symbol \in {} |-> NewBook]
    /\ stats = [total_orders |-> 0, total_trades |-> 0, total_cancels |-> 0,
                total_rejects |-> 0, total_volume |-> 0, total_notional |-> 0]
    /\ op = NoOp

\* books_ after try_emplace(symbol, symbol).
get_order_book(symbol) ==
    [s \in DOMAIN books \cup {symbol} |->
        IF s \in DOMAIN books THEN books[s] ELSE NewBook]

-----------------------------------------------------------------------------
(***************************************************************************)
(* submit_order                                                            *)
(***************************************************************************)

IsValid(type, price, quantity) ==
    /\ quantity # 0
    /\ ~(type = "Limit" /\ price =< 0)

\* A market order is priced to cross everything on the opposite side.
EffectivePrice(side, type, price) ==
    CASE type # "Market" -> price
      [] type = "Market" /\ side = "Buy" -> MaxPrice
      [] type = "Market" /\ side = "Sell" -> 0

\* Mutant: a rejected order is not counted.
RejectOrder_NotCounted(symbol, type, price, quantity) ==
    /\ op = NoOp
    /\ stats.total_orders < MaxOrders
    /\ ~IsValid(type, price, quantity)
    /\ books' = get_order_book(symbol)
    /\ stats' = [stats EXCEPT !.total_orders = @ + 1]
    /\ UNCHANGED op

RejectOrder(symbol, type, price, quantity) ==
    /\ op = NoOp
    /\ stats.total_orders < MaxOrders
    /\ ~IsValid(type, price, quantity)
    /\ books' = get_order_book(symbol)
    /\ stats' = [stats EXCEPT !.total_orders = @ + 1, !.total_rejects = @ + 1]
    /\ UNCHANGED op

\* The order is put on the book before it is matched.
AcceptOrder(symbol, side, type, price, quantity) ==
    /\ op = NoOp
    /\ stats.total_orders < MaxOrders
    /\ IsValid(type, price, quantity)
    /\ LET opened == get_order_book(symbol)
       IN  /\ books' = [opened EXCEPT ![symbol] =
                  add_order(@, side, type, EffectivePrice(side, type, price), quantity)]
           /\ op' = [phase |-> "match", symbol |-> symbol,
                     order |-> acquired(opened[symbol].pool), trades |-> << >>]
    /\ stats' = [stats EXCEPT !.total_orders = @ + 1]

-----------------------------------------------------------------------------
(***************************************************************************)
(* match_order                                                             *)
(***************************************************************************)

\* Mutant: equal prices do not trade.
Crosses_Strict(incoming, resting) ==
    IF incoming.side = "Buy"
    THEN incoming.price > resting.price
    ELSE incoming.price < resting.price

\* price_match in match_order.
Crosses(incoming, resting) ==
    IF incoming.side = "Buy"
    THEN incoming.price >= resting.price
    ELSE incoming.price =< resting.price

\* Mutant: std::min is dropped.
FillQty_Incoming(incoming, resting) == incoming.remaining_qty

FillQty(incoming, resting) ==
    IF incoming.remaining_qty =< resting.remaining_qty
    THEN incoming.remaining_qty
    ELSE resting.remaining_qty

\* The trade execute_match returns, at the resting order's price.
TradeOf(incoming, resting) ==
    [buy_order_id  |-> IF incoming.side = "Buy" THEN incoming.id ELSE resting.id,
     sell_order_id |-> IF incoming.side = "Buy" THEN resting.id ELSE incoming.id,
     price         |-> resting.price,
     quantity      |-> FillQty(incoming, resting)]

Fill(order, quantity) == [order EXCEPT !.remaining_qty = @ - quantity]

\* Mutant: only the incoming order is reduced.
execute_match_OneLeg(b, incoming, resting) ==
    WriteOrder(b, incoming,
        Fill(Deref(b, incoming), FillQty(Deref(b, incoming), Deref(b, resting))))

\* The book after execute_match(incoming, resting), both of them pointers.
execute_match(b, incoming, resting) ==
    LET quantity == FillQty(Deref(b, incoming), Deref(b, resting))
        first    == WriteOrder(b, incoming, Fill(Deref(b, incoming), quantity))
    IN  WriteOrder(first, resting, Fill(Deref(first, resting), quantity))

\* Mutant: the slot of a filled order is released, the order stays linked.
RemoveIfFilled_ReleaseOnly(b, resting) ==
    IF is_filled(Deref(b, resting))
    THEN [b EXCEPT !.pool = release(@, resting)]
    ELSE b

\* A resting order that is filled leaves the book; a partial fill leaves its
\* status as it was.
RemoveIfFilled(b, resting) ==
    IF is_filled(Deref(b, resting))
    THEN remove_order(
            WriteOrder(b, resting, [Deref(b, resting) EXCEPT !.status = "Filled"]),
            resting)
    ELSE b

\* The status match_order leaves on the incoming order.
MatchedStatus(order) ==
    CASE is_filled(order) -> "Filled"
      [] ~is_filled(order) /\ filled_qty(order) > 0 -> "PartiallyFilled"
      [] ~is_filled(order) /\ filled_qty(order) =< 0 -> order.status

\* The loop finds resting at the front of the best opposite level of book b
\* and may trade with it.
CanMatch(b, incoming, resting) ==
    /\ incoming.remaining_qty > 0
    /\ \E p \in LevelPrices(b, Opposite(incoming.side)) :
          /\ IsBestLevel(b, Opposite(incoming.side), p)
          /\ Depth(b, Opposite(incoming.side), p) > 0
          /\ resting = Node(b, Opposite(incoming.side), p, 1)
    /\ Crosses(incoming, Deref(b, resting))

MatchStep ==
    /\ op.phase = "match"
    /\ LET b        == books[op.symbol]
           incoming == Deref(b, op.order)
       IN  \E resting \in Slots(b) :
              /\ CanMatch(b, incoming, resting)
              /\ books' = [books EXCEPT ![op.symbol] =
                     RemoveIfFilled(execute_match(b, op.order, resting), resting)]
              /\ op' = [op EXCEPT !.trades = Append(@, TradeOf(incoming, Deref(b, resting)))]
    /\ UNCHANGED stats

\* Mutant: a filled order is removed at the end of the match loop, while
\* submit_order goes on using its pointer.
MatchDone_RemovesEarly ==
    /\ op.phase = "match"
    /\ LET b        == books[op.symbol]
           incoming == Deref(b, op.order)
       IN  /\ ~\E resting \in Slots(b) : CanMatch(b, incoming, resting)
           /\ books' = [books EXCEPT ![op.symbol] =
                  IF is_filled(incoming) THEN remove_order(b, op.order) ELSE b]
    /\ op' = [op EXCEPT !.phase = "report"]
    /\ UNCHANGED stats

\* The loop ends: the order is filled, the opposite side has no order at its
\* best level, or the best price does not cross.
MatchDone ==
    /\ op.phase = "match"
    /\ LET b        == books[op.symbol]
           incoming == Deref(b, op.order)
       IN  /\ ~\E resting \in Slots(b) : CanMatch(b, incoming, resting)
           /\ books' = [books EXCEPT ![op.symbol] = WriteOrder(b, op.order,
                  [incoming EXCEPT !.status = MatchedStatus(incoming)])]
    /\ op' = [op EXCEPT !.phase = "report"]
    /\ UNCHANGED stats

-----------------------------------------------------------------------------
(***************************************************************************)
(* The rest of submit_order, and cancel_order.                             *)
(***************************************************************************)

\* Mutant: the loop does not advance.
ReportTrade_Stuck ==
    /\ op.phase = "report"
    /\ op.trades # << >>
    /\ UNCHANGED vars

\* One round of the loop that counts the trades and hands them to
\* trade_callback_.
ReportTrade ==
    /\ op.phase = "report"
    /\ op.trades # << >>
    /\ LET trade == Head(op.trades)
       IN  stats' = [stats EXCEPT !.total_trades = @ + 1,
                                  !.total_volume = @ + trade.quantity,
                                  !.total_notional = @ + trade.price * trade.quantity]
    /\ op' = [op EXCEPT !.trades = Tail(@)]
    /\ UNCHANGED books

\* Mutant: an IOC remainder is left on the book.
AfterMatch_IOCRests(b, ptr) ==
    LET order == Deref(b, ptr)
    IN  IF is_filled(order) \/ order.type = "Market" THEN remove_order(b, ptr) ELSE b

\* The book after the post-match handling: only a limit remainder rests.
AfterMatch(b, ptr) ==
    LET order == Deref(b, ptr)
    IN  CASE is_filled(order) -> remove_order(b, ptr)
          [] ~is_filled(order) /\ order.type \in {"Market", "IOC"} ->
                remove_order(WriteOrder(b, ptr, [order EXCEPT !.status =
                    IF filled_qty(order) > 0 THEN "PartiallyFilled" ELSE "Cancelled"]), ptr)
          [] ~is_filled(order) /\ order.type = "Limit" -> b

Finish ==
    /\ op.phase = "report"
    /\ op.trades = << >>
    /\ books' = [books EXCEPT ![op.symbol] = AfterMatch(@, op.order)]
    /\ op' = NoOp
    /\ UNCHANGED stats

\* Mutant: cancel_order does not take the lock.
CancelOrder_Unlocked(symbol, id) ==
    /\ IF symbol \in DOMAIN books /\ id \in LiveIds(books[symbol])
       THEN /\ books' = [books EXCEPT ![symbol] = cancel_order(@, id)]
            /\ stats' = [stats EXCEPT !.total_cancels = @ + 1]
       ELSE UNCHANGED << books, stats >>
    /\ UNCHANGED op

\* Cancelling for a symbol without a book, or an ID that is not live, returns
\* false and changes nothing.
CancelOrder(symbol, id) ==
    /\ op = NoOp
    /\ IF symbol \in DOMAIN books /\ id \in LiveIds(books[symbol])
       THEN /\ books' = [books EXCEPT ![symbol] = cancel_order(@, id)]
            /\ stats' = [stats EXCEPT !.total_cancels = @ + 1]
       ELSE UNCHANGED << books, stats >>
    /\ UNCHANGED op

\* A caller asks for a book, which creates it.
GetOrderBook(symbol) ==
    /\ op = NoOp
    /\ books' = get_order_book(symbol)
    /\ UNCHANGED << stats, op >>

\* The thread that holds the mutex goes on.
Proceed == MatchStep \/ MatchDone \/ ReportTrade \/ Finish

Next ==
    \/ \E symbol \in Symbols, type \in OrderType, price \in Prices, quantity \in Quantities :
            RejectOrder(symbol, type, price, quantity)
    \/ \E symbol \in Symbols, side \in Side, type \in OrderType, price \in Prices,
            quantity \in Quantities :
            AcceptOrder(symbol, side, type, price, quantity)
    \/ Proceed
    \/ \E symbol \in Symbols, id \in 1..MaxOrders : CancelOrder(symbol, id)
    \/ \E symbol \in Symbols : GetOrderBook(symbol)

Spec == Init /\ [][Next]_vars

\* The thread that holds the mutex is scheduled.
FairSpec == Spec /\ WF_vars(Proceed)

-----------------------------------------------------------------------------
(***************************************************************************)
(* Properties.                                                             *)
(***************************************************************************)

Phases == {"match", "report"}

\* The types of the engine's state.
TypeOK ==
    /\ DOMAIN books \subseteq Symbols
    /\ \A symbol \in DOMAIN books : BookTypeOK(books[symbol])
    /\ stats \in EngineStats
    /\ \/ op = NoOp
       \/ /\ op \in [phase : Phases, symbol : Symbols, order : Nat, trades : Seq(Trade)]
          /\ op.symbol \in DOMAIN books

\* The orders of book b except the one that is being matched.
RestingIds(symbol) ==
    {id \in LiveIds(books[symbol]) :
        op # NoOp /\ op.symbol = symbol => PtrOf(books[symbol], id) # op.order}

\* Levels, index and pool of every book agree at every step of the match
\* loop, not only between calls: match_order removes resting orders while
\* submit_order holds a raw pointer to the incoming one.
BooksSound == \A symbol \in DOMAIN books : BookInv(books[symbol])

\* The order a submit_order call works on stays on its book, at the pointer
\* the call holds, until the call takes it off.
IncomingStaysLive ==
    op # NoOp =>
        \E id \in LiveIds(books[op.symbol]) : PtrOf(books[op.symbol], id) = op.order

\* No resting buy is priced at or above a resting sell of the same symbol:
\* whatever could trade has traded.
RestingUncrossed ==
    \A symbol \in DOMAIN books : \A i, j \in RestingIds(symbol) :
        LET bid == OrderOf(books[symbol], i)
            ask == OrderOf(books[symbol], j)
        IN  bid.side = "Buy" /\ ask.side = "Sell" => bid.price < ask.price

\* Only unfilled limit orders at positive prices rest: a market or IOC
\* remainder never stays on the book, and best_bid() = 0 means "no bids".
OnlyLimitsRest ==
    \A symbol \in DOMAIN books : \A id \in RestingIds(symbol) :
        LET order == OrderOf(books[symbol], id)
        IN  /\ order.type = "Limit"
            /\ order.price > 0
            /\ order.remaining_qty \in 1..order.quantity

\* spread() is positive between calls when both sides are quoted.
SpreadPositive ==
    op = NoOp => \A symbol \in DOMAIN books :
        LET b == books[symbol]
        IN  LevelPrices(b, "Buy") # {} /\ LevelPrices(b, "Sell") # {} => spread(b) > 0

\* Every submitted order was rejected or was given the next ID of its book.
OrdersAccounted ==
    stats.total_orders = stats.total_rejects +
        SumOver([symbol \in DOMAIN books |-> books[symbol].next_order_id - 1], DOMAIN books)

\* A submit_order call releases the mutex: its match loop ends and every
\* trade is delivered.
MutexReleased == op # NoOp ~> op = NoOp

-----------------------------------------------------------------------------
(***************************************************************************)
(* The engine implements price-time priority.  The incoming order is the   *)
(* one the call in progress holds; all other live orders are open.         *)
(***************************************************************************)

OpenOrders(symbol) ==
    IF symbol \notin DOMAIN books
    THEN {}
    ELSE {[id |-> id,
           side |-> OrderOf(books[symbol], id).side,
           price |-> OrderOf(books[symbol], id).price,
           quantity |-> OrderOf(books[symbol], id).remaining_qty] :
              id \in RestingIds(symbol)}

IncomingOrder ==
    LET order == Deref(books[op.symbol], op.order)
    IN  [symbol |-> op.symbol, id |-> order.id, side |-> order.side,
         price |-> order.price, quantity |-> order.remaining_qty,
         rests |-> order.type = "Limit"]

MarketOpen == [symbol \in Symbols |-> OpenOrders(symbol)]

MarketNext ==
    [symbol \in Symbols |->
        IF symbol \in DOMAIN books THEN books[symbol].next_order_id ELSE 1]

MarketIncoming == IF op = NoOp THEN [symbol |-> "none"] ELSE IncomingOrder

MarketPending == IF op = NoOp THEN << >> ELSE op.trades

Market ==
    INSTANCE PriceTimePriority WITH
        Prices   <- Prices \cup {0, MaxPrice},
        open     <- MarketOpen,
        next     <- MarketNext,
        incoming <- MarketIncoming,
        pending  <- MarketPending

\* Every behaviour of the engine is one of the price-time priority market:
\* each trade is with the best-priced, earliest order of all that are live,
\* at its price, and nothing that crosses is left when an order settles.
ImplementsPriceTimePriority == Market!Spec
=============================================================================
