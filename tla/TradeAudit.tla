----------------------------- MODULE TradeAudit -----------------------------
(***************************************************************************)
(* MatchingEngine with a history variable: a ledger kept by an observer    *)
(* that sees the orders submitted, the trades handed to trade_callback_    *)
(* and the cancels that returned true, and never looks at a book.          *)
(*   ledger  for every accepted order, by symbol and ID: its type, its     *)
(*           quantity, the shares its trades add up to, and whether it was *)
(*           cancelled                                                     *)
(***************************************************************************)
EXTENDS MatchingEngine

VARIABLE ledger

auditVars == << vars, ledger >>

AuditInit == Init /\ ledger = [key \in {} |-> NoOp]

Submitted(symbol, side, type, price, quantity) ==
    /\ AcceptOrder(symbol, side, type, price, quantity)
    /\ LET key == << symbol, books'[symbol].next_order_id - 1 >>
           new == [type |-> type, quantity |-> quantity, filled |-> 0, cancelled |-> FALSE]
       IN  ledger' = [k \in DOMAIN ledger \cup {key} |-> IF k = key THEN new ELSE ledger[k]]

Traded ==
    /\ ReportTrade
    /\ LET trade == Head(op.trades)
       IN  ledger' = [ledger EXCEPT
              ![<< op.symbol, trade.buy_order_id >>].filled = @ + trade.quantity,
              ![<< op.symbol, trade.sell_order_id >>].filled = @ + trade.quantity]

Cancelled(symbol, id) ==
    /\ CancelOrder(symbol, id)
    /\ ledger' = IF stats'.total_cancels > stats.total_cancels
                 THEN [ledger EXCEPT ![<< symbol, id >>].cancelled = TRUE]
                 ELSE ledger

AuditNext ==
    \/ \E symbol \in Symbols, side \in Side, type \in OrderType, price \in Prices,
            quantity \in Quantities :
            Submitted(symbol, side, type, price, quantity)
    \/ Traded
    \/ \E symbol \in Symbols, id \in 1..MaxOrders : Cancelled(symbol, id)
    \/ /\ \/ \E symbol \in Symbols, type \in OrderType, price \in Prices,
                  quantity \in Quantities :
                  RejectOrder(symbol, type, price, quantity)
          \/ \E symbol \in Symbols : GetOrderBook(symbol)
          \/ MatchStep \/ MatchDone \/ Finish
       /\ UNCHANGED ledger

AuditSpec == AuditInit /\ [][AuditNext]_auditVars

-----------------------------------------------------------------------------

IsLive(key) == key[2] \in LiveIds(books[key[1]])

\* Shares are conserved.  Between calls the trades reported for an order are
\* exactly what its remaining_qty lacks of its quantity; an order that left
\* the book without a cancel was filled, unless it is a market or IOC order;
\* and total_volume counts every share once.
SharesConserved ==
    op = NoOp =>
        /\ \A key \in DOMAIN ledger :
              LET entry == ledger[key]
              IN  IF IsLive(key)
                  THEN /\ ~entry.cancelled
                       /\ entry.filled = filled_qty(OrderOf(books[key[1]], key[2]))
                       /\ entry.quantity = OrderOf(books[key[1]], key[2]).quantity
                  ELSE /\ entry.filled =< entry.quantity
                       /\ entry.type = "Limit" /\ ~entry.cancelled
                             => entry.filled = entry.quantity
        /\ SumOver([key \in DOMAIN ledger |-> ledger[key].filled], DOMAIN ledger)
               = 2 * stats.total_volume

\* A cancel is final: once cancel_order has returned true, no further trade is
\* reported for the order, whatever was in flight when the cancel came in.
CancelIsFinal ==
    [][\A key \in DOMAIN ledger :
          ledger[key].cancelled => ledger'[key] = ledger[key]]_auditVars
=============================================================================
