------------------------- MODULE PriceTimePriority -------------------------
(***************************************************************************)
(* What the matching engine promises its users, without levels, index,     *)
(* pool or pointers: the open orders of a symbol are a set, an incoming    *)
(* order trades with the open order that has price-time priority for as    *)
(* long as one crosses it, at that order's price, and then rests or goes.  *)
(*   open      the open orders of each symbol                              *)
(*   next      the ID of the next order of each symbol; IDs grow in order  *)
(*             of arrival                                                  *)
(*   incoming  the order being executed, or NoOrder                        *)
(*   pending   its trades that have not been delivered yet                 *)
(***************************************************************************)
EXTENDS Integers, Sequences

CONSTANTS Symbols, Prices, Quantities

VARIABLES open, next, incoming, pending

market == << open, next, incoming, pending >>

NoOrder == [symbol |-> "none"]

Sides == {"Buy", "Sell"}

\* An order of this side with this limit may trade at price.
Accepts(side, limit, price) ==
    IF side = "Buy" THEN limit >= price ELSE limit =< price

\* Order a has price-time priority over order b of the same side.
Precedes(a, b) ==
    \/ IF a.side = "Buy" THEN a.price > b.price ELSE a.price < b.price
    \/ a.price = b.price /\ a.id < b.id

\* The open orders the incoming order may trade with.
Counterparties ==
    {o \in open[incoming.symbol] :
        o.side # incoming.side /\ Accepts(incoming.side, incoming.price, o.price)}

Init ==
    /\ open = [symbol \in Symbols |-> {}]
    /\ next = [symbol \in Symbols |-> 1]
    /\ incoming = NoOrder
    /\ pending = << >>

Arrive(symbol) ==
    /\ incoming = NoOrder
    /\ incoming' \in [symbol : {symbol}, id : {next[symbol]}, side : Sides,
                      price : Prices, quantity : Quantities \ {0}, rests : BOOLEAN]
    /\ next' = [next EXCEPT ![symbol] = @ + 1]
    /\ UNCHANGED << open, pending >>

Match ==
    /\ incoming # NoOrder
    /\ incoming.quantity > 0
    /\ \E best \in Counterparties :
          LET quantity == IF incoming.quantity < best.quantity
                          THEN incoming.quantity ELSE best.quantity
              left     == [best EXCEPT !.quantity = @ - quantity]
              buy      == incoming.side = "Buy"
          IN  /\ \A o \in Counterparties \ {best} : Precedes(best, o)
              /\ open' = [open EXCEPT ![incoming.symbol] = (@ \ {best}) \cup
                             {o \in {left} : o.quantity > 0}]
              /\ incoming' = [incoming EXCEPT !.quantity = @ - quantity]
              /\ pending' = Append(pending,
                    [buy_order_id  |-> IF buy THEN incoming.id ELSE best.id,
                     sell_order_id |-> IF buy THEN best.id ELSE incoming.id,
                     price |-> best.price, quantity |-> quantity])
    /\ UNCHANGED next

Deliver ==
    /\ pending # << >>
    /\ pending' = Tail(pending)
    /\ UNCHANGED << open, next, incoming >>

\* Nothing is left to trade or nobody to trade with: the remainder rests if
\* the order is one that may.
Settle ==
    /\ incoming # NoOrder
    /\ pending = << >>
    /\ incoming.quantity = 0 \/ Counterparties = {}
    /\ open' = [open EXCEPT ![incoming.symbol] = @ \cup
                  {o \in {[id |-> incoming.id, side |-> incoming.side,
                           price |-> incoming.price, quantity |-> incoming.quantity]} :
                      incoming.rests /\ o.quantity > 0}]
    /\ incoming' = NoOrder
    /\ UNCHANGED << next, pending >>

Cancel(symbol) ==
    /\ incoming = NoOrder
    /\ \E o \in open[symbol] : open' = [open EXCEPT ![symbol] = @ \ {o}]
    /\ UNCHANGED << next, incoming, pending >>

Next ==
    \/ \E symbol \in Symbols : Arrive(symbol) \/ Cancel(symbol)
    \/ Match
    \/ Deliver
    \/ Settle

Spec == Init /\ [][Next]_market
=============================================================================
