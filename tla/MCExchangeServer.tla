-------------------------- MODULE MCExchangeServer --------------------------
(* ExchangeServer with a few requests: limit orders that cross, one above  *)
(* the quantity cap, one of quantity 0, a market order, and cancels of the *)
(* first order.                                                            *)
EXTENDS ExchangeServer, TLC

MCLimits == [max_order_quantity |-> 2, max_order_notional |-> 2,
             max_position_abs |-> 3, max_notional_exposure |-> 3]

NewOrderMessage(side, type, quantity) ==
    [msg_type |-> "NewOrder", symbol |-> "AAPL", side |-> side, type |-> type,
     price |-> 1, quantity |-> quantity]

CancelMessage(id) == [msg_type |-> "Cancel", symbol |-> "AAPL", order_id |-> id]

Crossing == {NewOrderMessage("Buy", "Limit", 1), NewOrderMessage("Sell", "Limit", 2)}

MCRequests ==
    Crossing \cup {NewOrderMessage("Buy", "Limit", 0), NewOrderMessage("Buy", "Limit", 3),
                   NewOrderMessage("Sell", "Market", 2), CancelMessage(1)}

LiveRequests == Crossing \cup {CancelMessage(1)}

ConnectionSymmetry == Permutations(Connections)
=============================================================================
