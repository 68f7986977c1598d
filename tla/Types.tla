------------------------------- MODULE Types -------------------------------
(***************************************************************************)
(* The vocabulary of include/core/Types.h and include/core/Order.h.        *)
(* Prices are integers (ticks): the code compares and copies prices, and   *)
(* the properties only need their order.  Timestamps and the string forms  *)
(* of the enumerations carry no control and are left out.                  *)
(***************************************************************************)
EXTENDS Integers

Side == {"Buy", "Sell"}

OrderType == {"Limit", "Market", "IOC"}

OrderStatus == {"Accepted", "Filled", "PartiallyFilled", "Cancelled", "Rejected"}

\* The side an incoming order is matched against.
Opposite(side) == IF side = "Buy" THEN "Sell" ELSE "Buy"

Order ==
    [id : Nat, price : Int, quantity : Nat, remaining_qty : Nat,
     side : Side, type : OrderType, status : OrderStatus]

\* Order(id, side, type, price, quantity): unfilled and Accepted.
NewOrder(id, side, type, price, quantity) ==
    [id |-> id, price |-> price, quantity |-> quantity,
     remaining_qty |-> quantity, side |-> side, type |-> type,
     status |-> "Accepted"]

\* Order(): the value-initialised object of a slot that was never used.
EmptyOrder == NewOrder(0, "Buy", "Limit", 0, 0)

filled_qty(order) == order.quantity - order.remaining_qty

is_filled(order) == order.remaining_qty = 0
=============================================================================
