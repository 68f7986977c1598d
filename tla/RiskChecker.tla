---------------------------- MODULE RiskChecker ----------------------------
(***************************************************************************)
(* src/risk/RiskChecker.cpp: the pre-trade risk layer as operators on a    *)
(* record r of limits_, kill_switch_, positions_ (by symbol, net),         *)
(* current_notional_exposure_ and stats_.  An order that is checked is a   *)
(* record of the arguments of check.                                       *)
(***************************************************************************)
EXTENDS Types, Sequences, Sums

\* The tests of check, in evaluation order.
Tests == << "KillSwitchActive", "InvalidQuantity", "MaxOrderQuantityExceeded",
            "InvalidPrice", "MaxOrderNotionalExceeded", "MaxPositionExceeded",
            "MaxNotionalExposureExceeded" >>

RejectReason ==
    {"None", "KillSwitchActive", "InvalidQuantity", "InvalidPrice",
     "MaxOrderQuantityExceeded", "MaxOrderNotionalExceeded", "MaxPositionExceeded",
     "MaxNotionalExposureExceeded"}

RiskLimits ==
    [max_order_quantity : Nat, max_order_notional : Int,
     max_position_abs : Nat, max_notional_exposure : Int]

RiskStats ==
    [total_checks : Nat, total_passes : Nat, total_rejections : Nat,
     by_reason : [RejectReason -> Nat]]

NoStats ==
    [total_checks |-> 0, total_passes |-> 0, total_rejections |-> 0,
     by_reason |-> [reason \in RejectReason |-> 0]]

NewChecker(limits) ==
    [limits |-> limits, kill_switch |-> FALSE, positions |-> [symbol \in {} |-> 0],
     exposure |-> 0, stats |-> NoStats]

position(r, symbol) == IF symbol \in DOMAIN r.positions THEN r.positions[symbol] ELSE 0

\* delta in check and on_fill.
Delta(side, quantity) == IF side = "Buy" THEN quantity ELSE -quantity

\* Mutant: the position is compared without the order.
Projected_Current(r, order) == position(r, order.symbol)

\* The position if the order is filled completely.
Projected(r, order) == position(r, order.symbol) + Delta(order.side, order.quantity)

Within(x, bound) == -bound =< x /\ x =< bound

\* Whether the order fails one test of check.
Fails(r, order, test) ==
    CASE test = "KillSwitchActive" -> r.kill_switch
      [] test = "InvalidQuantity" -> order.quantity = 0
      [] test = "MaxOrderQuantityExceeded" -> order.quantity > r.limits.max_order_quantity
      [] test = "InvalidPrice" -> order.type = "Limit" /\ order.price =< 0
      [] test = "MaxOrderNotionalExceeded" ->
            order.type # "Market" /\ order.price * order.quantity > r.limits.max_order_notional
      [] test = "MaxPositionExceeded" ->
            ~Within(Projected(r, order), r.limits.max_position_abs)
      [] test = "MaxNotionalExposureExceeded" ->
            /\ order.type # "Market"
            /\ r.exposure + order.price * order.quantity > r.limits.max_notional_exposure

\* The reason check returns when it makes the tests from..to: the first that
\* the order fails.
FirstFailure(r, order, from, to) ==
    LET failed == {i \in from..to : Fails(r, order, Tests[i])}
    IN  IF failed = {} THEN "None" ELSE Tests[Min(failed)]

check(r, order) == FirstFailure(r, order, 1, Len(Tests))

\* Mutant: a rejection is not counted as a check.
Recorded_RejectOnly(s, reason) ==
    IF reason = "None"
    THEN [s EXCEPT !.total_checks = @ + 1, !.total_passes = @ + 1]
    ELSE [s EXCEPT !.total_rejections = @ + 1, !.by_reason[reason] = @ + 1]

\* record_pass and record_reject.
Recorded(s, reason) ==
    IF reason = "None"
    THEN [s EXCEPT !.total_checks = @ + 1, !.total_passes = @ + 1]
    ELSE [s EXCEPT !.total_checks = @ + 1, !.total_rejections = @ + 1,
                   !.by_reason[reason] = @ + 1]

\* The two writes of on_fill.
FillPosition(r, symbol, side, quantity) ==
    [r EXCEPT !.positions =
        [s \in DOMAIN @ \cup {symbol} |->
            position(r, s) + (IF s = symbol THEN Delta(side, quantity) ELSE 0)]]

\* Mutant: the exposure limit is used up like a budget.
FillExposure_Budget(r, price, quantity) ==
    [r EXCEPT !.limits.max_notional_exposure = @ - price * quantity]

FillExposure(r, price, quantity) == [r EXCEPT !.exposure = @ + price * quantity]

on_fill(r, symbol, side, price, quantity) ==
    FillExposure(FillPosition(r, symbol, side, quantity), price, quantity)
=============================================================================
