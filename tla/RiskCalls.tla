----------------------------- MODULE RiskCalls -----------------------------
(***************************************************************************)
(* One RiskChecker used by one thread, as a trading desk would: an order   *)
(* that passes check is open until it has been filled or withdrawn, and    *)
(* every fill is reported with on_fill.                                    *)
(*   risk  the checker                                                     *)
(*   open  the orders that passed and may still fill, external to the      *)
(*         checker                                                         *)
(***************************************************************************)
EXTENDS RiskChecker, SequencesExt

CONSTANTS
    Symbols,         \* the symbols orders are for
    OrderTypes,      \* the types of the orders checked
    OrderPrices,     \* the prices of orders and fills
    OrderQuantities, \* the quantities of orders
    LimitChoices,    \* the limits set_limits is called with
    MaxOpen,         \* the desk checks an order only while fewer are open
    MaxChecks,       \* bound on stats.total_checks
    MaxExposure      \* bound on the exposure at which orders are still checked

ASSUME RiskAssumption ==
    /\ OrderTypes \subseteq OrderType
    /\ OrderPrices \subseteq Int
    /\ OrderQuantities \subseteq Nat
    /\ LimitChoices \subseteq RiskLimits
    /\ MaxOpen \in Nat /\ MaxChecks \in Nat /\ MaxExposure \in Nat

VARIABLES risk, open

riskVars == << risk, open >>

CheckedOrder ==
    [symbol : Symbols, side : Side, type : OrderTypes, price : OrderPrices,
     quantity : OrderQuantities]

RiskInit ==
    /\ \E limits \in LimitChoices : risk = NewChecker(limits)
    /\ open = << >>

Check(order) ==
    /\ Len(open) < MaxOpen
    /\ risk.stats.total_checks < MaxChecks
    /\ risk.exposure =< MaxExposure
    /\ risk' = [risk EXCEPT !.stats = Recorded(@, check(risk, order))]
    /\ open' = IF check(risk, order) = "None" THEN Append(open, order) ELSE open

\* A fill of some shares of an open order.
OnFill(i, price, quantity) ==
    /\ quantity =< open[i].quantity
    /\ risk' = on_fill(risk, open[i].symbol, open[i].side, price, quantity)
    /\ open' = IF quantity = open[i].quantity
               THEN RemoveAt(open, i)
               ELSE [open EXCEPT ![i].quantity = @ - quantity]

\* What is left of an open order is withdrawn.
Withdraw(i) ==
    /\ open' = RemoveAt(open, i)
    /\ UNCHANGED risk

EngageKillSwitch == risk' = [risk EXCEPT !.kill_switch = TRUE] /\ UNCHANGED open

DisengageKillSwitch == risk' = [risk EXCEPT !.kill_switch = FALSE] /\ UNCHANGED open

SetLimits(limits) == risk' = [risk EXCEPT !.limits = limits] /\ UNCHANGED open

ResetStats == risk' = [risk EXCEPT !.stats = NoStats] /\ UNCHANGED open

RiskNext ==
    \/ \E order \in CheckedOrder : Check(order)
    \/ \E i \in DOMAIN open, price \in {p \in OrderPrices : p > 0} :
            \E quantity \in 1..open[i].quantity : OnFill(i, price, quantity)
    \/ \E i \in DOMAIN open : Withdraw(i)
    \/ EngageKillSwitch
    \/ DisengageKillSwitch
    \/ \E limits \in LimitChoices : SetLimits(limits)
    \/ ResetStats

RiskSpec == RiskInit /\ [][RiskNext]_riskVars

-----------------------------------------------------------------------------

\* The types of the checker's state and of the open orders.
RiskTypeOK ==
    /\ \E S \in SUBSET Symbols :
          risk \in [limits : LimitChoices, kill_switch : BOOLEAN,
                    positions : [S -> Int], exposure : Int, stats : RiskStats]
    /\ open \in Seq([symbol : Symbols, side : Side, type : OrderTypes,
                     price : OrderPrices, quantity : Nat])

\* The position cap holds of the position itself, not only of the projection
\* check computes: whatever part of the orders that passed is filled, the net
\* position of a symbol stays within a cap that was in force.
PositionCapped ==
    \A symbol \in Symbols : \E limits \in LimitChoices :
        Within(position(risk, symbol), limits.max_position_abs)

\* RiskStats adds up: a check is a pass or a rejection, and a rejection has
\* one reason.
StatsAddUp ==
    /\ risk.stats.total_checks = risk.stats.total_passes + risk.stats.total_rejections
    /\ risk.stats.total_rejections = SumOver(risk.stats.by_reason, RejectReason)
=============================================================================
