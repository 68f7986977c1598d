---------------------------- MODULE MCRiskCalls ----------------------------
(* RiskCalls with two sets of limits: in the second one the caps on the    *)
(* order bite before the cap on the position.                              *)
EXTENDS RiskCalls

Wide == [max_order_quantity |-> 3, max_order_notional |-> 5,
         max_position_abs |-> 3, max_notional_exposure |-> 8]

Tight == [max_order_quantity |-> 2, max_order_notional |-> 3,
          max_position_abs |-> 2, max_notional_exposure |-> 4]

MCLimitChoices == {Wide, Tight}
=============================================================================
