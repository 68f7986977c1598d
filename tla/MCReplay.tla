------------------------------ MODULE MCReplay ------------------------------
(* Replay on tapes of a few kinds of rows: orders of two symbols that      *)
(* cross, under tape IDs that are not the engine's, an oversized order, a  *)
(* quantity beyond the modulus, orders without price or ID, cancels, an    *)
(* unknown action and a row that cannot be used.                           *)
EXTENDS Replay

MCLimits == [max_order_quantity |-> 2, max_order_notional |-> 9,
             max_position_abs |-> 9, max_notional_exposure |-> 9]

Row(symbol, side, type, price, quantity, action, id) ==
    [symbol |-> symbol, side |-> side, type |-> type, price |-> price,
     quantity |-> quantity, action |-> action, order_id |-> id, numeric |-> TRUE]

MCRows ==
    {Row("AAPL", "B", "L", << 1 >>, << 2 >>, "N", << 2 >>),
     Row("AAPL", "B", "", << 2 >>, << 1 >>, "", << 0 >>),
     Row("AAPL", "S", "L", << 1 >>, << 2 >>, "N", << 1 >>),
     Row("AAPL", "S", "M", << >>, << 7 >>, "N", << 1 >>),
     Row("AAPL", "S", "L", << >>, << 1 >>, "N", << 2 >>),
     Row("MSFT", "B", "I", << 1 >>, << 6 >>, "n", << 3 >>),
     Row("MSFT", "B", "L", << 1 >>, << 1 >>, "N", << 1 >>),
     Row("AAPL", "", "", << >>, << >>, "C", << 1 >>),
     Row("AAPL", "", "", << >>, << >>, "C", << 2 >>),
     Row("MSFT", "", "", << >>, << >>, "c", << 1 >>),
     Row("AAPL", "", "", << >>, << >>, "X", << 1 >>),
     Row("AAPL", "B", "L", << 1 >>, << 1 >>, "N", << >>)}
=============================================================================
