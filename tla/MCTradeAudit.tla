---------------------------- MODULE MCTradeAudit ----------------------------
(* TradeAudit on one symbol and small sets of prices and quantities. *)
EXTENDS TradeAudit
=============================================================================
