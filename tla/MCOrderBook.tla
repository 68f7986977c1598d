---------------------------- MODULE MCOrderBook ----------------------------
(* OrderBookCalls on two prices, small quantities and a pool of one slot, *)
(* so that the pool grows, recycles slots and is exhausted again.         *)
EXTENDS OrderBookCalls
=============================================================================
