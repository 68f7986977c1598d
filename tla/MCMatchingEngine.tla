-------------------------- MODULE MCMatchingEngine --------------------------
(* MatchingEngine on small sets of symbols, prices and quantities. *)
EXTENDS MatchingEngine
=============================================================================
