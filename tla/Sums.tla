-------------------------------- MODULE Sums --------------------------------
(***************************************************************************)
(* Sums, which counters and totals of the code are compared with.          *)
(***************************************************************************)
EXTENDS FiniteSetsExt

\* The sum of the values of function f at the elements of S.
SumOver(f, S) == MapThenSumSet(LAMBDA x : f[x], S)
=============================================================================
