---------------------------- MODULE MCSimulation ----------------------------
(* Simulation with one noise trader, few ticks and small sets of random    *)
(* values.                                                                 *)
EXTENDS Simulation

MCNoiseTraders == << "noise" >>
MCMoves == {-2, 2}
MCOffsets == {-1, 3}
=============================================================================
