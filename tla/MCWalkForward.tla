---------------------------- MODULE MCWalkForward -----------------------------
(***************************************************************************)
(* Two windows over one grid of two combinations, with a database.         *)
(***************************************************************************)
EXTENDS WalkForward

CONSTANTS p, q

MCCombos == {p, q}
MCGrids == {MCCombos}
MCStrategies == {"s"}
MCDataSets == 1..2
=============================================================================
