---------------------------- MODULE MCTurnStream ----------------------------
(* A small turn stream for TLC: two sinks, room for two payload events and  *)
(* two interactions, and sizes on both sides of the byte budgets.           *)
EXTENDS TurnStream, TLC

Symmetry == Permutations(Sinks)
=============================================================================
