-------------------------- MODULE MCTurnBroadcast --------------------------
(* Two watchers that come and go, one publisher, and sizes below, at and    *)
(* above the byte budget.                                                   *)
EXTENDS TurnBroadcast
=============================================================================
