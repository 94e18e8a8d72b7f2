---------------------------- MODULE MCCodexTurn ----------------------------
(* Two start attempts that follow one another through the slot, and one     *)
(* frame at a time that was read and not yet handled: it can be as late as  *)
(* the second attempt's pending start.                                      *)
EXTENDS CodexTurn

CONSTANTS a, b
=============================================================================
