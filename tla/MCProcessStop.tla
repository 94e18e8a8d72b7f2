--------------------------- MODULE MCProcessStop ---------------------------
(* Two host calls beside the guard's worker, and two helpers that may      *)
(* outlive the leader.                                                     *)
EXTENDS ProcessStop

CONSTANTS worker, first, second, h1, h2
=============================================================================
