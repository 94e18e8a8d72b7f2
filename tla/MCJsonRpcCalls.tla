--------------------------- MODULE MCJsonRpcCalls ---------------------------
(* One direct and one submitted call, one of them wanting its answer in     *)
(* order, over a client with room for one.                                  *)
EXTENDS JsonRpcCalls, TLC

CONSTANTS direct, submitted
=============================================================================
