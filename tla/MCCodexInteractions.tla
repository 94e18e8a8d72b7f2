------------------------ MODULE MCCodexInteractions ------------------------
(* A turn that is asked for one approval, or asks one round of questions.   *)
EXTENDS CodexInteractions

CONSTANTS p, q
=============================================================================
