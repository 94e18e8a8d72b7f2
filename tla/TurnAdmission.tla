--------------------------- MODULE TurnAdmission ---------------------------
(***************************************************************************)
(* What a session of either vendor promises about its turns, with no       *)
(* launch, request, stop worker or teardown in it: the vendor works for    *)
(* one turn at a time, a turn keeps its admission as long as the vendor    *)
(* works for it, nothing is admitted once the session is closing, and a    *)
(* session that is reported over has nobody working.  ClaudeSession and    *)
(* CodexTurn implement it.                                                 *)
(***************************************************************************)
CONSTANTS
    Turns,
    Nobody,
    OneProcess   \* one vendor process serves every turn and ends with the session

VARIABLES
    admitted,    \* the turns that ever were
    holder,      \* the turn that has admission
    working,     \* the turns the vendor works for, or may yet
    ending       \* "no", "closing" or "over"

vars == <<admitted, holder, working, ending>>

Init == admitted = {} /\ holder = Nobody /\ working = {} /\ ending = "no"

\* What is done for a turn may begin as it is admitted.
Admit(t) ==
    /\ ending = "no" /\ holder = Nobody /\ working = {}
    /\ t \notin admitted
    /\ admitted' = admitted \cup {t}
    /\ holder' = t
    /\ working' \in {{}, {t}}
    /\ UNCHANGED ending

\* A session that closes takes the admission back and leaves the end of the work to
\* the end of the one process.
LeftToTheProcess == OneProcess /\ ending = "closing"

Work(t) ==
    /\ working = {} /\ ending # "over"
    /\ t \in admitted
    /\ holder = t \/ (holder = Nobody /\ LeftToTheProcess)
    /\ working' = {t}
    /\ UNCHANGED <<admitted, holder, ending>>

Rest ==
    /\ working' = {}
    /\ UNCHANGED <<admitted, holder, ending>>

Leave ==
    /\ working = {} \/ LeftToTheProcess
    /\ holder' = Nobody
    /\ UNCHANGED <<admitted, working, ending>>

Close ==
    /\ ending = "no"
    /\ ending' = "closing"
    /\ UNCHANGED <<admitted, holder, working>>

End ==
    /\ ending = "closing"
    /\ working = {} \/ LeftToTheProcess
    /\ ending' = "over"
    /\ working' = {}
    /\ UNCHANGED <<admitted, holder>>

Next ==
    \/ \E t \in Turns : Admit(t) \/ Work(t)
    \/ Rest \/ Leave \/ Close \/ End

Spec == Init /\ [][Next]_vars
=============================================================================
