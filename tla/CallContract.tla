---------------------------- MODULE CallContract ----------------------------
(***************************************************************************)
(* What a JSON-RPC client promises about its calls, with no entry, queue,  *)
(* claim or task in it: a call is settled once, answered only if the peer  *)
(* may have seen it, and cancelled only then, when nobody waits for it any *)
(* more and never after its answer; nothing is sent for a caller that has  *)
(* left; and the connection has one end, which is what its failures name.  *)
(* JsonRpcCalls implements it.                                             *)
(***************************************************************************)
CONSTANTS
    Calls,
    Causes,     \* why a connection ends
    Failures,   \* what else a call may fail with
    Unsettled   \* neither of them, and no answer

VARIABLES
    caller,     \* "idle", "asking", "told" what there is to tell, or "gone" without it
    sent,       \* the calls the peer may have seen
    settled,    \* the "answer" of each call, or its failure
    cancelled,  \* the calls the peer was told to forget
    cause       \* why the connection ended

vars == <<caller, sent, settled, cancelled, cause>>

Init ==
    /\ caller = [c \in Calls |-> "idle"]
    /\ sent = {}
    /\ settled = [c \in Calls |-> Unsettled]
    /\ cancelled = {}
    /\ cause = Unsettled

Ask(c) ==
    /\ caller[c] = "idle"
    /\ caller' = [caller EXCEPT ![c] = "asking"]
    /\ UNCHANGED <<sent, settled, cancelled, cause>>

Send(c) ==
    /\ caller[c] = "asking" /\ c \notin sent
    /\ sent' = sent \cup {c}
    /\ UNCHANGED <<caller, settled, cancelled, cause>>

\* What a caller was told, that nobody could tell him included, stays true.
Open(c) == settled[c] = Unsettled /\ caller[c] # "told"

Settle(calls, with) ==
    /\ \A c \in calls : Open(c)
    /\ settled' = [c \in Calls |-> IF c \in calls THEN with ELSE settled[c]]
    /\ UNCHANGED <<caller, sent, cancelled, cause>>

Answer(c) == c \in sent \ cancelled /\ Settle({c}, "answer")

\* An end, or a part of the client that stops, fails several calls at once.
Fail(calls) ==
    \/ cause # Unsettled /\ Settle(calls, cause)
    \/ \E failure \in Failures : Settle(calls, failure)

Tell(c) ==
    /\ caller[c] = "asking"
    /\ caller' = [caller EXCEPT ![c] = "told"]
    /\ UNCHANGED <<sent, settled, cancelled, cause>>

\* Refused on the spot, given up or dropped: the peer may be told to forget the call.
Leave(c) ==
    /\ caller[c] \in {"idle", "asking"}
    /\ caller' = [caller EXCEPT ![c] = "gone"]
    /\ \/ UNCHANGED cancelled
       \/ c \in sent /\ settled[c] # "answer" /\ cancelled' = cancelled \cup {c}
    /\ UNCHANGED <<sent, settled, cause>>

End ==
    /\ cause = Unsettled
    /\ cause' \in Causes
    /\ UNCHANGED <<caller, sent, settled, cancelled>>

Next ==
    \/ \E c \in Calls : Ask(c) \/ Send(c) \/ Answer(c) \/ Tell(c) \/ Leave(c)
    \/ \E calls \in SUBSET Calls : Fail(calls)
    \/ End

Spec == Init /\ [][Next]_vars
=============================================================================
