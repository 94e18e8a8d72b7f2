-------------------------- MODULE MCClaudeSession --------------------------
(* Two turns of one session, each with a child of its own.                  *)
EXTENDS ClaudeSession, TLC

CONSTANTS a, b

Symmetry == Permutations(Attempts)

\* What nothing reads any more is left out of a state: how a stop that is over was
\* begun, what a close that is over waited for, what was known before a turn whose
\* child is installed, the reason to stop an attempt no task is left of, and the past of
\* an attempt that has left the slot.
SeenTeardown ==
    [t \in Attempts |->
        IF teardown[t].at = "over"
        THEN [teardown[t] EXCEPT !.settles = FALSE, !.exited = FALSE] ELSE teardown[t]]

SeenCloser ==
    IF closer.at # "over" THEN closer
    ELSE [closer EXCEPT !.on = NoAttempt, !.control = FALSE, !.proven = FALSE,
                        !.outcome = IF @ = "pending launch" THEN @ ELSE "none"]

SeenStory ==
    IF slot.turn = NoAttempt \/ slot.control THEN [story EXCEPT !.before = FALSE] ELSE story

SeenAsked ==
    {t \in asked : Owns(t) \/ start[t] # "over" \/ late[t] \notin {"none", "over"}
                              \/ pump[t] \notin {"none", "over"}}

SeenPast ==
    [abandoned |-> {t \in past.abandoned : Owns(t) /\ late[t] = "none"},
     blind |-> {t \in past.blind : late[t] \in {"waiting", "holding", "stopping"}},
     quit |-> past.quit # {}]

Seen ==
    <<dropped, shutdown, runtime, SeenPast, closed, status, SeenCloser, slot, SeenAsked,
      SeenTeardown, starts, reads, child, SeenStory, verdict, artifact>>
=============================================================================
