--------------------------- MODULE TurnTranscript ---------------------------
(***************************************************************************)
(* What a turn stream promises its host, with no buffer, lock or sink in   *)
(* it: a log that only grows, closed by the events of one outcome, which   *)
(* the host reads once and in order and then sees end.  TurnStream         *)
(* implements it.                                                          *)
(***************************************************************************)
EXTENDS Naturals, Sequences

CONSTANTS
    Payload,          \* everything a turn may publish before its outcome
    Outcome,          \* the outcomes a turn may have
    Undecided,        \* no outcome yet
    EventsOf(_)       \* the events an outcome closes the log with

VARIABLES
    log,              \* everything published, in order
    outcome,
    read,             \* how much of the log the host has read
    host              \* "reading", "ended" or "gone"

vars == <<log, outcome, read, host>>

Init ==
    /\ log = << >> /\ outcome = Undecided
    /\ read = << >> /\ host = "reading"

\* Published before the outcome only, and only to a host that still reads.
Publish ==
    /\ outcome = Undecided /\ host = "reading"
    /\ \E event \in Payload : log' = Append(log, event)
    /\ UNCHANGED <<outcome, read, host>>

\* One outcome, which closes the log, whether or not anyone will read it.
Decide ==
    /\ outcome = Undecided /\ host # "ended"
    /\ outcome' \in Outcome
    /\ log' = log \o EventsOf(outcome')
    /\ UNCHANGED <<read, host>>

\* The host reads the next event of the log, decided or not.
Read ==
    /\ host = "reading" /\ Len(read) < Len(log)
    /\ read' = Append(read, log[Len(read) + 1])
    /\ UNCHANGED <<log, outcome, host>>

\* The host learns that nothing more will come, having read everything.
End ==
    /\ host = "reading" /\ read = log
    /\ host' = "ended"
    /\ UNCHANGED <<log, outcome, read>>

Leave ==
    /\ host # "gone"
    /\ host' = "gone"
    /\ UNCHANGED <<log, outcome, read>>

Next == Publish \/ Decide \/ Read \/ End \/ Leave

Spec == Init /\ [][Next]_vars
=============================================================================
