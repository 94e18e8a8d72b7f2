--------------------------- MODULE RecoveryRecord ---------------------------
(***************************************************************************)
(* `recovery.rs` and `operation.rs`: what a supervisor may conclude about  *)
(* one logical turn.  A RecoveryRecord is a value with a transition rule   *)
(* per method.  A method that refuses leaves everything but `refused`      *)
(* alone: in the code it returns HostConfiguration instead.                *)
(***************************************************************************)
EXTENDS Naturals

CONSTANTS
    MaxAttempt,     \* where AttemptId saturates, u64::MAX in the code
    Terminals,      \* the TerminalStatus values
    NoTerminal      \* None

ASSUME RecordAssumption ==
    /\ MaxAttempt \in Nat \ {0}
    /\ NoTerminal \notin Terminals

Attempts   == 1..MaxAttempt
Dispatches == {"NotSubmitted", "AcceptanceUnknown", "Accepted"}

Record == [attempt  : Attempts,
           dispatch : Dispatches,
           terminal : Terminals \cup {NoTerminal},
           refused  : BOOLEAN]

NewRecord == [attempt |-> 1, dispatch |-> "NotSubmitted",
              terminal |-> NoTerminal, refused |-> FALSE]

NextAttempt(attempt) == IF attempt = MaxAttempt THEN attempt ELSE attempt + 1

\* Mutant: an attempt nobody acknowledged is read as one that did not run.
Action_ReplaysUncertain(record) ==
    CASE record.terminal # NoTerminal     -> "Finished"
      [] record.dispatch = "Accepted"     -> "Observe"
      [] OTHER                            -> "Submit"

\* The next safe step for the supervisor.
Action(record) ==
    IF record.terminal # NoTerminal THEN "Finished"
    ELSE CASE record.dispatch = "NotSubmitted"      -> "Submit"
           [] record.dispatch = "Accepted"          -> "Observe"
           [] record.dispatch = "AcceptanceUnknown" -> "Reconcile"

Refuse(record) == [record EXCEPT !.refused = TRUE]

\* Certainty only grows; absence has a method of its own.
MayRecordDispatch(record, attempt, dispatch) ==
    /\ attempt = record.attempt
    /\ record.terminal = NoTerminal
    /\ record.dispatch = "Accepted" => dispatch = "Accepted"
    /\ record.dispatch = "AcceptanceUnknown" => dispatch # "NotSubmitted"

RecordDispatch(record, attempt, dispatch) ==
    IF MayRecordDispatch(record, attempt, dispatch)
    THEN [record EXCEPT !.dispatch = dispatch]
    ELSE Refuse(record)

\* Native proof that an uncertain attempt never ran.
ReconcileNotSubmitted(record, attempt) ==
    IF /\ attempt = record.attempt
       /\ record.terminal = NoTerminal
       /\ record.dispatch = "AcceptanceUnknown"
    THEN [record EXCEPT !.dispatch = "NotSubmitted"]
    ELSE Refuse(record)

MayRetry(record, attempt) ==
    /\ Action(record) = "Submit"
    /\ attempt > record.attempt

Retry(record, attempt) == [record EXCEPT !.attempt = attempt]

\* One outcome per logical turn; hearing the same one again is harmless.
FinishRecord(record, attempt, terminal) ==
    IF attempt = record.attempt /\ record.terminal \in {NoTerminal, terminal}
    THEN [record EXCEPT !.terminal = terminal]
    ELSE Refuse(record)
=============================================================================
