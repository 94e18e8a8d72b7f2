--------------------------- MODULE HubSupervisor ---------------------------
(***************************************************************************)
(* The host's retry loop for one logical turn: `supervisor.rs` of the      *)
(* hub-host example, over the recovery record of the library, a Hub that   *)
(* keeps reservations per attempt and one terminal per logical turn        *)
(* (`hub.rs`, and the ledger of `testing.rs`), and a vendor session.       *)
(*                                                                         *)
(* What makes it hard is what the model keeps: a `run` future may be       *)
(* dropped at any await; a Hub call that timed out, failed or was dropped  *)
(* may still take effect later, or never; the vendor may do the work of a  *)
(* call whose answer nobody waits for; a stop may land at any time and the *)
(* cancel it asks for may fail.  Delays, hints and event contents are left *)
(* out; the turn's own signal and the session's are one stop.              *)
(***************************************************************************)
EXTENDS RecoveryRecord, Sequences, FiniteSets

VARIABLES
    \* LogicalTurn: what the supervisor remembers between runs
    record, turn,
    \* Progress and the await the run is at; gone when the run is
    run,
    \* what the last run answered, and every outcome a run ever answered
    answer, reported,
    stopped,
    \* the Hub's ledger
    reservations, hubTerminal,
    \* Hub calls nobody waits for any more, which may yet take effect
    lateReserve, lateWithdraw, lateCommit,
    \* start_turn calls: how many, which may have reached the vendor's work,
    \* and which did it
    calls, maybe, executed,
    \* history: the attempts offered to the Hub; a live turn was stopped and
    \* no cancel has succeeded since
    offered, cancelOwed

hostVars    == <<turn, run, answer, reported>>
hubVars     == <<reservations, hubTerminal>>
wireVars    == <<lateReserve, lateWithdraw, lateCommit>>
vendorVars  == <<calls, maybe, executed>>
historyVars == <<offered, cancelOwed>>
vars == <<record, hostVars, stopped, hubVars, wireVars, vendorVars,
          historyVars>>

Places == {"idle", "drive", "reserve", "start_turn", "withdraw", "drain",
           "observe_through_hub", "reconcile", "commit", "back_off",
           "abandon"}

\* How a start that was proved not submitted goes on after the withdrawal.
Failures == {"none", "retryable", "caller", "unrecoverable"}

Kinds == {"none", "committed", "already-committed", "uncertain", "refused",
          "stopped", "reused", "start-error", "cancel-error",
          "contradiction", "exhausted"}

Turn   == [refused : BOOLEAN, settlement : Terminals \cup {NoTerminal},
           unconfirmedStop : BOOLEAN, reserved : BOOLEAN]
Run    == [pc : Places, holding : BOOLEAN, fromHub : BOOLEAN,
           failure : Failures]
Answer == [kind : Kinds, terminal : Terminals \cup {NoTerminal}]

NoRun  == [pc |-> "idle", holding |-> FALSE, fromHub |-> FALSE,
           failure |-> "none"]
Silent == [kind |-> "none", terminal |-> NoTerminal]

Init ==
    /\ record = NewRecord
    /\ turn = [refused |-> FALSE, settlement |-> NoTerminal,
               unconfirmedStop |-> FALSE, reserved |-> FALSE]
    /\ run = NoRun
    /\ answer = Silent /\ reported = {}
    /\ stopped = FALSE
    /\ reservations = {} /\ hubTerminal = NoTerminal
    /\ lateReserve = {} /\ lateWithdraw = {} /\ lateCommit = {}
    /\ calls = 0 /\ maybe = {} /\ executed = {}
    /\ offered = << >> /\ cancelOwed = FALSE

-----------------------------------------------------------------------------
(* How a step of the run ends: it goes on at another place, it settles the *)
(* operation, or it returns an error.                                      *)

Continue(place) ==
    /\ run' = [run EXCEPT !.pc = place]
    /\ UNCHANGED <<turn, answer, reported>>

\* Mutant: the refusal lives only in the value the caller may drop.
Settled_ForgetsRefusal(kind, terminal) ==
    /\ run' = NoRun
    /\ answer' = [kind |-> kind, terminal |-> terminal]
    /\ reported' = (reported \cup {terminal}) \ {NoTerminal}
    /\ turn' = [turn EXCEPT
         !.settlement = IF kind = "already-committed" THEN terminal ELSE @]

\* A refusal and the Hub's own terminal outlive the answer.
Settled(kind, terminal) ==
    /\ run' = NoRun
    /\ answer' = [kind |-> kind, terminal |-> terminal]
    /\ reported' = (reported \cup {terminal}) \ {NoTerminal}
    /\ turn' = [turn EXCEPT
         !.refused = @ \/ kind = "refused",
         !.settlement = IF kind = "already-committed" THEN terminal ELSE @]

Failed(kind) ==
    /\ run' = NoRun
    /\ answer' = [kind |-> kind, terminal |-> NoTerminal]
    /\ UNCHANGED <<turn, reported>>

\* A Hub call nobody waits for any more: it may take effect later, or never.
LeaveOnWire ==
    /\ lateReserve' = IF run.pc = "reserve"
                      THEN lateReserve \cup {record.attempt} ELSE lateReserve
    /\ lateWithdraw' = IF run.pc = "withdraw"
                       THEN lateWithdraw \cup {record.attempt}
                       ELSE lateWithdraw
    /\ lateCommit' = IF run.pc = "commit"
                     THEN lateCommit \cup {record.terminal} ELSE lateCommit

-----------------------------------------------------------------------------
(* The caller: it runs the turn, again after an answer or a dropped run,   *)
(* and may drop the run at any await.                                      *)

Begin ==
    /\ run.pc = "idle"
    /\ ~turn.refused /\ turn.settlement = NoTerminal
    /\ run' = [NoRun EXCEPT !.pc = "drive"]
    /\ answer' = Silent
    /\ UNCHANGED <<record, turn, reported, stopped, hubVars, wireVars,
                   vendorVars, historyVars>>

\* Answered before anything is reconciled or dispatched.
BeginAnswered ==
    /\ run.pc = "idle"
    /\ \/ turn.refused /\ Settled("refused", NoTerminal)
       \/ /\ ~turn.refused /\ turn.settlement # NoTerminal
          /\ Settled("already-committed", turn.settlement)
    /\ UNCHANGED <<record, stopped, hubVars, wireVars, vendorVars,
                   historyVars>>

\* The logical id reused with other content.
BeginReused ==
    /\ run.pc = "idle"
    /\ Failed("reused")
    /\ UNCHANGED <<record, stopped, hubVars, wireVars, vendorVars,
                   historyVars>>

\* The stream, when one was held, and the call awaited are dropped with it.
DropRun ==
    /\ run.pc \notin {"idle", "drive"}
    /\ run' = NoRun
    /\ LeaveOnWire
    /\ UNCHANGED <<record, turn, answer, reported, stopped, hubVars,
                   vendorVars, historyVars>>

PullStop ==
    /\ ~stopped
    /\ stopped' = TRUE
    /\ UNCHANGED <<record, hostVars, hubVars, wireVars, vendorVars,
                   historyVars>>

-----------------------------------------------------------------------------
(* The loop: the stop first, then what the record says is safe.            *)

\* Mutant: the stop is remembered once its cancel has failed.
Abandon_RemembersFailureOnly ==
    IF run.holding \/ turn.unconfirmedStop
    THEN /\ cancelOwed' = (cancelOwed \/ run.holding)
         /\ run' = [run EXCEPT !.pc = "abandon", !.holding = FALSE]
         /\ UNCHANGED <<turn, answer, reported>>
    ELSE /\ Settled("stopped", NoTerminal)
         /\ UNCHANGED cancelOwed

\* The obligation is recorded before the cancel is awaited.
Abandon ==
    IF run.holding \/ turn.unconfirmedStop
    THEN /\ cancelOwed' = (cancelOwed \/ run.holding)
         /\ run' = [run EXCEPT !.pc = "abandon", !.holding = FALSE]
         /\ turn' = [turn EXCEPT !.unconfirmedStop = TRUE]
         /\ UNCHANGED <<answer, reported>>
    ELSE /\ Settled("stopped", NoTerminal)
         /\ UNCHANGED cancelOwed

StopSeen ==
    /\ run.pc \in {"drive", "back_off"} /\ stopped
    /\ Abandon
    /\ UNCHANGED <<record, stopped, hubVars, wireVars, vendorVars, offered>>

Driving(action) ==
    /\ run.pc = "drive" /\ ~stopped
    /\ Action(record) = action

NextDispatch ==
    IF turn.reserved THEN NextAttempt(record.attempt) ELSE record.attempt

\* The record turns uncertain and the reservation flag is set before the
\* Hub is asked, so a run dropped in the call leaves both.
Submit ==
    /\ Driving("Submit")
    /\ turn.reserved => MayRetry(record, NextDispatch)
    /\ record' = RecordDispatch(Retry(record, NextDispatch), NextDispatch,
                                "AcceptanceUnknown")
    /\ turn' = [turn EXCEPT !.reserved = TRUE]
    /\ run' = [run EXCEPT !.pc = "reserve"]
    /\ offered' = Append(offered, NextDispatch)
    /\ UNCHANGED <<answer, reported, stopped, hubVars, wireVars, vendorVars,
                   cancelOwed>>

\* The saturated attempt is not newer, and the record refuses it.
SubmitExhausted ==
    /\ Driving("Submit")
    /\ turn.reserved /\ ~MayRetry(record, NextDispatch)
    /\ Failed("exhausted")
    /\ UNCHANGED <<record, stopped, hubVars, wireVars, vendorVars,
                   historyVars>>

Observe ==
    /\ Driving("Observe")
    /\ Continue(IF run.holding THEN "drain" ELSE "observe_through_hub")
    /\ UNCHANGED <<record, stopped, hubVars, wireVars, vendorVars,
                   historyVars>>

Reconcile ==
    /\ Driving("Reconcile")
    /\ Continue("reconcile")
    /\ UNCHANGED <<record, stopped, hubVars, wireVars, vendorVars,
                   historyVars>>

\* The Hub's own terminal needs no commit; the vendor's does.
Settle ==
    /\ Driving("Finished")
    /\ IF run.fromHub THEN Settled("already-committed", record.terminal)
                      ELSE Continue("commit")
    /\ UNCHANGED <<record, stopped, hubVars, wireVars, vendorVars,
                   historyVars>>

BackOff ==
    /\ run.pc = "back_off" /\ ~stopped
    /\ Continue("drive")
    /\ UNCHANGED <<record, stopped, hubVars, wireVars, vendorVars,
                   historyVars>>

-----------------------------------------------------------------------------
(* submit: reserve the attempt, hand it to the vendor.                     *)

\* The stop is polled before start_turn is.
ReserveTaken ==
    /\ run.pc = "reserve"
    /\ reservations' = reservations \cup {record.attempt}
    /\ IF stopped
       THEN /\ Continue("drive")
            /\ UNCHANGED vendorVars
       ELSE /\ Continue("start_turn")
            /\ calls' = calls + 1
            /\ maybe' = maybe \cup {calls + 1}
            /\ UNCHANGED executed
    /\ UNCHANGED <<record, stopped, hubTerminal, wireVars, historyVars>>

\* A stream came back: the host holds the turn, whatever the stream claims.
StartReturnsStream ==
    /\ run.pc = "start_turn"
    /\ record' = RecordDispatch(record, record.attempt, "Accepted")
    /\ run' = [run EXCEPT !.pc = "drive", !.holding = TRUE]
    /\ UNCHANGED <<turn, answer, reported, stopped, hubVars, wireVars,
                   vendorVars, historyVars>>

\* The vendor proves that this call never left: the Hub is told first.
StartNotSubmitted ==
    /\ run.pc = "start_turn"
    /\ calls \notin executed
    /\ maybe' = maybe \ {calls}
    /\ \E failure \in Failures \ {"none"} :
         run' = [run EXCEPT !.pc = "withdraw", !.failure = failure]
    /\ UNCHANGED <<record, turn, answer, reported, stopped, hubVars,
                   wireVars, calls, executed, historyVars>>

\* An acknowledged failure is kept; one that leaves a process to clean up is
\* returned with the record uncertain.
StartFails ==
    /\ run.pc = "start_turn"
    /\ \/ record' = RecordDispatch(record, record.attempt, "Accepted")
       \/ UNCHANGED record
    /\ Failed("start-error")
    /\ UNCHANGED <<stopped, hubVars, wireVars, vendorVars, historyVars>>

\* Mutant: a deadline is read as proof that nothing was submitted.
StartUnanswered_ReadAsAbsent ==
    /\ run.pc = "start_turn"
    /\ record' = ReconcileNotSubmitted(record, record.attempt)
    /\ Continue(IF stopped THEN "drive" ELSE "back_off")
    /\ UNCHANGED <<stopped, hubVars, wireVars, vendorVars, historyVars>>

\* The deadline passed, the failure is uncertain, or a stop won the race.
StartUnanswered ==
    /\ run.pc = "start_turn"
    /\ Continue(IF stopped THEN "drive" ELSE "back_off")
    /\ UNCHANGED <<record, stopped, hubVars, wireVars, vendorVars,
                   historyVars>>

\* Delivered or not, the attempt is known not to have run.
Withdraw ==
    /\ run.pc = "withdraw"
    /\ \/ /\ reservations' = reservations \ {record.attempt}
          /\ UNCHANGED <<hubTerminal, wireVars>>
       \/ LeaveOnWire /\ UNCHANGED hubVars
    /\ record' = ReconcileNotSubmitted(record, record.attempt)
    /\ \/ run.failure = "retryable" /\ Continue("back_off")
       \/ run.failure = "caller" /\ Settled("refused", NoTerminal)
       \/ run.failure = "unrecoverable" /\ Failed("start-error")
    /\ UNCHANGED <<stopped, vendorVars, historyVars>>

-----------------------------------------------------------------------------
(* observe: the stream to its terminal, or the Hub when there is none.     *)

DrainTerminal ==
    /\ run.pc = "drain"
    /\ \E terminal \in Terminals :
         record' = FinishRecord(record, record.attempt, terminal)
    /\ run' = [run EXCEPT !.pc = "drive", !.holding = FALSE]
    /\ UNCHANGED <<turn, answer, reported, stopped, hubVars, wireVars,
                   vendorVars, historyVars>>

DrainEnded ==
    /\ run.pc = "drain"
    /\ run' = [run EXCEPT !.pc = "observe_through_hub", !.holding = FALSE]
    /\ UNCHANGED <<record, turn, answer, reported, stopped, hubVars,
                   wireVars, vendorVars, historyVars>>

\* Mutant: the drain reads on until the vendor ends the turn.
DrainStopped_OnlyBetweenSteps ==
    /\ run.pc = "drain" /\ stopped /\ ~run.holding
    /\ Continue("drive")
    /\ UNCHANGED <<record, stopped, hubVars, wireVars, vendorVars,
                   historyVars>>

DrainStopped ==
    /\ run.pc = "drain" /\ stopped
    /\ Continue("drive")
    /\ UNCHANGED <<record, stopped, hubVars, wireVars, vendorVars,
                   historyVars>>

\* What the Hub answers from its ledger.
HubStatus ==
    CASE hubTerminal # NoTerminal                       -> "Committed"
      [] hubTerminal = NoTerminal /\ reservations # {}  -> "Accepted"
      [] hubTerminal = NoTerminal /\ reservations = {}  -> "NeverArrived"

Querying == run.pc \in {"reconcile", "observe_through_hub"}

\* The Hub's terminal is the operation's.
HubCommitted ==
    /\ Querying /\ HubStatus = "Committed"
    /\ record' = FinishRecord(record, record.attempt, hubTerminal)
    /\ run' = [run EXCEPT !.pc = "drive", !.fromHub = TRUE]
    /\ UNCHANGED <<turn, answer, reported, stopped, hubVars, wireVars,
                   vendorVars, historyVars>>

\* Outstanding: a lost acknowledgement turns into an accepted attempt, and
\* an accepted one is waited for.
HubAccepted ==
    /\ Querying /\ HubStatus = "Accepted"
    /\ IF run.pc = "reconcile"
       THEN /\ record' = RecordDispatch(record, record.attempt, "Accepted")
            /\ Continue("drive")
       ELSE Continue("back_off") /\ UNCHANGED record
    /\ UNCHANGED <<stopped, hubVars, wireVars, vendorVars, historyVars>>

\* Proof of absence for an uncertain attempt, a contradiction about an
\* accepted one.
HubNeverArrived ==
    /\ Querying /\ HubStatus = "NeverArrived"
    /\ IF run.pc = "reconcile"
       THEN /\ record' = ReconcileNotSubmitted(record, record.attempt)
            /\ Continue("drive")
       ELSE Failed("contradiction") /\ UNCHANGED record
    /\ UNCHANGED <<stopped, hubVars, wireVars, vendorVars, historyVars>>

\* The Hub cannot tell, or has no query at all.
HubCannotTell ==
    /\ Querying
    /\ Continue("back_off") \/ Settled("uncertain", NoTerminal)
    /\ UNCHANGED <<record, stopped, hubVars, wireVars, vendorVars,
                   historyVars>>

-----------------------------------------------------------------------------
(* settle, and the ways every Hub call may fail.                           *)

\* The first terminal stands; a later run hears the one the Hub holds.
CommitTaken ==
    /\ run.pc = "commit"
    /\ IF hubTerminal = NoTerminal
       THEN /\ hubTerminal' = record.terminal
            /\ Settled("committed", record.terminal)
       ELSE /\ Settled("already-committed", hubTerminal)
            /\ UNCHANGED hubTerminal
    /\ UNCHANGED <<record, stopped, reservations, wireVars, vendorVars,
                   historyVars>>

AwaitingHub == Querying \/ run.pc \in {"reserve", "commit"}

\* A refusal ends the operation for good.
HubRefuses ==
    /\ AwaitingHub
    /\ Settled("refused", NoTerminal)
    /\ UNCHANGED <<record, stopped, hubVars, wireVars, vendorVars,
                   historyVars>>

\* A recoverable failure or the deadline: the call may still take effect.
HubUnanswered ==
    /\ AwaitingHub
    /\ LeaveOnWire
    /\ Continue("back_off")
    /\ UNCHANGED <<record, stopped, hubVars, vendorVars, historyVars>>

-----------------------------------------------------------------------------
(* abandon: the cancel a stop asks the session for.                        *)

CancelConfirmed ==
    /\ run.pc = "abandon"
    /\ run' = NoRun
    /\ answer' = [kind |-> "stopped", terminal |-> NoTerminal]
    /\ turn' = [turn EXCEPT !.unconfirmedStop = FALSE]
    /\ cancelOwed' = FALSE
    /\ UNCHANGED <<record, reported, stopped, hubVars, wireVars, vendorVars,
                   offered>>

CancelFailed ==
    /\ run.pc = "abandon"
    /\ run' = NoRun
    /\ answer' = [kind |-> "cancel-error", terminal |-> NoTerminal]
    /\ turn' = [turn EXCEPT !.unconfirmedStop = TRUE]
    /\ UNCHANGED <<record, reported, stopped, hubVars, wireVars, vendorVars,
                   historyVars>>

-----------------------------------------------------------------------------
(* The Hub and the vendor on their own time.                               *)

LateReserve(attempt) ==
    /\ attempt \in lateReserve
    /\ lateReserve' = lateReserve \ {attempt}
    /\ reservations' = reservations \cup {attempt}
    /\ UNCHANGED <<hubTerminal, lateWithdraw, lateCommit>>

\* A withdrawal that arrives late, or the expiry that stands in for one.
LateWithdraw(attempt) ==
    /\ attempt \in lateWithdraw
    /\ lateWithdraw' = lateWithdraw \ {attempt}
    /\ reservations' = reservations \ {attempt}
    /\ UNCHANGED <<hubTerminal, lateReserve, lateCommit>>

LateCommit(terminal) ==
    /\ terminal \in lateCommit
    /\ lateCommit' = lateCommit \ {terminal}
    /\ hubTerminal' = IF hubTerminal = NoTerminal THEN terminal
                                                  ELSE hubTerminal
    /\ UNCHANGED <<reservations, lateReserve, lateWithdraw>>

\* The Hub ends an outstanding operation with an outcome of its own.
HubEnds(terminal) ==
    /\ hubTerminal = NoTerminal /\ reservations # {}
    /\ hubTerminal' = terminal
    /\ UNCHANGED <<reservations, wireVars>>

Hub ==
    /\ \/ \E attempt \in Attempts :
            LateReserve(attempt) \/ LateWithdraw(attempt)
       \/ \E terminal \in Terminals :
            LateCommit(terminal) \/ HubEnds(terminal)
    /\ UNCHANGED <<record, hostVars, stopped, vendorVars, historyVars>>

\* The vendor does the work of a call, awaited or not.
Vendor ==
    /\ \E call \in maybe \ executed : executed' = executed \cup {call}
    /\ UNCHANGED <<record, hostVars, stopped, hubVars, wireVars, calls,
                   maybe, historyVars>>

-----------------------------------------------------------------------------

Caller   == Begin \/ BeginAnswered \/ BeginReused \/ DropRun \/ PullStop
Loop     == \/ StopSeen \/ Submit \/ SubmitExhausted \/ Observe \/ Reconcile
            \/ Settle \/ BackOff
Starting == \/ StartReturnsStream \/ StartNotSubmitted \/ StartFails
            \/ StartUnanswered
Draining == DrainTerminal \/ DrainEnded \/ DrainStopped
HubCall  == \/ ReserveTaken \/ Withdraw \/ CommitTaken
            \/ HubCommitted \/ HubAccepted \/ HubNeverArrived \/ HubCannotTell
            \/ HubRefuses \/ HubUnanswered
Cancel   == CancelConfirmed \/ CancelFailed

Next == \/ Caller \/ Loop \/ Starting \/ Draining \/ HubCall \/ Cancel
        \/ Hub \/ Vendor

Spec == Init /\ [][Next]_vars

\* A run is polled while its caller keeps it.  Every Hub call and start_turn
\* end by the attempt deadline, a cancel by the harness's own; the vendor is
\* not obliged to end a turn, nor the Hub to answer one.
Fairness ==
    /\ WF_vars(Loop) /\ WF_vars(HubCall) /\ WF_vars(Starting)
    /\ WF_vars(Cancel) /\ WF_vars(DrainStopped)

FairSpec == Spec /\ Fairness

-----------------------------------------------------------------------------
(* Properties                                                              *)

\* The record, the Hub's ledger and the run keep their shape, the attempt at
\* the limit of its type included.
TypeOK ==
    /\ record \in Record /\ turn \in Turn /\ run \in Run
    /\ answer \in Answer /\ reported \subseteq Terminals
    /\ stopped \in BOOLEAN /\ cancelOwed \in BOOLEAN
    /\ reservations \subseteq Attempts
    /\ hubTerminal \in Terminals \cup {NoTerminal}
    /\ lateReserve \subseteq Attempts /\ lateWithdraw \subseteq Attempts
    /\ lateCommit \subseteq Terminals
    /\ calls \in Nat /\ maybe \subseteq 1..calls /\ executed \subseteq maybe
    /\ offered \in Seq(Attempts)

\* However often runs are dropped, answers are lost and calls arrive late, the
\* vendor does the work of one logical turn at most once: a second dispatch
\* follows only a proof that the first never left.
AtMostOneExecution ==
    \A first, second \in executed : first = second

\* Every reservation the Hub is asked for names a strictly newer attempt than
\* the one before, across runs too, so the Hub can tell them apart.
AttemptsStrictlyIncrease ==
    \A later \in 2..Len(offered) : offered[later - 1] < offered[later]

\* A run answers Stopped only when every live turn a stop took over has had
\* its cancel confirmed, whatever run that cancel failed or was dropped in.
StoppedIsConfirmed ==
    answer.kind = "stopped" => ~cancelOwed

\* The loop never asks the record for a transition it refuses: no downgrade,
\* no stale attempt, no conflicting terminal.
RecordNeverRefuses ==
    ~record.refused

\* The operation is over: a caller was told so, the vendor ended it, or it was
\* stopped and no run is left.
Over ==
    \/ answer.kind \in {"refused", "committed", "already-committed"}
    \/ record.terminal # NoTerminal
    \/ stopped /\ run.pc = "idle"

\* Nothing is handed to the vendor once the operation is over, whatever later
\* runs the caller starts and whatever they find at the Hub.
OverIsFinal ==
    \A count \in 0..MaxAttempt :
        [](Over /\ calls = count => [](calls = count))

\* A stop ends the run it finds, wherever it is waiting.
StopEndsTheRun ==
    stopped ~> run.pc = "idle"

Operation == INSTANCE LogicalOperation WITH
    Outcomes   <- Terminals,
    Undecided  <- NoTerminal,
    executions <- Cardinality(executed),
    outcome    <- hubTerminal,
    told       <- reported

\* The loop, the Hub and the vendor together do what the recovery contract
\* promises of one logical turn.
ImplementsOperation == Operation!Spec

\* What `supervisor.rs` says of an undelivered withdrawal: no reason to stall
\* an operation proved not to have run.  Stated: when no dispatch can have
\* reached the vendor and the loop has moved on to a newer attempt, no run
\* ends on a contradiction charged to the Hub, which answers from its ledger.
WithdrawalNeverStalls ==
    maybe = {} /\ record.attempt > 1 => answer.kind # "contradiction"
=============================================================================
