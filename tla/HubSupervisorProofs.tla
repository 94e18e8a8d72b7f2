------------------------ MODULE HubSupervisorProofs ------------------------
(***************************************************************************)
(* What HubSupervisor does for every saturation point of the attempt       *)
(* counter and every set of terminals.  The invariant is split by subject: *)
(* where the run may be given what the record says (Consistent), which     *)
(* dispatch may have reached the vendor and what then keeps the Hub from   *)
(* denying it (Traceable), the outcomes told (Agreed), the attempts        *)
(* offered (Numbered) and the stop still owed (Owing).                     *)
(***************************************************************************)
EXTENDS HubSupervisor, FiniteSetTheorems, TLAPS

\* Whatever outcome any run ever answered is the one the Hub holds, though the
\* vendor's own, a late commit and the Hub's may all differ.
OneOutcomeIsTold ==
    reported \subseteq {hubTerminal}

\* The only attempt the record refuses to follow is the saturated one.
ExhaustedOnlyAtTheLimit ==
    answer.kind = "exhausted" => record.attempt = MaxAttempt

\* What the record says wherever the run is, and what a run leaves behind.
Consistent ==
    /\ ~record.refused
    /\ run.pc \in {"reserve", "start_turn", "withdraw"} =>
         record.dispatch = "AcceptanceUnknown" /\ record.terminal = NoTerminal
         /\ turn.reserved
    /\ run.pc = "reconcile" =>
         record.dispatch = "AcceptanceUnknown" /\ record.terminal = NoTerminal
    /\ run.pc \in {"drain", "observe_through_hub"} =>
         record.dispatch = "Accepted" /\ record.terminal = NoTerminal
    /\ run.pc = "commit" => record.terminal # NoTerminal
    /\ record.dispatch # "NotSubmitted" => turn.reserved
    /\ run.pc # "idle" => /\ answer = Silent
                          /\ ~turn.refused
                          /\ turn.settlement = NoTerminal
    /\ answer.kind = "refused" => turn.refused
    /\ answer.kind = "already-committed" => turn.settlement # NoTerminal
    /\ answer.kind = "committed" => record.terminal # NoTerminal

\* Only the latest call may have reached the vendor, and as long as it may
\* have, its reservation stands and the record does not say otherwise.
Traceable ==
    /\ \A call \in maybe : call = calls
    /\ maybe # {} => /\ record.attempt \in reservations
                     /\ record.attempt \notin lateWithdraw
                     /\ record.dispatch # "NotSubmitted"
                     /\ run.pc \notin {"reserve", "withdraw"}
    /\ run.pc \in {"reserve", "start_turn", "withdraw"} =>
         record.attempt \notin lateWithdraw
    /\ run.pc = "start_turn" => record.attempt \in reservations
    /\ \A attempt \in lateWithdraw : attempt <= record.attempt
    /\ ~turn.reserved => lateWithdraw = {}

\* Everything said of the outcome is what the Hub holds.
Agreed ==
    /\ run.fromHub => hubTerminal # NoTerminal /\ record.terminal = hubTerminal
    /\ turn.settlement \in {NoTerminal, hubTerminal}
    /\ reported \subseteq {hubTerminal} \ {NoTerminal}

\* The attempts offered, in order, none beyond the record's.
Numbered ==
    /\ turn.reserved <=> offered # << >>
    /\ \A index \in 1..Len(offered) : offered[index] <= record.attempt
    /\ AttemptsStrictlyIncrease
    /\ ExhaustedOnlyAtTheLimit

\* A stop that is owed is remembered by the turn.
Owing ==
    /\ cancelOwed => turn.unconfirmedStop
    /\ run.pc = "abandon" => turn.unconfirmedStop
    /\ StoppedIsConfirmed

Inv == TypeOK /\ Consistent /\ Traceable /\ Agreed /\ Numbered /\ Owing

-----------------------------------------------------------------------------

\* Recording a certainty that does not go back changes nothing else.
LEMMA DispatchRecorded ==
    ASSUME NEW old \in Record, NEW dispatch \in Dispatches,
           old.terminal = NoTerminal,
           old.dispatch = "Accepted" => dispatch = "Accepted",
           old.dispatch = "AcceptanceUnknown" => dispatch # "NotSubmitted"
    PROVE  LET new == RecordDispatch(old, old.attempt, dispatch)
           IN  /\ new \in Record /\ new.dispatch = dispatch
               /\ new.attempt = old.attempt /\ new.terminal = NoTerminal
               /\ new.refused = old.refused
  BY DEF RecordDispatch, MayRecordDispatch, Record

\* Proof of absence only takes back the certainty of an uncertain attempt.
LEMMA AbsenceRecorded ==
    ASSUME NEW old \in Record, old.terminal = NoTerminal,
           old.dispatch = "AcceptanceUnknown"
    PROVE  LET new == ReconcileNotSubmitted(old, old.attempt)
           IN  /\ new \in Record /\ new.dispatch = "NotSubmitted"
               /\ new.attempt = old.attempt /\ new.terminal = NoTerminal
               /\ new.refused = old.refused
  BY DEF ReconcileNotSubmitted, Record, Dispatches

\* The first outcome is recorded as it is.
LEMMA TerminalRecorded ==
    ASSUME NEW old \in Record, old.terminal = NoTerminal,
           NEW terminal \in Terminals
    PROVE  LET new == FinishRecord(old, old.attempt, terminal)
           IN  /\ new \in Record /\ new.terminal = terminal
               /\ new.attempt = old.attempt /\ new.dispatch = old.dispatch
               /\ new.refused = old.refused
  BY DEF FinishRecord, Record

\* What settling an operation leaves: no run, the answer, and what outlives it.
LEMMA SettledLeaves ==
    ASSUME turn \in Turn, NEW kind \in Kinds,
           NEW terminal \in Terminals \cup {NoTerminal}, Settled(kind, terminal)
    PROVE  /\ run' = NoRun /\ run' \in Run
           /\ turn' \in Turn /\ answer' \in Answer
           /\ answer' = [kind |-> kind, terminal |-> terminal]
           /\ answer'.kind = kind
           /\ reported' = (reported \cup {terminal}) \ {NoTerminal}
           /\ kind = "refused" => turn'.refused
           /\ turn.refused => turn'.refused
           /\ kind # "already-committed" => turn'.settlement = turn.settlement
           /\ kind = "already-committed" => turn'.settlement = terminal
           /\ turn'.unconfirmedStop = turn.unconfirmedStop
           /\ turn'.reserved = turn.reserved
<1>1. /\ run' = NoRun /\ run' \in Run /\ answer' \in Answer
      /\ answer' = [kind |-> kind, terminal |-> terminal] /\ answer'.kind = kind
      /\ reported' = (reported \cup {terminal}) \ {NoTerminal}
  BY DEF Settled, NoRun, Run, Places, Failures, Answer
<1>2. CASE kind = "refused"
  <2>1. turn' = [turn EXCEPT !.refused = TRUE]
    BY <1>2 DEF Settled, Turn
  <2>. QED
    BY <1>1, <1>2, <2>1 DEF Turn
<1>3. CASE kind # "refused"
  <2>1. turn' = [turn EXCEPT !.settlement =
                   IF kind = "already-committed" THEN terminal ELSE @]
    BY <1>3 DEF Settled, Turn
  <2>. QED
    BY <1>1, <1>3, <2>1 DEF Turn
<1>. QED
  BY <1>2, <1>3

\* Every step keeps the shape of the state.
LEMMA TypeStep ==
    ASSUME TypeOK, Consistent, [Next]_vars
    PROVE  TypeOK'
<1>. USE RecordAssumption DEF TypeOK, Consistent, Record, Turn, Run, Answer,
     Attempts, Dispatches, Places, Failures, Kinds, NoRun, Silent
<1>1. CASE Begin
  BY <1>1 DEF Begin, hubVars, wireVars, vendorVars, historyVars
<1>2. CASE BeginAnswered
  <2>1. CASE Settled("refused", NoTerminal)
    BY <1>2, <2>1, SettledLeaves DEF BeginAnswered, hubVars, wireVars,
         vendorVars, historyVars
  <2>2. CASE Settled("already-committed", turn.settlement)
    BY <1>2, <2>2, SettledLeaves DEF BeginAnswered, hubVars, wireVars,
         vendorVars, historyVars
  <2>. QED
    BY <1>2, <2>1, <2>2 DEF BeginAnswered
<1>3. CASE BeginReused
  BY <1>3 DEF BeginReused, Failed, hubVars, wireVars, vendorVars, historyVars
<1>4. CASE DropRun
  <2>1. run' \in Run
    BY <1>4 DEF DropRun
  <2>2. lateReserve' \subseteq Attempts /\ lateWithdraw' \subseteq Attempts
    BY <1>4 DEF DropRun, LeaveOnWire
  <2>3. lateCommit' \subseteq Terminals
    BY <1>4 DEF DropRun, LeaveOnWire
  <2>. QED
    BY <1>4, <2>1, <2>2, <2>3 DEF DropRun, hubVars, vendorVars, historyVars
<1>5. CASE PullStop
  BY <1>5 DEF PullStop, hostVars, hubVars, wireVars, vendorVars, historyVars
<1>6. CASE StopSeen
  <2>1. CASE run.holding \/ turn.unconfirmedStop
    BY <1>6, <2>1, ZenonT(60) DEF StopSeen, Abandon, hubVars, wireVars, vendorVars
  <2>2. CASE ~(run.holding \/ turn.unconfirmedStop)
    BY <1>6, <2>2, SettledLeaves DEF StopSeen, Abandon, hubVars, wireVars,
         vendorVars
  <2>. QED
    BY <2>1, <2>2
<1>7. CASE Submit
  <2>1. NextDispatch \in Attempts /\ record.dispatch = "NotSubmitted" /\
       record.terminal = NoTerminal
    BY <1>7 DEF Submit, Driving, Action, NextDispatch, NextAttempt
  <2>2. record' \in Record
    BY <1>7, <2>1 DEF Submit, Retry, RecordDispatch, MayRecordDispatch, Refuse
  <2>3. turn' \in Turn /\ run' \in Run
    BY <1>7 DEF Submit
  <2>4. offered' \in Seq(Attempts)
    <3>1. offered' = Append(offered, NextDispatch)
      BY <1>7 DEF Submit
    <3>. HIDE DEF NextDispatch
    <3>. QED
      BY <2>1, <3>1
  <2>. QED
    BY <1>7, <2>2, <2>3, <2>4 DEF Submit, hubVars, wireVars, vendorVars
<1>8. CASE SubmitExhausted
  BY <1>8 DEF SubmitExhausted, Driving, Failed, NextDispatch, MayRetry,
       NextAttempt, Action, hubVars, wireVars, vendorVars, historyVars
<1>9. CASE Observe
  BY <1>9 DEF Observe, Driving, Action, Continue, hubVars, wireVars,
       vendorVars, historyVars
<1>10. CASE Reconcile
  BY <1>10 DEF Reconcile, Driving, Action, Continue, hubVars, wireVars,
       vendorVars, historyVars
<1>11. CASE Settle
  <2>1. CASE run.fromHub
    <3>1. Settled("already-committed", record.terminal)
      BY <1>11, <2>1 DEF Settle
    <3>. QED
      BY <1>11, <2>1, <3>1, SettledLeaves DEF Settle, Driving, Action,
           hubVars, wireVars, vendorVars, historyVars
  <2>2. CASE ~run.fromHub
    BY <1>11, <2>2 DEF Settle, Driving, Action, Continue, hubVars, wireVars,
         vendorVars, historyVars
  <2>. QED
    BY <2>1, <2>2
<1>12. CASE BackOff
  BY <1>12 DEF BackOff, Continue, hubVars, wireVars, vendorVars, historyVars
<1>13. CASE ReserveTaken
  BY <1>13 DEF ReserveTaken, Continue, wireVars, vendorVars, historyVars
<1>14. CASE StartReturnsStream
  BY <1>14 DEF StartReturnsStream, RecordDispatch, MayRecordDispatch, Refuse,
       hubVars, wireVars, vendorVars, historyVars
<1>15. CASE StartNotSubmitted
  BY <1>15, ZenonT(60) DEF StartNotSubmitted, hubVars, wireVars, historyVars
<1>16. CASE StartFails
  BY <1>16 DEF StartFails, RecordDispatch, MayRecordDispatch, Refuse, Failed,
       hubVars, wireVars, vendorVars, historyVars
<1>17. CASE StartUnanswered
  BY <1>17 DEF StartUnanswered, Continue, hubVars, wireVars, vendorVars,
       historyVars
<1>18. CASE Withdraw
  <2>1. /\ record' \in Record /\ record'.dispatch = "NotSubmitted"
        /\ record'.attempt = record.attempt /\ record'.terminal = NoTerminal
        /\ record'.refused = record.refused
    BY <1>18, AbsenceRecorded DEF Withdraw
  <2>2. reservations' \subseteq Attempts /\ lateReserve' \subseteq Attempts
    BY <1>18 DEF Withdraw, LeaveOnWire, hubVars, wireVars, vendorVars,
         historyVars
  <2>3. lateWithdraw' \subseteq Attempts /\ lateCommit' \subseteq Terminals
    BY <1>18 DEF Withdraw, LeaveOnWire, hubVars, wireVars, vendorVars,
         historyVars
  <2>4. hubTerminal' = hubTerminal
    BY <1>18 DEF Withdraw, hubVars, wireVars, vendorVars, historyVars
  <2>5. CASE Continue("back_off")
    BY <1>18, <2>1, <2>2, <2>3, <2>4, <2>5 DEF Withdraw, Continue, hubVars,
         wireVars, vendorVars, historyVars
  <2>6. CASE Settled("refused", NoTerminal)
    <3>1. turn \in Turn /\ reported \subseteq Terminals
      OBVIOUS
    <3>2. /\ run' = NoRun /\ turn' \in Turn /\ answer' \in Answer
          /\ answer'.kind = "refused" /\ turn'.refused
          /\ turn'.reserved = turn.reserved /\ reported' \subseteq Terminals
      BY <3>1, <2>6, SettledLeaves
    <3>. QED
      BY <1>18, <2>1, <2>2, <2>3, <2>4, <3>2 DEF Withdraw, hubVars, wireVars,
           vendorVars, historyVars
  <2>7. CASE Failed("start-error")
    BY <1>18, <2>1, <2>2, <2>3, <2>4, <2>7 DEF Withdraw, Failed, hubVars,
         wireVars, vendorVars, historyVars
  <2>. QED
    BY <1>18, <2>5, <2>6, <2>7 DEF Withdraw
<1>19. CASE DrainTerminal
  BY <1>19, ZenonT(60) DEF DrainTerminal, FinishRecord, Refuse, hubVars, wireVars,
       vendorVars, historyVars
<1>20. CASE DrainEnded
  BY <1>20 DEF DrainEnded, hubVars, wireVars, vendorVars, historyVars
<1>21. CASE DrainStopped
  BY <1>21 DEF DrainStopped, Continue, hubVars, wireVars, vendorVars,
       historyVars
<1>22. CASE HubCommitted
  BY <1>22 DEF HubCommitted, Querying, HubStatus, FinishRecord, Refuse,
       hubVars, wireVars, vendorVars, historyVars
<1>23. CASE HubAccepted
  BY <1>23 DEF HubAccepted, Querying, HubStatus, RecordDispatch,
       MayRecordDispatch, Refuse, Continue, hubVars, wireVars, vendorVars,
       historyVars
<1>24. CASE HubNeverArrived
  <2>1. CASE run.pc = "reconcile"
    BY <1>24, <2>1, AbsenceRecorded DEF HubNeverArrived, Querying, HubStatus,
         Continue, hubVars, wireVars, vendorVars, historyVars
  <2>2. CASE run.pc # "reconcile"
    <3>1. Failed("contradiction") /\ UNCHANGED record
      BY <1>24, <2>2 DEF HubNeverArrived
    <3>. QED
      BY <1>24, <3>1 DEF HubNeverArrived, Failed, hubVars, wireVars,
           vendorVars, historyVars
  <2>. QED
    BY <2>1, <2>2
<1>25. CASE HubCannotTell
  <2>1. CASE Continue("back_off")
    BY <1>25, <2>1 DEF HubCannotTell, Querying, Continue, hubVars, wireVars,
         vendorVars, historyVars
  <2>2. CASE Settled("uncertain", NoTerminal)
    BY <1>25, <2>2, SettledLeaves DEF HubCannotTell, Querying, hubVars,
         wireVars, vendorVars, historyVars
  <2>. QED
    BY <1>25, <2>1, <2>2 DEF HubCannotTell
<1>26. CASE CommitTaken
  <2>1. CASE hubTerminal = NoTerminal
    BY <1>26, <2>1, SettledLeaves DEF CommitTaken, wireVars, vendorVars,
         historyVars
  <2>2. CASE hubTerminal # NoTerminal
    BY <1>26, <2>2, SettledLeaves DEF CommitTaken, wireVars, vendorVars,
         historyVars
  <2>. QED
    BY <2>1, <2>2
<1>27. CASE HubRefuses
  BY <1>27, SettledLeaves DEF HubRefuses, AwaitingHub, Querying, hubVars,
       wireVars, vendorVars, historyVars
<1>28. CASE HubUnanswered
  BY <1>28, SMTT(30) DEF HubUnanswered, AwaitingHub, Querying, LeaveOnWire, Continue,
       hubVars, vendorVars, historyVars
<1>29. CASE CancelConfirmed
  BY <1>29 DEF CancelConfirmed, hubVars, wireVars, vendorVars
<1>30. CASE CancelFailed
  BY <1>30 DEF CancelFailed, hubVars, wireVars, vendorVars, historyVars
<1>31. CASE Hub
  <2>1. ASSUME NEW attempt \in Attempts, LateReserve(attempt) PROVE TypeOK'
    BY <1>31, <2>1 DEF Hub, LateReserve, hostVars, wireVars, vendorVars,
         historyVars
  <2>2. ASSUME NEW attempt \in Attempts, LateWithdraw(attempt) PROVE TypeOK'
    BY <1>31, <2>2 DEF Hub, LateWithdraw, hostVars, wireVars, vendorVars,
         historyVars
  <2>3. ASSUME NEW terminal \in Terminals, LateCommit(terminal) PROVE TypeOK'
    BY <1>31, <2>3 DEF Hub, LateCommit, hostVars, wireVars, vendorVars,
         historyVars
  <2>4. ASSUME NEW terminal \in Terminals, HubEnds(terminal) PROVE TypeOK'
    BY <1>31, <2>4 DEF Hub, HubEnds, hostVars, wireVars, vendorVars,
         historyVars
  <2>. QED
    BY <1>31, <2>1, <2>2, <2>3, <2>4 DEF Hub
<1>32. CASE Vendor
  BY <1>32 DEF Vendor, hostVars, hubVars, wireVars, historyVars
<1>33. CASE UNCHANGED vars
  BY <1>33 DEF vars, hostVars, hubVars, wireVars, vendorVars, historyVars
<1>. QED
  BY <1>1, <1>2, <1>3, <1>4, <1>5, <1>6, <1>7, <1>8, <1>9, <1>10, <1>11,
       <1>12, <1>13, <1>14, <1>15, <1>16, <1>17, <1>18, <1>19, <1>20, <1>21,
       <1>22, <1>23, <1>24, <1>25, <1>26, <1>27, <1>28, <1>29, <1>30, <1>31,
       <1>32, <1>33
     DEF Next, Caller, Loop, Starting, Draining, HubCall, Cancel

\* Every step keeps the record in line with where the run is.
LEMMA ConsistentStep ==
    ASSUME TypeOK, Consistent, [Next]_vars
    PROVE  Consistent'
<1>. USE RecordAssumption DEF TypeOK, Consistent, Record, Turn, Run, Answer,
     Attempts, Dispatches, Places, Failures, Kinds, NoRun, Silent
<1>1. CASE Begin
  BY <1>1 DEF Begin, hubVars, wireVars, vendorVars, historyVars
<1>2. CASE BeginAnswered
  <2>1. CASE Settled("refused", NoTerminal)
    BY <1>2, <2>1, SettledLeaves DEF BeginAnswered, hubVars, wireVars,
         vendorVars, historyVars
  <2>2. CASE Settled("already-committed", turn.settlement)
    BY <1>2, <2>2, SettledLeaves DEF BeginAnswered, hubVars, wireVars,
         vendorVars, historyVars
  <2>. QED
    BY <1>2, <2>1, <2>2 DEF BeginAnswered
<1>3. CASE BeginReused
  BY <1>3 DEF BeginReused, Failed, hubVars, wireVars, vendorVars, historyVars
<1>4. CASE DropRun
  BY <1>4 DEF DropRun, LeaveOnWire, hubVars, vendorVars, historyVars
<1>5. CASE PullStop
  BY <1>5 DEF PullStop, hostVars, hubVars, wireVars, vendorVars, historyVars
<1>6. CASE StopSeen
  <2>1. CASE run.holding \/ turn.unconfirmedStop
    BY <1>6, <2>1, ZenonT(60) DEF StopSeen, Abandon, hubVars, wireVars, vendorVars
  <2>2. CASE ~(run.holding \/ turn.unconfirmedStop)
    BY <1>6, <2>2, SettledLeaves DEF StopSeen, Abandon, hubVars, wireVars,
         vendorVars
  <2>. QED
    BY <2>1, <2>2
<1>7. CASE Submit
  BY <1>7 DEF Submit, Driving, NextDispatch, MayRetry, Retry, RecordDispatch,
       MayRecordDispatch, Refuse, NextAttempt, Action, hubVars, wireVars,
       vendorVars
<1>8. CASE SubmitExhausted
  BY <1>8 DEF SubmitExhausted, Driving, Failed, NextDispatch, MayRetry,
       NextAttempt, Action, hubVars, wireVars, vendorVars, historyVars
<1>9. CASE Observe
  BY <1>9 DEF Observe, Driving, Action, Continue, hubVars, wireVars,
       vendorVars, historyVars
<1>10. CASE Reconcile
  BY <1>10 DEF Reconcile, Driving, Action, Continue, hubVars, wireVars,
       vendorVars, historyVars
<1>11. CASE Settle
  <2>1. CASE run.fromHub
    <3>1. Settled("already-committed", record.terminal)
      BY <1>11, <2>1 DEF Settle
    <3>. QED
      BY <1>11, <2>1, <3>1, SettledLeaves DEF Settle, Driving, Action,
           hubVars, wireVars, vendorVars, historyVars
  <2>2. CASE ~run.fromHub
    BY <1>11, <2>2 DEF Settle, Driving, Action, Continue, hubVars, wireVars,
         vendorVars, historyVars
  <2>. QED
    BY <2>1, <2>2
<1>12. CASE BackOff
  BY <1>12 DEF BackOff, Continue, hubVars, wireVars, vendorVars, historyVars
<1>13. CASE ReserveTaken
  BY <1>13 DEF ReserveTaken, Continue, wireVars, vendorVars, historyVars
<1>14. CASE StartReturnsStream
  BY <1>14 DEF StartReturnsStream, RecordDispatch, MayRecordDispatch, Refuse,
       hubVars, wireVars, vendorVars, historyVars
<1>15. CASE StartNotSubmitted
  BY <1>15 DEF StartNotSubmitted, hubVars, wireVars, historyVars
<1>16. CASE StartFails
  BY <1>16 DEF StartFails, RecordDispatch, MayRecordDispatch, Refuse, Failed,
       hubVars, wireVars, vendorVars, historyVars
<1>17. CASE StartUnanswered
  BY <1>17 DEF StartUnanswered, Continue, hubVars, wireVars, vendorVars,
       historyVars
<1>18. CASE Withdraw
  <2>1. /\ record' \in Record /\ record'.dispatch = "NotSubmitted"
        /\ record'.attempt = record.attempt /\ record'.terminal = NoTerminal
        /\ record'.refused = record.refused
    BY <1>18, AbsenceRecorded DEF Withdraw
  <2>2. reservations' \subseteq Attempts /\ lateReserve' \subseteq Attempts
    BY <1>18 DEF Withdraw, LeaveOnWire, hubVars, wireVars, vendorVars,
         historyVars
  <2>3. lateWithdraw' \subseteq Attempts /\ lateCommit' \subseteq Terminals
    BY <1>18 DEF Withdraw, LeaveOnWire, hubVars, wireVars, vendorVars,
         historyVars
  <2>4. hubTerminal' = hubTerminal
    BY <1>18 DEF Withdraw, hubVars, wireVars, vendorVars, historyVars
  <2>5. CASE Continue("back_off")
    BY <1>18, <2>1, <2>2, <2>3, <2>4, <2>5 DEF Withdraw, Continue, hubVars,
         wireVars, vendorVars, historyVars
  <2>6. CASE Settled("refused", NoTerminal)
    <3>1. turn \in Turn /\ reported \subseteq Terminals
      OBVIOUS
    <3>2. /\ run' = NoRun /\ turn' \in Turn /\ answer' \in Answer
          /\ answer'.kind = "refused" /\ turn'.refused
          /\ turn'.reserved = turn.reserved /\ reported' \subseteq Terminals
      BY <3>1, <2>6, SettledLeaves
    <3>. QED
      BY <1>18, <2>1, <2>2, <2>3, <2>4, <3>2 DEF Withdraw, hubVars, wireVars,
           vendorVars, historyVars
  <2>7. CASE Failed("start-error")
    BY <1>18, <2>1, <2>2, <2>3, <2>4, <2>7 DEF Withdraw, Failed, hubVars,
         wireVars, vendorVars, historyVars
  <2>. QED
    BY <1>18, <2>5, <2>6, <2>7 DEF Withdraw
<1>19. CASE DrainTerminal
  BY <1>19 DEF DrainTerminal, FinishRecord, Refuse, hubVars, wireVars,
       vendorVars, historyVars
<1>20. CASE DrainEnded
  BY <1>20 DEF DrainEnded, hubVars, wireVars, vendorVars, historyVars
<1>21. CASE DrainStopped
  BY <1>21 DEF DrainStopped, Continue, hubVars, wireVars, vendorVars,
       historyVars
<1>22. CASE HubCommitted
  BY <1>22 DEF HubCommitted, Querying, HubStatus, FinishRecord, Refuse,
       hubVars, wireVars, vendorVars, historyVars
<1>23. CASE HubAccepted
  BY <1>23 DEF HubAccepted, Querying, HubStatus, RecordDispatch,
       MayRecordDispatch, Refuse, Continue, hubVars, wireVars, vendorVars,
       historyVars
<1>24. CASE HubNeverArrived
  <2>1. CASE run.pc = "reconcile"
    BY <1>24, <2>1, AbsenceRecorded DEF HubNeverArrived, Querying, HubStatus,
         Continue, hubVars, wireVars, vendorVars, historyVars
  <2>2. CASE run.pc # "reconcile"
    <3>1. Failed("contradiction") /\ UNCHANGED record
      BY <1>24, <2>2 DEF HubNeverArrived
    <3>. QED
      BY <1>24, <3>1 DEF HubNeverArrived, Failed, hubVars, wireVars,
           vendorVars, historyVars
  <2>. QED
    BY <2>1, <2>2
<1>25. CASE HubCannotTell
  <2>1. CASE Continue("back_off")
    BY <1>25, <2>1 DEF HubCannotTell, Querying, Continue, hubVars, wireVars,
         vendorVars, historyVars
  <2>2. CASE Settled("uncertain", NoTerminal)
    BY <1>25, <2>2, SettledLeaves DEF HubCannotTell, Querying, hubVars,
         wireVars, vendorVars, historyVars
  <2>. QED
    BY <1>25, <2>1, <2>2 DEF HubCannotTell
<1>26. CASE CommitTaken
  <2>1. CASE hubTerminal = NoTerminal
    BY <1>26, <2>1, SettledLeaves DEF CommitTaken, wireVars, vendorVars,
         historyVars
  <2>2. CASE hubTerminal # NoTerminal
    BY <1>26, <2>2, SettledLeaves DEF CommitTaken, wireVars, vendorVars,
         historyVars
  <2>. QED
    BY <2>1, <2>2
<1>27. CASE HubRefuses
  BY <1>27, SettledLeaves DEF HubRefuses, AwaitingHub, Querying, hubVars,
       wireVars, vendorVars, historyVars
<1>28. CASE HubUnanswered
  BY <1>28 DEF HubUnanswered, AwaitingHub, Querying, LeaveOnWire, Continue,
       hubVars, vendorVars, historyVars
<1>29. CASE CancelConfirmed
  BY <1>29 DEF CancelConfirmed, hubVars, wireVars, vendorVars
<1>30. CASE CancelFailed
  BY <1>30 DEF CancelFailed, hubVars, wireVars, vendorVars, historyVars
<1>31. CASE Hub
  <2>1. ASSUME NEW attempt \in Attempts, LateReserve(attempt) PROVE
       Consistent'
    BY <1>31, <2>1 DEF Hub, LateReserve, hostVars, wireVars, vendorVars,
         historyVars
  <2>2. ASSUME NEW attempt \in Attempts, LateWithdraw(attempt) PROVE
       Consistent'
    BY <1>31, <2>2 DEF Hub, LateWithdraw, hostVars, wireVars, vendorVars,
         historyVars
  <2>3. ASSUME NEW terminal \in Terminals, LateCommit(terminal) PROVE
       Consistent'
    BY <1>31, <2>3 DEF Hub, LateCommit, hostVars, wireVars, vendorVars,
         historyVars
  <2>4. ASSUME NEW terminal \in Terminals, HubEnds(terminal) PROVE Consistent'
    BY <1>31, <2>4 DEF Hub, HubEnds, hostVars, wireVars, vendorVars,
         historyVars
  <2>. QED
    BY <1>31, <2>1, <2>2, <2>3, <2>4 DEF Hub
<1>32. CASE Vendor
  BY <1>32 DEF Vendor, hostVars, hubVars, wireVars, historyVars
<1>33. CASE UNCHANGED vars
  BY <1>33 DEF vars, hostVars, hubVars, wireVars, vendorVars, historyVars
<1>. QED
  BY <1>1, <1>2, <1>3, <1>4, <1>5, <1>6, <1>7, <1>8, <1>9, <1>10, <1>11,
       <1>12, <1>13, <1>14, <1>15, <1>16, <1>17, <1>18, <1>19, <1>20, <1>21,
       <1>22, <1>23, <1>24, <1>25, <1>26, <1>27, <1>28, <1>29, <1>30, <1>31,
       <1>32, <1>33
     DEF Next, Caller, Loop, Starting, Draining, HubCall, Cancel

\* Every step keeps the one call that may have run traceable at the Hub.
LEMMA TraceableStep ==
    ASSUME TypeOK, Consistent, Traceable, [Next]_vars
    PROVE  Traceable'
<1>. USE RecordAssumption DEF TypeOK, Consistent, Traceable, Record, Turn,
     Run, Answer, Attempts, Dispatches, Places, Failures, Kinds, NoRun, Silent
<1>1. CASE Begin
  BY <1>1 DEF Begin, hubVars, wireVars, vendorVars, historyVars
<1>2. CASE BeginAnswered
  <2>1. CASE Settled("refused", NoTerminal)
    BY <1>2, <2>1, SettledLeaves DEF BeginAnswered, hubVars, wireVars,
         vendorVars, historyVars
  <2>2. CASE Settled("already-committed", turn.settlement)
    BY <1>2, <2>2, SettledLeaves DEF BeginAnswered, hubVars, wireVars,
         vendorVars, historyVars
  <2>. QED
    BY <1>2, <2>1, <2>2 DEF BeginAnswered
<1>3. CASE BeginReused
  BY <1>3 DEF BeginReused, Failed, hubVars, wireVars, vendorVars, historyVars
<1>4. CASE DropRun
  <2>1. CASE run.pc = "withdraw"
    <3>1. maybe' = {} /\ turn'.reserved /\ run'.pc = "idle"
      BY <1>4, <2>1 DEF DropRun, vendorVars
    <3>2. lateWithdraw' = lateWithdraw \cup {record.attempt}
      BY <1>4, <2>1 DEF DropRun, LeaveOnWire
    <3>. QED
      BY <1>4, <3>1, <3>2 DEF DropRun
  <2>2. CASE run.pc # "withdraw"
    <3>1. lateWithdraw' = lateWithdraw /\ run'.pc = "idle"
      BY <1>4, <2>2 DEF DropRun, LeaveOnWire
    <3>. QED
      BY <1>4, <3>1 DEF DropRun, hubVars, vendorVars
  <2>. QED
    BY <2>1, <2>2
<1>5. CASE PullStop
  BY <1>5 DEF PullStop, hostVars, hubVars, wireVars, vendorVars, historyVars
<1>6. CASE StopSeen
  <2>1. CASE run.holding \/ turn.unconfirmedStop
    BY <1>6, <2>1 DEF StopSeen, Abandon, hubVars, wireVars, vendorVars
  <2>2. CASE ~(run.holding \/ turn.unconfirmedStop)
    BY <1>6, <2>2, SettledLeaves DEF StopSeen, Abandon, hubVars, wireVars,
         vendorVars
  <2>. QED
    BY <2>1, <2>2
<1>7. CASE Submit
  BY <1>7 DEF Submit, Driving, NextDispatch, MayRetry, Retry, RecordDispatch,
       MayRecordDispatch, Refuse, NextAttempt, Action, hubVars, wireVars,
       vendorVars
<1>8. CASE SubmitExhausted
  BY <1>8 DEF SubmitExhausted, Driving, Failed, NextDispatch, MayRetry,
       NextAttempt, Action, hubVars, wireVars, vendorVars, historyVars
<1>9. CASE Observe
  BY <1>9 DEF Observe, Driving, Action, Continue, hubVars, wireVars,
       vendorVars, historyVars
<1>10. CASE Reconcile
  BY <1>10 DEF Reconcile, Driving, Action, Continue, hubVars, wireVars,
       vendorVars, historyVars
<1>11. CASE Settle
  <2>1. CASE run.fromHub
    <3>1. Settled("already-committed", record.terminal)
      BY <1>11, <2>1 DEF Settle
    <3>. QED
      BY <1>11, <2>1, <3>1, SettledLeaves DEF Settle, Driving, Action,
           hubVars, wireVars, vendorVars, historyVars
  <2>2. CASE ~run.fromHub
    BY <1>11, <2>2 DEF Settle, Driving, Action, Continue, hubVars, wireVars,
         vendorVars, historyVars
  <2>. QED
    BY <2>1, <2>2
<1>12. CASE BackOff
  BY <1>12 DEF BackOff, Continue, hubVars, wireVars, vendorVars, historyVars
<1>13. CASE ReserveTaken
  BY <1>13 DEF ReserveTaken, Continue, wireVars, vendorVars, historyVars
<1>14. CASE StartReturnsStream
  BY <1>14 DEF StartReturnsStream, RecordDispatch, MayRecordDispatch, Refuse,
       hubVars, wireVars, vendorVars, historyVars
<1>15. CASE StartNotSubmitted
  BY <1>15 DEF StartNotSubmitted, hubVars, wireVars, historyVars
<1>16. CASE StartFails
  BY <1>16 DEF StartFails, RecordDispatch, MayRecordDispatch, Refuse, Failed,
       hubVars, wireVars, vendorVars, historyVars
<1>17. CASE StartUnanswered
  BY <1>17 DEF StartUnanswered, Continue, hubVars, wireVars, vendorVars,
       historyVars
<1>18. CASE Withdraw
  <2>1. turn \in Turn /\ turn.reserved /\ run.pc = "withdraw" /\ maybe' = {}
    BY <1>18 DEF Withdraw, vendorVars
  <2>2. record'.attempt = record.attempt
    BY <1>18, AbsenceRecorded DEF Withdraw
  <2>3. run'.pc \in {"back_off", "idle"} /\ turn'.reserved
    <3>1. CASE Continue("back_off")
      BY <2>1, <3>1 DEF Continue
    <3>2. CASE Settled("refused", NoTerminal)
      <4>1. run' = NoRun
        BY <2>1, <3>2, SettledLeaves
      <4>2. turn'.reserved = turn.reserved
        BY <2>1, <3>2, SettledLeaves
      <4>. QED
        BY <2>1, <4>1, <4>2
    <3>3. CASE Failed("start-error")
      BY <2>1, <3>3 DEF Failed
    <3>. QED
      BY <1>18, <3>1, <3>2, <3>3 DEF Withdraw
  <2>4. lateWithdraw' \subseteq lateWithdraw \cup {record.attempt}
    BY <1>18 DEF Withdraw, LeaveOnWire, wireVars
  <2>. QED
    BY <2>1, <2>2, <2>3, <2>4
<1>19. CASE DrainTerminal
  BY <1>19 DEF DrainTerminal, FinishRecord, Refuse, hubVars, wireVars,
       vendorVars, historyVars
<1>20. CASE DrainEnded
  BY <1>20 DEF DrainEnded, hubVars, wireVars, vendorVars, historyVars
<1>21. CASE DrainStopped
  BY <1>21 DEF DrainStopped, Continue, hubVars, wireVars, vendorVars,
       historyVars
<1>22. CASE HubCommitted
  BY <1>22 DEF HubCommitted, Querying, HubStatus, FinishRecord, Refuse,
       hubVars, wireVars, vendorVars, historyVars
<1>23. CASE HubAccepted
  BY <1>23, ZenonT(60) DEF HubAccepted, Querying, HubStatus, RecordDispatch,
       MayRecordDispatch, Refuse, Continue, hubVars, wireVars, vendorVars,
       historyVars
<1>24. CASE HubNeverArrived
  <2>1. CASE run.pc = "reconcile"
    BY <1>24, <2>1, AbsenceRecorded DEF HubNeverArrived, Querying, HubStatus,
         Continue, hubVars, wireVars, vendorVars, historyVars
  <2>2. CASE run.pc # "reconcile"
    <3>1. Failed("contradiction") /\ UNCHANGED record
      BY <1>24, <2>2 DEF HubNeverArrived
    <3>. QED
      BY <1>24, <3>1 DEF HubNeverArrived, Failed, hubVars, wireVars,
           vendorVars, historyVars
  <2>. QED
    BY <2>1, <2>2
<1>25. CASE HubCannotTell
  <2>1. CASE Continue("back_off")
    BY <1>25, <2>1 DEF HubCannotTell, Querying, Continue, hubVars, wireVars,
         vendorVars, historyVars
  <2>2. CASE Settled("uncertain", NoTerminal)
    BY <1>25, <2>2, SettledLeaves DEF HubCannotTell, Querying, hubVars,
         wireVars, vendorVars, historyVars
  <2>. QED
    BY <1>25, <2>1, <2>2 DEF HubCannotTell
<1>26. CASE CommitTaken
  <2>1. CASE hubTerminal = NoTerminal
    BY <1>26, <2>1, SettledLeaves DEF CommitTaken, wireVars, vendorVars,
         historyVars
  <2>2. CASE hubTerminal # NoTerminal
    BY <1>26, <2>2, SettledLeaves DEF CommitTaken, wireVars, vendorVars,
         historyVars
  <2>. QED
    BY <2>1, <2>2
<1>27. CASE HubRefuses
  BY <1>27, SettledLeaves DEF HubRefuses, AwaitingHub, Querying, hubVars,
       wireVars, vendorVars, historyVars
<1>28. CASE HubUnanswered
  BY <1>28 DEF HubUnanswered, AwaitingHub, Querying, LeaveOnWire, Continue,
       hubVars, vendorVars, historyVars
<1>29. CASE CancelConfirmed
  BY <1>29 DEF CancelConfirmed, hubVars, wireVars, vendorVars
<1>30. CASE CancelFailed
  BY <1>30 DEF CancelFailed, hubVars, wireVars, vendorVars, historyVars
<1>31. CASE Hub
  <2>1. ASSUME NEW attempt \in Attempts, LateReserve(attempt) PROVE Traceable'
    BY <1>31, <2>1 DEF Hub, LateReserve, hostVars, wireVars, vendorVars,
         historyVars
  <2>2. ASSUME NEW attempt \in Attempts, LateWithdraw(attempt) PROVE
       Traceable'
    BY <1>31, <2>2 DEF Hub, LateWithdraw, hostVars, wireVars, vendorVars,
         historyVars
  <2>3. ASSUME NEW terminal \in Terminals, LateCommit(terminal) PROVE
       Traceable'
    BY <1>31, <2>3 DEF Hub, LateCommit, hostVars, wireVars, vendorVars,
         historyVars
  <2>4. ASSUME NEW terminal \in Terminals, HubEnds(terminal) PROVE Traceable'
    BY <1>31, <2>4 DEF Hub, HubEnds, hostVars, wireVars, vendorVars,
         historyVars
  <2>. QED
    BY <1>31, <2>1, <2>2, <2>3, <2>4 DEF Hub
<1>32. CASE Vendor
  BY <1>32 DEF Vendor, hostVars, hubVars, wireVars, historyVars
<1>33. CASE UNCHANGED vars
  BY <1>33 DEF vars, hostVars, hubVars, wireVars, vendorVars, historyVars
<1>. QED
  BY <1>1, <1>2, <1>3, <1>4, <1>5, <1>6, <1>7, <1>8, <1>9, <1>10, <1>11,
       <1>12, <1>13, <1>14, <1>15, <1>16, <1>17, <1>18, <1>19, <1>20, <1>21,
       <1>22, <1>23, <1>24, <1>25, <1>26, <1>27, <1>28, <1>29, <1>30, <1>31,
       <1>32, <1>33
     DEF Next, Caller, Loop, Starting, Draining, HubCall, Cancel

\* Every step tells only what the Hub holds.
LEMMA AgreedStep ==
    ASSUME TypeOK, Consistent, Agreed, [Next]_vars
    PROVE  Agreed'
<1>. USE RecordAssumption DEF TypeOK, Consistent, Agreed, Record, Turn, Run,
     Answer, Attempts, Dispatches, Places, Failures, Kinds, NoRun, Silent
<1>1. CASE Begin
  BY <1>1 DEF Begin, hubVars, wireVars, vendorVars, historyVars
<1>2. CASE BeginAnswered
  <2>1. CASE Settled("refused", NoTerminal)
    BY <1>2, <2>1, SettledLeaves DEF BeginAnswered, hubVars, wireVars,
         vendorVars, historyVars
  <2>2. CASE Settled("already-committed", turn.settlement)
    BY <1>2, <2>2, SettledLeaves DEF BeginAnswered, hubVars, wireVars,
         vendorVars, historyVars
  <2>. QED
    BY <1>2, <2>1, <2>2 DEF BeginAnswered
<1>3. CASE BeginReused
  BY <1>3 DEF BeginReused, Failed, hubVars, wireVars, vendorVars, historyVars
<1>4. CASE DropRun
  BY <1>4 DEF DropRun, LeaveOnWire, hubVars, vendorVars, historyVars
<1>5. CASE PullStop
  BY <1>5 DEF PullStop, hostVars, hubVars, wireVars, vendorVars, historyVars
<1>6. CASE StopSeen
  <2>1. CASE run.holding \/ turn.unconfirmedStop
    BY <1>6, <2>1, ZenonT(60) DEF StopSeen, Abandon, hubVars, wireVars, vendorVars
  <2>2. CASE ~(run.holding \/ turn.unconfirmedStop)
    BY <1>6, <2>2, SettledLeaves DEF StopSeen, Abandon, hubVars, wireVars,
         vendorVars
  <2>. QED
    BY <2>1, <2>2
<1>7. CASE Submit
  BY <1>7 DEF Submit, Driving, NextDispatch, MayRetry, Retry, RecordDispatch,
       MayRecordDispatch, Refuse, NextAttempt, Action, hubVars, wireVars,
       vendorVars
<1>8. CASE SubmitExhausted
  BY <1>8 DEF SubmitExhausted, Driving, Failed, NextDispatch, MayRetry,
       NextAttempt, Action, hubVars, wireVars, vendorVars, historyVars
<1>9. CASE Observe
  BY <1>9 DEF Observe, Driving, Action, Continue, hubVars, wireVars,
       vendorVars, historyVars
<1>10. CASE Reconcile
  BY <1>10 DEF Reconcile, Driving, Action, Continue, hubVars, wireVars,
       vendorVars, historyVars
<1>11. CASE Settle
  <2>1. CASE run.fromHub
    <3>1. Settled("already-committed", record.terminal)
      BY <1>11, <2>1 DEF Settle
    <3>. QED
      BY <1>11, <2>1, <3>1, SettledLeaves DEF Settle, Driving, Action,
           hubVars, wireVars, vendorVars, historyVars
  <2>2. CASE ~run.fromHub
    BY <1>11, <2>2 DEF Settle, Driving, Action, Continue, hubVars, wireVars,
         vendorVars, historyVars
  <2>. QED
    BY <2>1, <2>2
<1>12. CASE BackOff
  BY <1>12 DEF BackOff, Continue, hubVars, wireVars, vendorVars, historyVars
<1>13. CASE ReserveTaken
  BY <1>13 DEF ReserveTaken, Continue, wireVars, vendorVars, historyVars
<1>14. CASE StartReturnsStream
  BY <1>14 DEF StartReturnsStream, RecordDispatch, MayRecordDispatch, Refuse,
       hubVars, wireVars, vendorVars, historyVars
<1>15. CASE StartNotSubmitted
  BY <1>15 DEF StartNotSubmitted, hubVars, wireVars, historyVars
<1>16. CASE StartFails
  BY <1>16 DEF StartFails, RecordDispatch, MayRecordDispatch, Refuse, Failed,
       hubVars, wireVars, vendorVars, historyVars
<1>17. CASE StartUnanswered
  BY <1>17 DEF StartUnanswered, Continue, hubVars, wireVars, vendorVars,
       historyVars
<1>18. CASE Withdraw
  <2>1. turn \in Turn /\ ~run.fromHub /\ hubTerminal' = hubTerminal
    BY <1>18 DEF Withdraw, hubVars
  <2>2. CASE Continue("back_off")
    BY <2>1, <2>2 DEF Continue
  <2>3. CASE Settled("refused", NoTerminal)
    <3>1. reported' = (reported \cup {NoTerminal}) \ {NoTerminal}
      BY <2>1, <2>3, SettledLeaves
    <3>2. run' = NoRun /\ turn'.settlement = turn.settlement
      BY <2>1, <2>3, SettledLeaves
    <3>. QED
      BY <2>1, <3>1, <3>2
  <2>4. CASE Failed("start-error")
    BY <2>1, <2>4 DEF Failed
  <2>. QED
    BY <1>18, <2>2, <2>3, <2>4 DEF Withdraw
<1>19. CASE DrainTerminal
  BY <1>19 DEF DrainTerminal, FinishRecord, Refuse, hubVars, wireVars,
       vendorVars, historyVars
<1>20. CASE DrainEnded
  BY <1>20 DEF DrainEnded, hubVars, wireVars, vendorVars, historyVars
<1>21. CASE DrainStopped
  BY <1>21 DEF DrainStopped, Continue, hubVars, wireVars, vendorVars,
       historyVars
<1>22. CASE HubCommitted
  BY <1>22 DEF HubCommitted, Querying, HubStatus, FinishRecord, Refuse,
       hubVars, wireVars, vendorVars, historyVars
<1>23. CASE HubAccepted
  BY <1>23 DEF HubAccepted, Querying, HubStatus, RecordDispatch,
       MayRecordDispatch, Refuse, Continue, hubVars, wireVars, vendorVars,
       historyVars
<1>24. CASE HubNeverArrived
  <2>1. CASE run.pc = "reconcile"
    BY <1>24, <2>1, AbsenceRecorded DEF HubNeverArrived, Querying, HubStatus,
         Continue, hubVars, wireVars, vendorVars, historyVars
  <2>2. CASE run.pc # "reconcile"
    <3>1. Failed("contradiction") /\ UNCHANGED record
      BY <1>24, <2>2 DEF HubNeverArrived
    <3>. QED
      BY <1>24, <3>1 DEF HubNeverArrived, Failed, hubVars, wireVars,
           vendorVars, historyVars
  <2>. QED
    BY <2>1, <2>2
<1>25. CASE HubCannotTell
  <2>1. CASE Continue("back_off")
    BY <1>25, <2>1 DEF HubCannotTell, Querying, Continue, hubVars, wireVars,
         vendorVars, historyVars
  <2>2. CASE Settled("uncertain", NoTerminal)
    BY <1>25, <2>2, SettledLeaves DEF HubCannotTell, Querying, hubVars,
         wireVars, vendorVars, historyVars
  <2>. QED
    BY <1>25, <2>1, <2>2 DEF HubCannotTell
<1>26. CASE CommitTaken
  <2>1. CASE hubTerminal = NoTerminal
    BY <1>26, <2>1, SettledLeaves DEF CommitTaken, wireVars, vendorVars,
         historyVars
  <2>2. CASE hubTerminal # NoTerminal
    BY <1>26, <2>2, SettledLeaves DEF CommitTaken, wireVars, vendorVars,
         historyVars
  <2>. QED
    BY <2>1, <2>2
<1>27. CASE HubRefuses
  BY <1>27, SettledLeaves DEF HubRefuses, AwaitingHub, Querying, hubVars,
       wireVars, vendorVars, historyVars
<1>28. CASE HubUnanswered
  BY <1>28 DEF HubUnanswered, AwaitingHub, Querying, LeaveOnWire, Continue,
       hubVars, vendorVars, historyVars
<1>29. CASE CancelConfirmed
  BY <1>29 DEF CancelConfirmed, hubVars, wireVars, vendorVars
<1>30. CASE CancelFailed
  BY <1>30 DEF CancelFailed, hubVars, wireVars, vendorVars, historyVars
<1>31. CASE Hub
  <2>1. ASSUME NEW attempt \in Attempts, LateReserve(attempt) PROVE Agreed'
    BY <1>31, <2>1 DEF Hub, LateReserve, hostVars, wireVars, vendorVars,
         historyVars
  <2>2. ASSUME NEW attempt \in Attempts, LateWithdraw(attempt) PROVE Agreed'
    BY <1>31, <2>2 DEF Hub, LateWithdraw, hostVars, wireVars, vendorVars,
         historyVars
  <2>3. ASSUME NEW terminal \in Terminals, LateCommit(terminal) PROVE Agreed'
    BY <1>31, <2>3 DEF Hub, LateCommit, hostVars, wireVars, vendorVars,
         historyVars
  <2>4. ASSUME NEW terminal \in Terminals, HubEnds(terminal) PROVE Agreed'
    BY <1>31, <2>4 DEF Hub, HubEnds, hostVars, wireVars, vendorVars,
         historyVars
  <2>. QED
    BY <1>31, <2>1, <2>2, <2>3, <2>4 DEF Hub
<1>32. CASE Vendor
  BY <1>32 DEF Vendor, hostVars, hubVars, wireVars, historyVars
<1>33. CASE UNCHANGED vars
  BY <1>33 DEF vars, hostVars, hubVars, wireVars, vendorVars, historyVars
<1>. QED
  BY <1>1, <1>2, <1>3, <1>4, <1>5, <1>6, <1>7, <1>8, <1>9, <1>10, <1>11,
       <1>12, <1>13, <1>14, <1>15, <1>16, <1>17, <1>18, <1>19, <1>20, <1>21,
       <1>22, <1>23, <1>24, <1>25, <1>26, <1>27, <1>28, <1>29, <1>30, <1>31,
       <1>32, <1>33
     DEF Next, Caller, Loop, Starting, Draining, HubCall, Cancel

\* Every step offers a newer attempt or none.
LEMMA NumberedStep ==
    ASSUME TypeOK, Consistent, Numbered, [Next]_vars
    PROVE  Numbered'
<1>. USE RecordAssumption DEF TypeOK, Consistent, Numbered,
     AttemptsStrictlyIncrease, ExhaustedOnlyAtTheLimit, Record, Turn, Run,
     Answer, Attempts, Dispatches, Places, Failures, Kinds, NoRun, Silent
<1>1. CASE Begin
  BY <1>1 DEF Begin, hubVars, wireVars, vendorVars, historyVars
<1>2. CASE BeginAnswered
  <2>1. CASE Settled("refused", NoTerminal)
    BY <1>2, <2>1, SettledLeaves DEF BeginAnswered, hubVars, wireVars,
         vendorVars, historyVars
  <2>2. CASE Settled("already-committed", turn.settlement)
    BY <1>2, <2>2, SettledLeaves DEF BeginAnswered, hubVars, wireVars,
         vendorVars, historyVars
  <2>. QED
    BY <1>2, <2>1, <2>2 DEF BeginAnswered
<1>3. CASE BeginReused
  BY <1>3 DEF BeginReused, Failed, hubVars, wireVars, vendorVars, historyVars
<1>4. CASE DropRun
  BY <1>4 DEF DropRun, LeaveOnWire, hubVars, vendorVars, historyVars
<1>5. CASE PullStop
  BY <1>5 DEF PullStop, hostVars, hubVars, wireVars, vendorVars, historyVars
<1>6. CASE StopSeen
  <2>1. CASE run.holding \/ turn.unconfirmedStop
    BY <1>6, <2>1 DEF StopSeen, Abandon, hubVars, wireVars, vendorVars
  <2>2. CASE ~(run.holding \/ turn.unconfirmedStop)
    BY <1>6, <2>2, SettledLeaves DEF StopSeen, Abandon, hubVars, wireVars,
         vendorVars
  <2>. QED
    BY <2>1, <2>2
<1>7. CASE Submit
  BY <1>7, SMTT(30) DEF Submit, Driving, NextDispatch, MayRetry, Retry, RecordDispatch,
       MayRecordDispatch, Refuse, NextAttempt, Action, hubVars, wireVars,
       vendorVars
<1>8. CASE SubmitExhausted
  BY <1>8 DEF SubmitExhausted, Driving, Failed, NextDispatch, MayRetry,
       NextAttempt, Action, hubVars, wireVars, vendorVars, historyVars
<1>9. CASE Observe
  BY <1>9 DEF Observe, Driving, Action, Continue, hubVars, wireVars,
       vendorVars, historyVars
<1>10. CASE Reconcile
  BY <1>10 DEF Reconcile, Driving, Action, Continue, hubVars, wireVars,
       vendorVars, historyVars
<1>11. CASE Settle
  <2>1. CASE run.fromHub
    <3>1. Settled("already-committed", record.terminal)
      BY <1>11, <2>1 DEF Settle
    <3>. QED
      BY <1>11, <2>1, <3>1, SettledLeaves DEF Settle, Driving, Action,
           hubVars, wireVars, vendorVars, historyVars
  <2>2. CASE ~run.fromHub
    BY <1>11, <2>2 DEF Settle, Driving, Action, Continue, hubVars, wireVars,
         vendorVars, historyVars
  <2>. QED
    BY <2>1, <2>2
<1>12. CASE BackOff
  BY <1>12 DEF BackOff, Continue, hubVars, wireVars, vendorVars, historyVars
<1>13. CASE ReserveTaken
  BY <1>13 DEF ReserveTaken, Continue, wireVars, vendorVars, historyVars
<1>14. CASE StartReturnsStream
  BY <1>14 DEF StartReturnsStream, RecordDispatch, MayRecordDispatch, Refuse,
       hubVars, wireVars, vendorVars, historyVars
<1>15. CASE StartNotSubmitted
  BY <1>15 DEF StartNotSubmitted, hubVars, wireVars, historyVars
<1>16. CASE StartFails
  BY <1>16 DEF StartFails, RecordDispatch, MayRecordDispatch, Refuse, Failed,
       hubVars, wireVars, vendorVars, historyVars
<1>17. CASE StartUnanswered
  BY <1>17 DEF StartUnanswered, Continue, hubVars, wireVars, vendorVars,
       historyVars
<1>18. CASE Withdraw
  <2>1. /\ record' \in Record /\ record'.dispatch = "NotSubmitted"
        /\ record'.attempt = record.attempt /\ record'.terminal = NoTerminal
        /\ record'.refused = record.refused
    BY <1>18, AbsenceRecorded DEF Withdraw
  <2>2. reservations' \subseteq Attempts /\ lateReserve' \subseteq Attempts
    BY <1>18 DEF Withdraw, LeaveOnWire, hubVars, wireVars, vendorVars,
         historyVars
  <2>3. lateWithdraw' \subseteq Attempts /\ lateCommit' \subseteq Terminals
    BY <1>18 DEF Withdraw, LeaveOnWire, hubVars, wireVars, vendorVars,
         historyVars
  <2>4. hubTerminal' = hubTerminal
    BY <1>18 DEF Withdraw, hubVars, wireVars, vendorVars, historyVars
  <2>5. CASE Continue("back_off")
    BY <1>18, <2>1, <2>2, <2>3, <2>4, <2>5 DEF Withdraw, Continue, hubVars,
         wireVars, vendorVars, historyVars
  <2>6. CASE Settled("refused", NoTerminal)
    <3>1. turn \in Turn /\ reported \subseteq Terminals
      OBVIOUS
    <3>2. /\ run' = NoRun /\ turn' \in Turn /\ answer' \in Answer
          /\ answer'.kind = "refused" /\ turn'.refused
          /\ turn'.reserved = turn.reserved /\ reported' \subseteq Terminals
      BY <3>1, <2>6, SettledLeaves
    <3>. QED
      BY <1>18, <2>1, <2>2, <2>3, <2>4, <3>2 DEF Withdraw, hubVars, wireVars,
           vendorVars, historyVars
  <2>7. CASE Failed("start-error")
    BY <1>18, <2>1, <2>2, <2>3, <2>4, <2>7 DEF Withdraw, Failed, hubVars,
         wireVars, vendorVars, historyVars
  <2>. QED
    BY <1>18, <2>5, <2>6, <2>7 DEF Withdraw
<1>19. CASE DrainTerminal
  BY <1>19 DEF DrainTerminal, FinishRecord, Refuse, hubVars, wireVars,
       vendorVars, historyVars
<1>20. CASE DrainEnded
  BY <1>20 DEF DrainEnded, hubVars, wireVars, vendorVars, historyVars
<1>21. CASE DrainStopped
  BY <1>21 DEF DrainStopped, Continue, hubVars, wireVars, vendorVars,
       historyVars
<1>22. CASE HubCommitted
  BY <1>22 DEF HubCommitted, Querying, HubStatus, FinishRecord, Refuse,
       hubVars, wireVars, vendorVars, historyVars
<1>23. CASE HubAccepted
  BY <1>23 DEF HubAccepted, Querying, HubStatus, RecordDispatch,
       MayRecordDispatch, Refuse, Continue, hubVars, wireVars, vendorVars,
       historyVars
<1>24. CASE HubNeverArrived
  <2>1. CASE run.pc = "reconcile"
    BY <1>24, <2>1, AbsenceRecorded DEF HubNeverArrived, Querying, HubStatus,
         Continue, hubVars, wireVars, vendorVars, historyVars
  <2>2. CASE run.pc # "reconcile"
    <3>1. Failed("contradiction") /\ UNCHANGED record
      BY <1>24, <2>2 DEF HubNeverArrived
    <3>. QED
      BY <1>24, <3>1 DEF HubNeverArrived, Failed, hubVars, wireVars,
           vendorVars, historyVars
  <2>. QED
    BY <2>1, <2>2
<1>25. CASE HubCannotTell
  <2>1. CASE Continue("back_off")
    BY <1>25, <2>1 DEF HubCannotTell, Querying, Continue, hubVars, wireVars,
         vendorVars, historyVars
  <2>2. CASE Settled("uncertain", NoTerminal)
    BY <1>25, <2>2, SettledLeaves DEF HubCannotTell, Querying, hubVars,
         wireVars, vendorVars, historyVars
  <2>. QED
    BY <1>25, <2>1, <2>2 DEF HubCannotTell
<1>26. CASE CommitTaken
  <2>1. CASE hubTerminal = NoTerminal
    BY <1>26, <2>1, SettledLeaves DEF CommitTaken, wireVars, vendorVars,
         historyVars
  <2>2. CASE hubTerminal # NoTerminal
    BY <1>26, <2>2, SettledLeaves DEF CommitTaken, wireVars, vendorVars,
         historyVars
  <2>. QED
    BY <2>1, <2>2
<1>27. CASE HubRefuses
  BY <1>27, SettledLeaves DEF HubRefuses, AwaitingHub, Querying, hubVars,
       wireVars, vendorVars, historyVars
<1>28. CASE HubUnanswered
  BY <1>28 DEF HubUnanswered, AwaitingHub, Querying, LeaveOnWire, Continue,
       hubVars, vendorVars, historyVars
<1>29. CASE CancelConfirmed
  BY <1>29 DEF CancelConfirmed, hubVars, wireVars, vendorVars
<1>30. CASE CancelFailed
  BY <1>30 DEF CancelFailed, hubVars, wireVars, vendorVars, historyVars
<1>31. CASE Hub
  <2>1. ASSUME NEW attempt \in Attempts, LateReserve(attempt) PROVE Numbered'
    BY <1>31, <2>1 DEF Hub, LateReserve, hostVars, wireVars, vendorVars,
         historyVars
  <2>2. ASSUME NEW attempt \in Attempts, LateWithdraw(attempt) PROVE Numbered'
    BY <1>31, <2>2 DEF Hub, LateWithdraw, hostVars, wireVars, vendorVars,
         historyVars
  <2>3. ASSUME NEW terminal \in Terminals, LateCommit(terminal) PROVE
       Numbered'
    BY <1>31, <2>3 DEF Hub, LateCommit, hostVars, wireVars, vendorVars,
         historyVars
  <2>4. ASSUME NEW terminal \in Terminals, HubEnds(terminal) PROVE Numbered'
    BY <1>31, <2>4 DEF Hub, HubEnds, hostVars, wireVars, vendorVars,
         historyVars
  <2>. QED
    BY <1>31, <2>1, <2>2, <2>3, <2>4 DEF Hub
<1>32. CASE Vendor
  BY <1>32 DEF Vendor, hostVars, hubVars, wireVars, historyVars
<1>33. CASE UNCHANGED vars
  BY <1>33 DEF vars, hostVars, hubVars, wireVars, vendorVars, historyVars
<1>. QED
  BY <1>1, <1>2, <1>3, <1>4, <1>5, <1>6, <1>7, <1>8, <1>9, <1>10, <1>11,
       <1>12, <1>13, <1>14, <1>15, <1>16, <1>17, <1>18, <1>19, <1>20, <1>21,
       <1>22, <1>23, <1>24, <1>25, <1>26, <1>27, <1>28, <1>29, <1>30, <1>31,
       <1>32, <1>33
     DEF Next, Caller, Loop, Starting, Draining, HubCall, Cancel

\* Every step keeps the stop that is owed.
LEMMA OwingStep ==
    ASSUME TypeOK, Consistent, Owing, [Next]_vars
    PROVE  Owing'
<1>. USE RecordAssumption DEF TypeOK, Consistent, Owing, StoppedIsConfirmed,
     Record, Turn, Run, Answer, Attempts, Dispatches, Places, Failures, Kinds,
     NoRun, Silent
<1>1. CASE Begin
  BY <1>1 DEF Begin, hubVars, wireVars, vendorVars, historyVars
<1>2. CASE BeginAnswered
  <2>1. CASE Settled("refused", NoTerminal)
    BY <1>2, <2>1, SettledLeaves DEF BeginAnswered, hubVars, wireVars,
         vendorVars, historyVars
  <2>2. CASE Settled("already-committed", turn.settlement)
    BY <1>2, <2>2, SettledLeaves DEF BeginAnswered, hubVars, wireVars,
         vendorVars, historyVars
  <2>. QED
    BY <1>2, <2>1, <2>2 DEF BeginAnswered
<1>3. CASE BeginReused
  BY <1>3 DEF BeginReused, Failed, hubVars, wireVars, vendorVars, historyVars
<1>4. CASE DropRun
  BY <1>4 DEF DropRun, LeaveOnWire, hubVars, vendorVars, historyVars
<1>5. CASE PullStop
  BY <1>5 DEF PullStop, hostVars, hubVars, wireVars, vendorVars, historyVars
<1>6. CASE StopSeen
  <2>1. CASE run.holding \/ turn.unconfirmedStop
    BY <1>6, <2>1 DEF StopSeen, Abandon, hubVars, wireVars, vendorVars
  <2>2. CASE ~(run.holding \/ turn.unconfirmedStop)
    BY <1>6, <2>2, SettledLeaves DEF StopSeen, Abandon, hubVars, wireVars,
         vendorVars
  <2>. QED
    BY <2>1, <2>2
<1>7. CASE Submit
  BY <1>7 DEF Submit, Driving, NextDispatch, MayRetry, Retry, RecordDispatch,
       MayRecordDispatch, Refuse, NextAttempt, Action, hubVars, wireVars,
       vendorVars
<1>8. CASE SubmitExhausted
  BY <1>8 DEF SubmitExhausted, Driving, Failed, NextDispatch, MayRetry,
       NextAttempt, Action, hubVars, wireVars, vendorVars, historyVars
<1>9. CASE Observe
  BY <1>9 DEF Observe, Driving, Action, Continue, hubVars, wireVars,
       vendorVars, historyVars
<1>10. CASE Reconcile
  BY <1>10 DEF Reconcile, Driving, Action, Continue, hubVars, wireVars,
       vendorVars, historyVars
<1>11. CASE Settle
  <2>1. CASE run.fromHub
    <3>1. Settled("already-committed", record.terminal)
      BY <1>11, <2>1 DEF Settle
    <3>. QED
      BY <1>11, <2>1, <3>1, SettledLeaves DEF Settle, Driving, Action,
           hubVars, wireVars, vendorVars, historyVars
  <2>2. CASE ~run.fromHub
    BY <1>11, <2>2 DEF Settle, Driving, Action, Continue, hubVars, wireVars,
         vendorVars, historyVars
  <2>. QED
    BY <2>1, <2>2
<1>12. CASE BackOff
  BY <1>12 DEF BackOff, Continue, hubVars, wireVars, vendorVars, historyVars
<1>13. CASE ReserveTaken
  BY <1>13 DEF ReserveTaken, Continue, wireVars, vendorVars, historyVars
<1>14. CASE StartReturnsStream
  BY <1>14 DEF StartReturnsStream, RecordDispatch, MayRecordDispatch, Refuse,
       hubVars, wireVars, vendorVars, historyVars
<1>15. CASE StartNotSubmitted
  BY <1>15 DEF StartNotSubmitted, hubVars, wireVars, historyVars
<1>16. CASE StartFails
  BY <1>16 DEF StartFails, RecordDispatch, MayRecordDispatch, Refuse, Failed,
       hubVars, wireVars, vendorVars, historyVars
<1>17. CASE StartUnanswered
  BY <1>17 DEF StartUnanswered, Continue, hubVars, wireVars, vendorVars,
       historyVars
<1>18. CASE Withdraw
  <2>1. turn \in Turn /\ cancelOwed' = cancelOwed
    BY <1>18 DEF Withdraw, historyVars
  <2>2. CASE Continue("back_off")
    BY <1>18, <2>1, <2>2 DEF Continue, Withdraw
  <2>3. CASE Settled("refused", NoTerminal)
    <3>1. turn'.unconfirmedStop = turn.unconfirmedStop
      BY <2>1, <2>3, SettledLeaves
    <3>2. run' = NoRun /\ answer'.kind = "refused"
      BY <2>1, <2>3, SettledLeaves
    <3>. QED
      BY <2>1, <3>1, <3>2
  <2>4. CASE Failed("start-error")
    BY <2>1, <2>4 DEF Failed
  <2>. QED
    BY <1>18, <2>2, <2>3, <2>4 DEF Withdraw
<1>19. CASE DrainTerminal
  BY <1>19 DEF DrainTerminal, FinishRecord, Refuse, hubVars, wireVars,
       vendorVars, historyVars
<1>20. CASE DrainEnded
  BY <1>20 DEF DrainEnded, hubVars, wireVars, vendorVars, historyVars
<1>21. CASE DrainStopped
  BY <1>21 DEF DrainStopped, Continue, hubVars, wireVars, vendorVars,
       historyVars
<1>22. CASE HubCommitted
  BY <1>22 DEF HubCommitted, Querying, HubStatus, FinishRecord, Refuse,
       hubVars, wireVars, vendorVars, historyVars
<1>23. CASE HubAccepted
  BY <1>23 DEF HubAccepted, Querying, HubStatus, RecordDispatch,
       MayRecordDispatch, Refuse, Continue, hubVars, wireVars, vendorVars,
       historyVars
<1>24. CASE HubNeverArrived
  <2>1. CASE run.pc = "reconcile"
    BY <1>24, <2>1, AbsenceRecorded DEF HubNeverArrived, Querying, HubStatus,
         Continue, hubVars, wireVars, vendorVars, historyVars
  <2>2. CASE run.pc # "reconcile"
    <3>1. Failed("contradiction") /\ UNCHANGED record
      BY <1>24, <2>2 DEF HubNeverArrived
    <3>. QED
      BY <1>24, <3>1 DEF HubNeverArrived, Failed, hubVars, wireVars,
           vendorVars, historyVars
  <2>. QED
    BY <2>1, <2>2
<1>25. CASE HubCannotTell
  <2>1. CASE Continue("back_off")
    BY <1>25, <2>1 DEF HubCannotTell, Querying, Continue, hubVars, wireVars,
         vendorVars, historyVars
  <2>2. CASE Settled("uncertain", NoTerminal)
    BY <1>25, <2>2, SettledLeaves DEF HubCannotTell, Querying, hubVars,
         wireVars, vendorVars, historyVars
  <2>. QED
    BY <1>25, <2>1, <2>2 DEF HubCannotTell
<1>26. CASE CommitTaken
  <2>1. CASE hubTerminal = NoTerminal
    BY <1>26, <2>1, SettledLeaves DEF CommitTaken, wireVars, vendorVars,
         historyVars
  <2>2. CASE hubTerminal # NoTerminal
    BY <1>26, <2>2, SettledLeaves DEF CommitTaken, wireVars, vendorVars,
         historyVars
  <2>. QED
    BY <2>1, <2>2
<1>27. CASE HubRefuses
  BY <1>27, SettledLeaves DEF HubRefuses, AwaitingHub, Querying, hubVars,
       wireVars, vendorVars, historyVars
<1>28. CASE HubUnanswered
  BY <1>28 DEF HubUnanswered, AwaitingHub, Querying, LeaveOnWire, Continue,
       hubVars, vendorVars, historyVars
<1>29. CASE CancelConfirmed
  BY <1>29 DEF CancelConfirmed, hubVars, wireVars, vendorVars
<1>30. CASE CancelFailed
  BY <1>30 DEF CancelFailed, hubVars, wireVars, vendorVars, historyVars
<1>31. CASE Hub
  <2>1. ASSUME NEW attempt \in Attempts, LateReserve(attempt) PROVE Owing'
    BY <1>31, <2>1 DEF Hub, LateReserve, hostVars, wireVars, vendorVars,
         historyVars
  <2>2. ASSUME NEW attempt \in Attempts, LateWithdraw(attempt) PROVE Owing'
    BY <1>31, <2>2 DEF Hub, LateWithdraw, hostVars, wireVars, vendorVars,
         historyVars
  <2>3. ASSUME NEW terminal \in Terminals, LateCommit(terminal) PROVE Owing'
    BY <1>31, <2>3 DEF Hub, LateCommit, hostVars, wireVars, vendorVars,
         historyVars
  <2>4. ASSUME NEW terminal \in Terminals, HubEnds(terminal) PROVE Owing'
    BY <1>31, <2>4 DEF Hub, HubEnds, hostVars, wireVars, vendorVars,
         historyVars
  <2>. QED
    BY <1>31, <2>1, <2>2, <2>3, <2>4 DEF Hub
<1>32. CASE Vendor
  BY <1>32 DEF Vendor, hostVars, hubVars, wireVars, historyVars
<1>33. CASE UNCHANGED vars
  BY <1>33 DEF vars, hostVars, hubVars, wireVars, vendorVars, historyVars
<1>. QED
  BY <1>1, <1>2, <1>3, <1>4, <1>5, <1>6, <1>7, <1>8, <1>9, <1>10, <1>11,
       <1>12, <1>13, <1>14, <1>15, <1>16, <1>17, <1>18, <1>19, <1>20, <1>21,
       <1>22, <1>23, <1>24, <1>25, <1>26, <1>27, <1>28, <1>29, <1>30, <1>31,
       <1>32, <1>33
     DEF Next, Caller, Loop, Starting, Draining, HubCall, Cancel

-----------------------------------------------------------------------------
(* The invariant and what it says.                                         *)

LEMMA InvInit == Init => Inv
<1>. USE RecordAssumption
<1>. SUFFICES ASSUME Init PROVE Inv
  OBVIOUS
<1>1. TypeOK
  <2>1. record \in Record
    BY DEF Init, NewRecord, Record, Attempts, Dispatches
  <2>2. turn \in Turn /\ run \in Run /\ answer \in Answer
    BY DEF Init, Turn, Run, Answer, Places, Failures, Kinds, NoRun, Silent
  <2>3. offered \in Seq(Attempts)
    BY DEF Init
  <2>. QED
    BY <2>1, <2>2, <2>3 DEF Init, TypeOK
<1>2. Consistent
  BY DEF Init, Consistent, NewRecord, NoRun, Silent
<1>3. Traceable
  BY DEF Init, Traceable, NoRun
<1>4. Agreed
  BY DEF Init, Agreed, NoRun
<1>5. Numbered
  BY DEF Init, Numbered, AttemptsStrictlyIncrease, ExhaustedOnlyAtTheLimit,
         Silent
<1>6. Owing
  BY DEF Init, Owing, StoppedIsConfirmed, NoRun, Silent
<1>. QED
  BY <1>1, <1>2, <1>3, <1>4, <1>5, <1>6 DEF Inv

LEMMA InvStep == Inv /\ [Next]_vars => Inv'
  BY TypeStep, ConsistentStep, TraceableStep, AgreedStep, NumberedStep,
     OwingStep DEF Inv

LEMMA Invariance == Spec => []Inv
  BY InvInit, InvStep, PTL DEF Spec

\* Type correctness for any saturation point and any terminals.
THEOREM TypeCorrect == Spec => []TypeOK
<1>1. Inv => TypeOK
  BY DEF Inv
<1>. QED
  BY <1>1, Invariance, PTL

\* The vendor does the work of a logical turn at most once: whatever may have
\* been done was done by the latest call.
THEOREM ExecutesAtMostOnce == Spec => []AtMostOneExecution
<1>1. Inv => AtMostOneExecution
  BY DEF Inv, TypeOK, Traceable, AtMostOneExecution
<1>. QED
  BY <1>1, Invariance, PTL

\* The Hub is never offered an attempt twice, nor an older one.
THEOREM AttemptsIncrease == Spec => []AttemptsStrictlyIncrease
<1>1. Inv => AttemptsStrictlyIncrease
  BY DEF Inv, Numbered
<1>. QED
  BY <1>1, Invariance, PTL

\* Callers are told the Hub's outcome and no other.
THEOREM ToldTheHubs == Spec => []OneOutcomeIsTold
<1>1. Inv => OneOutcomeIsTold
  BY DEF Inv, Agreed, OneOutcomeIsTold
<1>. QED
  BY <1>1, Invariance, PTL

\* A run answers Stopped only when no live turn is left without its cancel.
THEOREM StopIsConfirmed == Spec => []StoppedIsConfirmed
<1>1. Inv => StoppedIsConfirmed
  BY DEF Inv, Owing
<1>. QED
  BY <1>1, Invariance, PTL

\* The loop keeps the record's contract, and gives up on attempts only at the
\* end of their type.
THEOREM KeepsTheContract ==
    Spec => [](RecordNeverRefuses /\ ExhaustedOnlyAtTheLimit)
<1>1. Inv => RecordNeverRefuses /\ ExhaustedOnlyAtTheLimit
  BY DEF Inv, Consistent, Numbered, RecordNeverRefuses
<1>. QED
  BY <1>1, Invariance, PTL

-----------------------------------------------------------------------------
(* Over is final.                                                          *)

\* What being over turns into while later runs come and go.
Closed ==
    \/ turn.refused
    \/ turn.settlement # NoTerminal
    \/ record.terminal # NoTerminal
    \/ stopped /\ run.pc \in {"idle", "drive", "abandon"}

\* An operation that is over is closed.
LEMMA OverIsClosed == Inv /\ Over => Closed
  BY DEF Inv, Consistent, Over, Closed

\* A closed operation stays closed and hands nothing over.
LEMMA ClosedStep ==
    ASSUME TypeOK, Consistent, Closed, [Next]_vars
    PROVE  Closed' /\ calls' = calls
<1>. USE RecordAssumption DEF TypeOK, Consistent, Closed, Record, Turn, Run,
     Answer, Attempts, Dispatches, Places, Failures, Kinds, NoRun, Silent
<1>1. CASE Begin
  BY <1>1 DEF Begin, hubVars, wireVars, vendorVars, historyVars
<1>2. CASE BeginAnswered
  <2>1. CASE Settled("refused", NoTerminal)
    BY <1>2, <2>1, SettledLeaves DEF BeginAnswered, hubVars, wireVars,
         vendorVars, historyVars
  <2>2. CASE Settled("already-committed", turn.settlement)
    BY <1>2, <2>2, SettledLeaves DEF BeginAnswered, hubVars, wireVars,
         vendorVars, historyVars
  <2>. QED
    BY <1>2, <2>1, <2>2 DEF BeginAnswered
<1>3. CASE BeginReused
  BY <1>3 DEF BeginReused, Failed, hubVars, wireVars, vendorVars, historyVars
<1>4. CASE DropRun
  BY <1>4 DEF DropRun, LeaveOnWire, hubVars, vendorVars, historyVars
<1>5. CASE PullStop
  BY <1>5 DEF PullStop, hostVars, hubVars, wireVars, vendorVars, historyVars
<1>6. CASE StopSeen
  <2>1. CASE run.holding \/ turn.unconfirmedStop
    BY <1>6, <2>1 DEF StopSeen, Abandon, hubVars, wireVars, vendorVars
  <2>2. CASE ~(run.holding \/ turn.unconfirmedStop)
    BY <1>6, <2>2, SettledLeaves DEF StopSeen, Abandon, hubVars, wireVars,
         vendorVars
  <2>. QED
    BY <2>1, <2>2
<1>7. CASE Submit
  BY <1>7 DEF Submit, Driving, NextDispatch, MayRetry, Retry, RecordDispatch,
       MayRecordDispatch, Refuse, NextAttempt, Action, hubVars, wireVars,
       vendorVars
<1>8. CASE SubmitExhausted
  BY <1>8 DEF SubmitExhausted, Driving, Failed, NextDispatch, MayRetry,
       NextAttempt, Action, hubVars, wireVars, vendorVars, historyVars
<1>9. CASE Observe
  BY <1>9 DEF Observe, Driving, Action, Continue, hubVars, wireVars,
       vendorVars, historyVars
<1>10. CASE Reconcile
  BY <1>10 DEF Reconcile, Driving, Action, Continue, hubVars, wireVars,
       vendorVars, historyVars
<1>11. CASE Settle
  <2>1. CASE run.fromHub
    <3>1. Settled("already-committed", record.terminal)
      BY <1>11, <2>1 DEF Settle
    <3>. QED
      BY <1>11, <2>1, <3>1, SettledLeaves DEF Settle, Driving, Action,
           hubVars, wireVars, vendorVars, historyVars
  <2>2. CASE ~run.fromHub
    BY <1>11, <2>2 DEF Settle, Driving, Action, Continue, hubVars, wireVars,
         vendorVars, historyVars
  <2>. QED
    BY <2>1, <2>2
<1>12. CASE BackOff
  BY <1>12 DEF BackOff, Continue, hubVars, wireVars, vendorVars, historyVars
<1>13. CASE ReserveTaken
  BY <1>13 DEF ReserveTaken, Continue, wireVars, vendorVars, historyVars
<1>14. CASE StartReturnsStream
  BY <1>14 DEF StartReturnsStream, RecordDispatch, MayRecordDispatch, Refuse,
       hubVars, wireVars, vendorVars, historyVars
<1>15. CASE StartNotSubmitted
  BY <1>15 DEF StartNotSubmitted, hubVars, wireVars, historyVars
<1>16. CASE StartFails
  BY <1>16 DEF StartFails, RecordDispatch, MayRecordDispatch, Refuse, Failed,
       hubVars, wireVars, vendorVars, historyVars
<1>17. CASE StartUnanswered
  BY <1>17 DEF StartUnanswered, Continue, hubVars, wireVars, vendorVars,
       historyVars
<1>18. CASE Withdraw
  <2>1. /\ record' \in Record /\ record'.dispatch = "NotSubmitted"
        /\ record'.attempt = record.attempt /\ record'.terminal = NoTerminal
        /\ record'.refused = record.refused
    BY <1>18, AbsenceRecorded DEF Withdraw
  <2>2. reservations' \subseteq Attempts /\ lateReserve' \subseteq Attempts
    BY <1>18 DEF Withdraw, LeaveOnWire, hubVars, wireVars, vendorVars,
         historyVars
  <2>3. lateWithdraw' \subseteq Attempts /\ lateCommit' \subseteq Terminals
    BY <1>18 DEF Withdraw, LeaveOnWire, hubVars, wireVars, vendorVars,
         historyVars
  <2>4. hubTerminal' = hubTerminal
    BY <1>18 DEF Withdraw, hubVars, wireVars, vendorVars, historyVars
  <2>5. CASE Continue("back_off")
    BY <1>18, <2>1, <2>2, <2>3, <2>4, <2>5 DEF Withdraw, Continue, hubVars,
         wireVars, vendorVars, historyVars
  <2>6. CASE Settled("refused", NoTerminal)
    <3>1. turn \in Turn /\ reported \subseteq Terminals
      OBVIOUS
    <3>2. /\ run' = NoRun /\ turn' \in Turn /\ answer' \in Answer
          /\ answer'.kind = "refused" /\ turn'.refused
          /\ turn'.reserved = turn.reserved /\ reported' \subseteq Terminals
      BY <3>1, <2>6, SettledLeaves
    <3>. QED
      BY <1>18, <2>1, <2>2, <2>3, <2>4, <3>2 DEF Withdraw, hubVars, wireVars,
           vendorVars, historyVars
  <2>7. CASE Failed("start-error")
    BY <1>18, <2>1, <2>2, <2>3, <2>4, <2>7 DEF Withdraw, Failed, hubVars,
         wireVars, vendorVars, historyVars
  <2>. QED
    BY <1>18, <2>5, <2>6, <2>7 DEF Withdraw
<1>19. CASE DrainTerminal
  BY <1>19 DEF DrainTerminal, FinishRecord, Refuse, hubVars, wireVars,
       vendorVars, historyVars
<1>20. CASE DrainEnded
  BY <1>20 DEF DrainEnded, hubVars, wireVars, vendorVars, historyVars
<1>21. CASE DrainStopped
  BY <1>21 DEF DrainStopped, Continue, hubVars, wireVars, vendorVars,
       historyVars
<1>22. CASE HubCommitted
  BY <1>22 DEF HubCommitted, Querying, HubStatus, FinishRecord, Refuse,
       hubVars, wireVars, vendorVars, historyVars
<1>23. CASE HubAccepted
  BY <1>23 DEF HubAccepted, Querying, HubStatus, RecordDispatch,
       MayRecordDispatch, Refuse, Continue, hubVars, wireVars, vendorVars,
       historyVars
<1>24. CASE HubNeverArrived
  <2>1. CASE run.pc = "reconcile"
    BY <1>24, <2>1, AbsenceRecorded DEF HubNeverArrived, Querying, HubStatus,
         Continue, hubVars, wireVars, vendorVars, historyVars
  <2>2. CASE run.pc # "reconcile"
    <3>1. Failed("contradiction") /\ UNCHANGED record
      BY <1>24, <2>2 DEF HubNeverArrived
    <3>. QED
      BY <1>24, <3>1 DEF HubNeverArrived, Failed, hubVars, wireVars,
           vendorVars, historyVars
  <2>. QED
    BY <2>1, <2>2
<1>25. CASE HubCannotTell
  <2>1. CASE Continue("back_off")
    BY <1>25, <2>1 DEF HubCannotTell, Querying, Continue, hubVars, wireVars,
         vendorVars, historyVars
  <2>2. CASE Settled("uncertain", NoTerminal)
    BY <1>25, <2>2, SettledLeaves DEF HubCannotTell, Querying, hubVars,
         wireVars, vendorVars, historyVars
  <2>. QED
    BY <1>25, <2>1, <2>2 DEF HubCannotTell
<1>26. CASE CommitTaken
  <2>1. CASE hubTerminal = NoTerminal
    BY <1>26, <2>1, SettledLeaves DEF CommitTaken, wireVars, vendorVars,
         historyVars
  <2>2. CASE hubTerminal # NoTerminal
    BY <1>26, <2>2, SettledLeaves DEF CommitTaken, wireVars, vendorVars,
         historyVars
  <2>. QED
    BY <2>1, <2>2
<1>27. CASE HubRefuses
  BY <1>27, SettledLeaves DEF HubRefuses, AwaitingHub, Querying, hubVars,
       wireVars, vendorVars, historyVars
<1>28. CASE HubUnanswered
  BY <1>28 DEF HubUnanswered, AwaitingHub, Querying, LeaveOnWire, Continue,
       hubVars, vendorVars, historyVars
<1>29. CASE CancelConfirmed
  BY <1>29 DEF CancelConfirmed, hubVars, wireVars, vendorVars
<1>30. CASE CancelFailed
  BY <1>30 DEF CancelFailed, hubVars, wireVars, vendorVars, historyVars
<1>31. CASE Hub
  <2>1. ASSUME NEW attempt \in Attempts, LateReserve(attempt) PROVE Closed' /\
       calls' = calls
    BY <1>31, <2>1 DEF Hub, LateReserve, hostVars, wireVars, vendorVars,
         historyVars
  <2>2. ASSUME NEW attempt \in Attempts, LateWithdraw(attempt) PROVE Closed'
       /\ calls' = calls
    BY <1>31, <2>2 DEF Hub, LateWithdraw, hostVars, wireVars, vendorVars,
         historyVars
  <2>3. ASSUME NEW terminal \in Terminals, LateCommit(terminal) PROVE Closed'
       /\ calls' = calls
    BY <1>31, <2>3 DEF Hub, LateCommit, hostVars, wireVars, vendorVars,
         historyVars
  <2>4. ASSUME NEW terminal \in Terminals, HubEnds(terminal) PROVE Closed' /\
       calls' = calls
    BY <1>31, <2>4 DEF Hub, HubEnds, hostVars, wireVars, vendorVars,
         historyVars
  <2>. QED
    BY <1>31, <2>1, <2>2, <2>3, <2>4 DEF Hub
<1>32. CASE Vendor
  BY <1>32 DEF Vendor, hostVars, hubVars, wireVars, historyVars
<1>33. CASE UNCHANGED vars
  BY <1>33 DEF vars, hostVars, hubVars, wireVars, vendorVars, historyVars
<1>. QED
  BY <1>1, <1>2, <1>3, <1>4, <1>5, <1>6, <1>7, <1>8, <1>9, <1>10, <1>11,
       <1>12, <1>13, <1>14, <1>15, <1>16, <1>17, <1>18, <1>19, <1>20, <1>21,
       <1>22, <1>23, <1>24, <1>25, <1>26, <1>27, <1>28, <1>29, <1>30, <1>31,
       <1>32, <1>33
     DEF Next, Caller, Loop, Starting, Draining, HubCall, Cancel

\* No later run hands anything to the vendor once the operation is over.
THEOREM OverStaysOver == Spec => OverIsFinal
<1>. SUFFICES ASSUME NEW count \in 0..MaxAttempt
              PROVE  Spec => [](Over /\ calls = count => [](calls = count))
  BY DEF OverIsFinal
<1>1. Inv /\ Over /\ calls = count => Closed /\ calls = count
  BY OverIsClosed
<1>2. Inv /\ [Next]_vars /\ (Closed /\ calls = count)
        => (Closed /\ calls = count)'
  BY ClosedStep DEF Inv
<1>3. Spec => []Inv /\ [][Next]_vars
  BY Invariance, PTL DEF Spec
<1>. QED
  BY <1>1, <1>2, <1>3, PTL

-----------------------------------------------------------------------------
(* The loop implements the logical operation.                              *)

\* What a step may do to the three things the abstract operation sees.
Visible ==
    \/ UNCHANGED <<executed, hubTerminal, reported>>
    \/ /\ executed = {} /\ \E call \in Nat : executed' = {call}
       /\ UNCHANGED <<hubTerminal, reported>>
    \/ /\ hubTerminal = NoTerminal /\ hubTerminal' \in Terminals
       /\ reported' \in {reported, reported \cup {hubTerminal'}}
       /\ UNCHANGED executed
    \/ /\ hubTerminal # NoTerminal /\ reported' = reported \cup {hubTerminal}
       /\ UNCHANGED <<executed, hubTerminal>>

\* Settling without an outcome tells none.
LEMMA SettledSilently ==
    ASSUME reported \subseteq Terminals, NEW kind, Settled(kind, NoTerminal)
    PROVE  reported' = reported
<1>1. reported' = (reported \cup {NoTerminal}) \ {NoTerminal}
  BY DEF Settled
<1>. QED
  BY <1>1, RecordAssumption

\* Every step does one of them.
LEMMA VisibleStep ==
    ASSUME TypeOK, Consistent, Traceable, Agreed, [Next]_vars
    PROVE  Visible
<1>. USE RecordAssumption DEF TypeOK, Consistent, Traceable, Agreed, Visible,
     Record, Turn, Run, Answer, Attempts, Dispatches, Places, Failures, Kinds,
     NoRun, Silent
<1>1. CASE Begin
  BY <1>1 DEF Begin, hubVars, wireVars, vendorVars, historyVars
<1>2. CASE BeginAnswered
  <2>1. CASE Settled("refused", NoTerminal)
    BY <1>2, <2>1, SettledSilently DEF BeginAnswered, hubVars, vendorVars
  <2>2. CASE /\ turn.settlement # NoTerminal
             /\ Settled("already-committed", turn.settlement)
    BY <1>2, <2>2 DEF BeginAnswered, Settled, hubVars, vendorVars
  <2>. QED
    BY <1>2, <2>1, <2>2 DEF BeginAnswered
<1>3. CASE BeginReused
  BY <1>3 DEF BeginReused, Failed, hubVars, wireVars, vendorVars, historyVars
<1>4. CASE DropRun
  BY <1>4 DEF DropRun, LeaveOnWire, hubVars, vendorVars, historyVars
<1>5. CASE PullStop
  BY <1>5 DEF PullStop, hostVars, hubVars, wireVars, vendorVars, historyVars
<1>6. CASE StopSeen
  <2>1. CASE Settled("stopped", NoTerminal)
    BY <1>6, <2>1, SettledSilently DEF StopSeen, hubVars, vendorVars
  <2>2. CASE UNCHANGED reported
    BY <1>6, <2>2 DEF StopSeen, hubVars, vendorVars
  <2>. QED
    BY <1>6, <2>1, <2>2 DEF StopSeen, Abandon
<1>7. CASE Submit
  BY <1>7 DEF Submit, Driving, NextDispatch, MayRetry, Retry, RecordDispatch,
       MayRecordDispatch, Refuse, NextAttempt, Action, hubVars, wireVars,
       vendorVars
<1>8. CASE SubmitExhausted
  BY <1>8 DEF SubmitExhausted, Driving, Failed, NextDispatch, MayRetry,
       NextAttempt, Action, hubVars, wireVars, vendorVars, historyVars
<1>9. CASE Observe
  BY <1>9 DEF Observe, Driving, Action, Continue, hubVars, wireVars,
       vendorVars, historyVars
<1>10. CASE Reconcile
  BY <1>10 DEF Reconcile, Driving, Action, Continue, hubVars, wireVars,
       vendorVars, historyVars
<1>11. CASE Settle
  <2>1. CASE run.fromHub
    <3>1. Settled("already-committed", record.terminal)
      BY <1>11, <2>1 DEF Settle
    <3>. QED
      BY <1>11, <2>1, <3>1, SettledLeaves DEF Settle, Driving, Action,
           hubVars, wireVars, vendorVars, historyVars
  <2>2. CASE ~run.fromHub
    BY <1>11, <2>2 DEF Settle, Driving, Action, Continue, hubVars, wireVars,
         vendorVars, historyVars
  <2>. QED
    BY <2>1, <2>2
<1>12. CASE BackOff
  BY <1>12 DEF BackOff, Continue, hubVars, wireVars, vendorVars, historyVars
<1>13. CASE ReserveTaken
  BY <1>13 DEF ReserveTaken, Continue, wireVars, vendorVars, historyVars
<1>14. CASE StartReturnsStream
  BY <1>14 DEF StartReturnsStream, RecordDispatch, MayRecordDispatch, Refuse,
       hubVars, wireVars, vendorVars, historyVars
<1>15. CASE StartNotSubmitted
  BY <1>15 DEF StartNotSubmitted, hubVars, wireVars, historyVars
<1>16. CASE StartFails
  BY <1>16 DEF StartFails, RecordDispatch, MayRecordDispatch, Refuse, Failed,
       hubVars, wireVars, vendorVars, historyVars
<1>17. CASE StartUnanswered
  BY <1>17 DEF StartUnanswered, Continue, hubVars, wireVars, vendorVars,
       historyVars
<1>18. CASE Withdraw
  <2>1. CASE Continue("back_off")
    BY <1>18, <2>1 DEF Withdraw, Continue, hubVars, vendorVars
  <2>2. CASE Settled("refused", NoTerminal)
    BY <1>18, <2>2, SettledSilently DEF Withdraw, hubVars, vendorVars
  <2>3. CASE Failed("start-error")
    BY <1>18, <2>3 DEF Withdraw, Failed, hubVars, vendorVars
  <2>. QED
    BY <1>18, <2>1, <2>2, <2>3 DEF Withdraw
<1>19. CASE DrainTerminal
  BY <1>19 DEF DrainTerminal, FinishRecord, Refuse, hubVars, wireVars,
       vendorVars, historyVars
<1>20. CASE DrainEnded
  BY <1>20 DEF DrainEnded, hubVars, wireVars, vendorVars, historyVars
<1>21. CASE DrainStopped
  BY <1>21 DEF DrainStopped, Continue, hubVars, wireVars, vendorVars,
       historyVars
<1>22. CASE HubCommitted
  BY <1>22 DEF HubCommitted, Querying, HubStatus, FinishRecord, Refuse,
       hubVars, wireVars, vendorVars, historyVars
<1>23. CASE HubAccepted
  BY <1>23 DEF HubAccepted, Querying, HubStatus, RecordDispatch,
       MayRecordDispatch, Refuse, Continue, hubVars, wireVars, vendorVars,
       historyVars
<1>24. CASE HubNeverArrived
  <2>1. CASE run.pc = "reconcile"
    BY <1>24, <2>1, AbsenceRecorded DEF HubNeverArrived, Querying, HubStatus,
         Continue, hubVars, wireVars, vendorVars, historyVars
  <2>2. CASE run.pc # "reconcile"
    <3>1. Failed("contradiction") /\ UNCHANGED record
      BY <1>24, <2>2 DEF HubNeverArrived
    <3>. QED
      BY <1>24, <3>1 DEF HubNeverArrived, Failed, hubVars, wireVars,
           vendorVars, historyVars
  <2>. QED
    BY <2>1, <2>2
<1>25. CASE HubCannotTell
  <2>1. CASE Continue("back_off")
    BY <1>25, <2>1 DEF HubCannotTell, Continue, hubVars, vendorVars
  <2>2. CASE Settled("uncertain", NoTerminal)
    BY <1>25, <2>2, SettledSilently DEF HubCannotTell, hubVars, vendorVars
  <2>. QED
    BY <1>25, <2>1, <2>2 DEF HubCannotTell
<1>26. CASE CommitTaken
  <2>1. CASE hubTerminal = NoTerminal
    BY <1>26, <2>1, SettledLeaves DEF CommitTaken, wireVars, vendorVars,
         historyVars
  <2>2. CASE hubTerminal # NoTerminal
    BY <1>26, <2>2, SettledLeaves DEF CommitTaken, wireVars, vendorVars,
         historyVars
  <2>. QED
    BY <2>1, <2>2
<1>27. CASE HubRefuses
  BY <1>27, SettledSilently DEF HubRefuses, hubVars, vendorVars
<1>28. CASE HubUnanswered
  BY <1>28 DEF HubUnanswered, AwaitingHub, Querying, LeaveOnWire, Continue,
       hubVars, vendorVars, historyVars
<1>29. CASE CancelConfirmed
  BY <1>29 DEF CancelConfirmed, hubVars, wireVars, vendorVars
<1>30. CASE CancelFailed
  BY <1>30 DEF CancelFailed, hubVars, wireVars, vendorVars, historyVars
<1>31. CASE Hub
  <2>1. ASSUME NEW attempt \in Attempts, LateReserve(attempt) PROVE Visible
    BY <1>31, <2>1 DEF Hub, LateReserve, hostVars, wireVars, vendorVars,
         historyVars
  <2>2. ASSUME NEW attempt \in Attempts, LateWithdraw(attempt) PROVE Visible
    BY <1>31, <2>2 DEF Hub, LateWithdraw, hostVars, wireVars, vendorVars,
         historyVars
  <2>3. ASSUME NEW terminal \in Terminals, LateCommit(terminal) PROVE Visible
    BY <1>31, <2>3 DEF Hub, LateCommit, hostVars, wireVars, vendorVars,
         historyVars
  <2>4. ASSUME NEW terminal \in Terminals, HubEnds(terminal) PROVE Visible
    BY <1>31, <2>4 DEF Hub, HubEnds, hostVars, wireVars, vendorVars,
         historyVars
  <2>. QED
    BY <1>31, <2>1, <2>2, <2>3, <2>4 DEF Hub
<1>32. CASE Vendor
  <2>1. PICK call \in maybe \ executed : executed' = executed \cup {call}
    BY <1>32 DEF Vendor
  <2>2. executed = {} /\ call \in Nat
    OBVIOUS
  <2>. QED
    BY <1>32, <2>1, <2>2 DEF Vendor, hostVars, hubVars
<1>33. CASE UNCHANGED vars
  BY <1>33 DEF vars, hostVars, hubVars, wireVars, vendorVars, historyVars
<1>. QED
  BY <1>1, <1>2, <1>3, <1>4, <1>5, <1>6, <1>7, <1>8, <1>9, <1>10, <1>11,
       <1>12, <1>13, <1>14, <1>15, <1>16, <1>17, <1>18, <1>19, <1>20, <1>21,
       <1>22, <1>23, <1>24, <1>25, <1>26, <1>27, <1>28, <1>29, <1>30, <1>31,
       <1>32, <1>33
     DEF Next, Caller, Loop, Starting, Draining, HubCall, Cancel

LEMMA OperationInit == Init => Operation!Init
  BY FS_EmptySet DEF Init, Operation!Init

LEMMA OperationStep ==
    Inv /\ [Next]_vars => [Operation!Next]_(Operation!vars)
<1>. SUFFICES ASSUME Inv, [Next]_vars
              PROVE  [Operation!Next]_(Operation!vars)
  OBVIOUS
<1>1. Visible
  BY VisibleStep DEF Inv
<1>2. CASE UNCHANGED <<executed, hubTerminal, reported>>
  BY <1>2 DEF Operation!vars
<1>3. CASE /\ executed = {} /\ \E call \in Nat : executed' = {call}
           /\ UNCHANGED <<hubTerminal, reported>>
  <2>1. Cardinality(executed) = 0 /\ Cardinality(executed') = 1
    BY <1>3, FS_EmptySet, FS_Singleton
  <2>. QED
    BY <1>3, <2>1 DEF Operation!Next, Operation!Execute
<1>4. CASE /\ hubTerminal = NoTerminal /\ hubTerminal' \in Terminals
           /\ reported' \in {reported, reported \cup {hubTerminal'}}
           /\ UNCHANGED executed
  BY <1>4 DEF Operation!Next, Operation!Record
<1>5. CASE /\ hubTerminal # NoTerminal
           /\ reported' = reported \cup {hubTerminal}
           /\ UNCHANGED <<executed, hubTerminal>>
  BY <1>5 DEF Operation!Next, Operation!Tell
<1>. QED
  BY <1>1, <1>2, <1>3, <1>4, <1>5 DEF Visible

\* Loop, Hub and vendor together do what the recovery contract promises.
THEOREM Implements == Spec => ImplementsOperation
<1>1. Spec => []Inv /\ [][Next]_vars /\ Init
  BY Invariance, PTL DEF Spec
<1>. QED
  BY <1>1, OperationInit, OperationStep, PTL
     DEF ImplementsOperation, Operation!Spec

=============================================================================
