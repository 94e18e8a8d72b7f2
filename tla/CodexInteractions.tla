------------------------- MODULE CodexInteractions -------------------------
(***************************************************************************)
(* What the app-server asks of the host during one turn of a Codex session *)
(* (mango-agent-codex, session.rs): approvals (`decide`) and rounds of     *)
(* questions (`decide_question`), each put to the host by a task of its    *)
(* own, answered by the host's calls, a broker or a deadline, withdrawn by *)
(* the server, and released by whoever stops or ends the turn.             *)
(*                                                                         *)
(* Every lock of the code (the two pending maps, the markers, the turn) is *)
(* taken for one action; only the lock over the settlement of questions is *)
(* held across several.  One poll of a select is one action.  The          *)
(* connection stays up: its end is in CodexTurn.  Every request names this *)
(* turn and has an id of its own.  Left out: requests refused for what     *)
(* they contain or for want of room, the overflow of the stream, and the   *)
(* markers of requests that were answered, whose only use is to recognise  *)
(* the server's confirmation.                                              *)
(***************************************************************************)
EXTENDS Naturals, FiniteSets

CONSTANTS
    Approvals,
    Questions,
    Turns  \* what one turn may be asked (a bound of the model)

ASSUME KindsAssumption == Approvals \cap Questions = {}
ASSUME TurnsAssumption == Turns \subseteq SUBSET (Approvals \cup Questions)
ASSUME NamesAssumption ==
    (Approvals \cup Questions) \cap {"handler", "stopper", "nobody"} = {}

VARIABLES
    at,          \* how far the task of each request is
    pending,     \* pending and pending_questions: the entries nobody has taken
    held,        \* entries `respond` has taken and not yet answered or put back
    overdue,     \* those of them whose deadline had passed by then
    box,         \* what was sent to each task
    settlement,  \* PendingQuestion::settlement
    out,         \* what each task answers the server
    expired,     \* requests whose deadline has passed
    early,       \* resolution_markers.early
    settling,    \* who holds question_settlements
    sweep,       \* what the notification call and the stop worker are at
    stopped,     \* cancel_reason or shutting_down is set
    hostGone,    \* the host's token is cancelled
    finishing,   \* the turn's terminal is claimed
    ended,       \* the stream has failed without a claim
    shown,       \* the dialogs the events of the stream leave the host with
    resolved,    \* how often each request was reported resolved ...
    said,        \* ... and as what
    accepted,    \* the choice for which `respond` or `answer` returned Ok
    withdrawn    \* requests whose serverRequest/resolved was taken up

taken == <<held, overdue>>
entries == <<pending, taken, box, settlement>>
turn == <<stopped, hostGone, finishing, ended>>
events == <<shown, resolved, said>>
outside == <<expired, accepted, withdrawn>>
vars == <<at, out, entries, early, settling, sweep, turn, events, outside>>

-----------------------------------------------------------------------------
Requests == Approvals \cup Questions

Choices == {"grant", "refuse"}

Nobody == "nobody"

\* The notification call, and the stop worker or the teardown.
Sweepers == {"handler", "stopper"}

\* Places at which the task still holds the receiving end of its box.
Listening == {"recheck", "early", "look", "check", "show", "ask", "expire", "late",
              "brokered", "wait"}

Places == Listening \cup {"new", "register", "retract", "withdrawn", "announce", "take",
                          "settle", "publish", "done"}

Sweepings ==
    [at: {"idle", "approvals", "audit", "lock", "rounds", "report", "end", "find", "tell",
          "mark", "done"},
     kind: {"none", "stop", "close", "finish", "refuse", "withdraw"},
     left: SUBSET Requests]

Idle == [at |-> "idle", kind |-> "none", left |-> {}]

TypeOK ==
    /\ at \in [Requests -> Places]
    /\ pending \subseteq Requests
    /\ held \subseteq Approvals /\ overdue \subseteq held
    /\ box \in [Requests -> Choices \cup {"empty", "drained", "server"}]
    /\ settlement \in [Questions -> Choices \cup {"none"}]
    /\ out \in [Requests -> Choices \cup {"none", "empty"}]
    /\ expired \subseteq Requests
    /\ early \subseteq Requests
    /\ settling \in Questions \cup Sweepers \cup {Nobody}
    /\ sweep \in [Sweepers -> Sweepings]
    /\ stopped \in BOOLEAN /\ hostGone \in BOOLEAN
    /\ finishing \in BOOLEAN /\ ended \in BOOLEAN
    /\ shown \subseteq Requests
    /\ resolved \in [Requests -> Nat]
    /\ said \in [Requests -> Choices \cup {"none"}]
    /\ accepted \in [Requests -> Choices \cup {"none"}]
    /\ withdrawn \subseteq Requests

Init ==
    /\ \E asked \in Turns : at = [r \in Requests |-> IF r \in asked THEN "new" ELSE "done"]
    /\ pending = {} /\ held = {} /\ overdue = {}
    /\ box = [r \in Requests |-> "empty"]
    /\ settlement = [q \in Questions |-> "none"]
    /\ out = [r \in Requests |-> "none"]
    /\ expired = {}
    /\ early = {}
    /\ settling = Nobody
    /\ sweep = [w \in Sweepers |-> Idle]
    /\ stopped = FALSE /\ hostGone = FALSE /\ finishing = FALSE /\ ended = FALSE
    /\ shown = {}
    /\ resolved = [r \in Requests |-> 0]
    /\ said = [r \in Requests |-> "none"]
    /\ accepted = [r \in Requests |-> "none"]
    /\ withdrawn = {}

-----------------------------------------------------------------------------
\* approval_route_is_admissible
Admissible == ~stopped /\ ~hostGone /\ ~finishing

\* emit_for: an event of a turn whose terminal is claimed is dropped in silence,
\* and a stream that failed refuses it.
Open == ~finishing /\ ~ended

\* ApprovalResolved or QuestionResolved is published.
Tell(r, as) ==
    IF Open
    THEN /\ shown' = shown \ {r}
         /\ resolved' = [resolved EXCEPT ![r] = @ + 1]
         /\ said' = [said EXCEPT ![r] = as]
    ELSE UNCHANGED events

\* What is reported of a request that is answered with `answer`.
Outcome(answer) == IF answer = "grant" THEN "grant" ELSE "refuse"

Goto(r, place) == at' = [at EXCEPT ![r] = place]

Answers(r, answer, place) ==
    /\ out' = [out EXCEPT ![r] = answer]
    /\ Goto(r, place)

\* A send reaches a task that is still listening.
Sent(to, what) ==
    [r \in Requests |-> IF r \in to /\ at[r] \in Listening /\ box[r] = "empty"
                        THEN what ELSE box[r]]

Free == settling = Nobody

\* The task of r lets go of the settlement lock if it holds it.
LetGo(r) == settling' = IF settling = r THEN Nobody ELSE settling

-----------------------------------------------------------------------------
(* The task of a request, up to its announcement.                          *)

\* on_request and the first check of `decide`: a turn that takes no requests
\* refuses.
Admit(r) ==
    /\ at[r] = "new"
    /\ IF Admissible THEN Goto(r, "register") /\ UNCHANGED out ELSE Answers(r, "refuse", "done")
    /\ UNCHANGED <<entries, early, settling, sweep, turn, events, outside>>

\* Registered before it is announced: a host answers the moment it sees it.
Register(r) ==
    /\ at[r] = "register"
    /\ pending' = pending \cup {r}
    /\ Goto(r, "recheck")
    /\ UNCHANGED <<out, taken, box, settlement, early, settling, sweep, turn, events, outside>>

\* A stop may have released what was pending just before the registration.
Recheck(r) ==
    /\ at[r] = "recheck"
    /\ Goto(r, IF Admissible THEN "early" ELSE "retract")
    /\ UNCHANGED <<out, entries, early, settling, sweep, turn, events, outside>>

Retract(r) ==
    /\ at[r] = "retract"
    /\ r \in Questions => Free
    /\ pending' = pending \ {r}
    /\ Answers(r, "refuse", IF r \in pending \cap Approvals THEN "publish" ELSE "done")
    /\ UNCHANGED <<taken, box, settlement, early, settling, sweep, turn, events, outside>>

\* The server's withdrawal may have come before the registration.
Early(r) ==
    /\ at[r] = "early"
    /\ early' = early \ {r}
    /\ Goto(r, IF r \in early THEN "withdrawn"
               ELSE IF r \in Approvals THEN "look" ELSE "announce")
    /\ UNCHANGED <<out, entries, settling, sweep, turn, events, outside>>

Withdrawn(r) ==
    /\ at[r] = "withdrawn"
    /\ r \in Questions => Free
    /\ pending' = pending \ {r}
    /\ Answers(r, "empty", "done")
    /\ UNCHANGED <<taken, box, settlement, early, settling, sweep, turn, events, outside>>

\* An approval that somebody took is not announced.
Look(p) ==
    /\ at[p] = "look"
    /\ IF p \in pending THEN Goto(p, "show") /\ UNCHANGED out ELSE Answers(p, "empty", "done")
    /\ UNCHANGED <<entries, early, settling, sweep, turn, events, outside>>

\* A round is announced under the settlement lock, from this check on.
Announce(q) ==
    /\ at[q] = "announce"
    /\ Free
    /\ settling' = q
    /\ Goto(q, "check")
    /\ UNCHANGED <<out, entries, early, sweep, turn, events, outside>>

Check(q) ==
    /\ at[q] = "check"
    /\ IF Admissible /\ q \in pending
       THEN Goto(q, "show") /\ UNCHANGED <<out, pending, settling>>
       ELSE /\ pending' = pending \ {q}
            /\ Answers(q, "empty", "done")
            /\ LetGo(q)
    /\ UNCHANGED <<taken, box, settlement, early, sweep, turn, events, outside>>

\* ApprovalRequested or QuestionAsked is published.
Show(r) ==
    /\ at[r] = "show"
    /\ shown' = IF Open THEN shown \cup {r} ELSE shown
    /\ Goto(r, IF r \in Approvals THEN "ask" ELSE "wait")
    /\ LetGo(r)
    /\ UNCHANGED <<out, entries, early, sweep, turn, resolved, said, outside>>

-----------------------------------------------------------------------------
(* The task of a request, from its announcement on.                        *)

\* The first select of `decide`: the box, then the broker under the deadline.
Ask(p) ==
    /\ at[p] = "ask"
    /\ \/ box[p] # "empty" /\ Goto(p, "settle")
       \/ box[p] = "empty" /\ p \in expired /\ Goto(p, "expire")
       \/ box[p] = "empty" /\ p \notin expired /\ \E place \in {"brokered", "wait"} : Goto(p, place)
    /\ UNCHANGED <<out, entries, early, settling, sweep, turn, events, outside>>

\* Expired while the broker deliberated: refused, unless a `respond` holds it.
Expire(p) ==
    /\ at[p] = "expire"
    /\ pending' = pending \ {p}
    /\ IF p \in pending THEN Answers(p, "refuse", "publish") ELSE Goto(p, "late") /\ UNCHANGED out
    /\ UNCHANGED <<taken, box, settlement, early, settling, sweep, turn, events, outside>>

Late(p) ==
    /\ at[p] = "late"
    /\ box[p] # "empty"
    /\ Goto(p, "settle")
    /\ UNCHANGED <<out, entries, early, settling, sweep, turn, events, outside>>

\* The broker chose: it counts only if nobody answered first.
Brokered(p) ==
    /\ at[p] = "brokered"
    /\ pending' = pending \ {p}
    /\ IF p \in pending
       THEN \E choice \in Choices : box' = [box EXCEPT ![p] = choice] /\ Goto(p, "settle")
       ELSE Goto(p, "wait") /\ UNCHANGED box
    /\ UNCHANGED <<out, taken, settlement, early, settling, sweep, turn, events, outside>>

\* Mutant: the last select has no deadline.
Wait_Patiently(r) ==
    /\ at[r] = "wait"
    /\ box[r] # "empty" \/ hostGone
    /\ Goto(r, "take")
    /\ UNCHANGED <<out, entries, early, settling, sweep, turn, events, outside>>

\* The last select: the box first, the host's end or the deadline otherwise.
Wait(r) ==
    /\ at[r] = "wait"
    /\ box[r] # "empty" \/ hostGone \/ r \in expired
    /\ Goto(r, "take")
    /\ UNCHANGED <<out, entries, early, settling, sweep, turn, events, outside>>

\* `decide` takes its entry back, and is the one to report if it still was there.
TakeApproval(p) ==
    /\ at[p] = "take"
    /\ pending' = pending \ {p}
    /\ IF box[p] # "empty"
       THEN Goto(p, "settle") /\ UNCHANGED out
       ELSE Answers(p, "refuse", IF p \in pending THEN "publish" ELSE "done")
    /\ UNCHANGED <<taken, box, settlement, early, settling, sweep, turn, events, outside>>

\* Mutant: a refusal that a release has reported is reported again.
SettleApproval_Again(p) ==
    /\ at[p] = "settle"
    /\ IF box[p] = "server"
       THEN Answers(p, "empty", "publish")
       ELSE Answers(p, IF Admissible /\ box[p] = "grant" THEN "grant" ELSE "refuse", "publish")
    /\ UNCHANGED <<entries, early, settling, sweep, turn, events, outside>>

\* settle_answer: a refusal that a release sent is reported by that release.
SettleApproval(p) ==
    /\ at[p] = "settle"
    /\ CASE box[p] = "drained" -> Answers(p, "refuse", "done")
         [] box[p] = "server" -> Answers(p, "empty", "publish")
         [] OTHER -> Answers(p, IF Admissible THEN box[p] ELSE "refuse", "publish")
    /\ UNCHANGED <<entries, early, settling, sweep, turn, events, outside>>

\* Mutant: a round's task takes its entry without the settlement lock.
TakeRound_Unlocked(q) ==
    /\ at[q] = "take"
    /\ Goto(q, "settle")
    /\ UNCHANGED <<out, entries, early, settling, sweep, turn, events, outside>>

\* decide_question takes its entry under the settlement lock, which it keeps
\* until it has reported.
TakeRound(q) ==
    /\ at[q] = "take"
    /\ Free
    /\ settling' = q
    /\ Goto(q, "settle")
    /\ UNCHANGED <<out, entries, early, sweep, turn, events, outside>>

SettleRound(q) ==
    /\ at[q] = "settle"
    /\ LET answer == CASE box[q] = "grant" -> "grant" [] box[q] = "server" -> "empty"
                       [] OTHER -> "refuse"
       IN Answers(q, answer, IF q \in pending THEN "publish" ELSE "done")
    /\ pending' = pending \ {q}
    /\ IF q \in pending THEN UNCHANGED settling ELSE LetGo(q)
    /\ UNCHANGED <<taken, box, settlement, early, sweep, turn, events, outside>>

Publish(r) ==
    /\ at[r] = "publish"
    /\ Tell(r, Outcome(out[r]))
    /\ LetGo(r)
    /\ Goto(r, "done")
    /\ UNCHANGED <<out, entries, early, sweep, turn, outside>>

-----------------------------------------------------------------------------
(* The host and the clock.                                                 *)

\* A deadline that passes earlier makes no difference before these places.
DeadlinePasses(r) ==
    /\ at[r] \in {"ask", "brokered", "wait"} /\ r \notin expired
    /\ expired' = expired \cup {r}
    /\ UNCHANGED <<at, out, entries, early, settling, sweep, turn, events, accepted, withdrawn>>

\* `respond` takes the entry ...
RespondTakes(p) ==
    /\ p \in shown \cap pending
    /\ ~finishing
    /\ pending' = pending \ {p}
    /\ held' = held \cup {p}
    /\ overdue' = IF p \in expired THEN overdue \cup {p} ELSE overdue
    /\ UNCHANGED <<at, out, box, settlement, early, settling, sweep, turn, events, outside>>

\* ... looks at the deadline, and sends the choice or a refusal of one that comes too
\* late to a task that may have stopped listening ...
RespondSends(p) ==
    /\ p \in held
    /\ held' = held \ {p} /\ overdue' = overdue \ {p}
    /\ \/ /\ p \in expired
          /\ box' = Sent({p}, "refuse")
          /\ UNCHANGED accepted
       \/ /\ p \notin overdue
          /\ \E choice \in Choices :
                /\ box' = Sent({p}, choice)
                /\ accepted' = IF box' # box THEN [accepted EXCEPT ![p] = choice] ELSE accepted
    /\ UNCHANGED <<at, out, pending, settlement, early, settling, sweep, turn, events,
                   expired, withdrawn>>

\* ... or waits for the map and puts it back: the option was not one of those offered.
RespondPutsBack(p) ==
    /\ p \in held \ overdue
    /\ held' = held \ {p}
    /\ pending' = pending \cup {p}
    /\ UNCHANGED <<at, out, overdue, box, settlement, early, settling, sweep, turn, events,
                   outside>>

\* `answer` leaves the entry and what it accepted where a release finds both.
AnswerRound(q) ==
    /\ q \in shown \cap pending /\ box[q] = "empty"
    /\ Free /\ ~finishing
    /\ LET choice == IF q \in expired THEN "refuse" ELSE "grant"
       IN /\ box' = Sent({q}, choice)
          /\ box' # box
          /\ settlement' = [settlement EXCEPT ![q] = choice]
          /\ accepted' = IF q \in expired THEN accepted ELSE [accepted EXCEPT ![q] = choice]
    /\ UNCHANGED <<at, out, pending, taken, early, settling, sweep, turn, events,
                   expired, withdrawn>>

HostLeaves ==
    /\ ~hostGone
    /\ hostGone' = TRUE
    /\ UNCHANGED <<at, out, entries, early, settling, sweep, stopped, finishing, ended,
                   events, outside>>

-----------------------------------------------------------------------------
(* Whoever stops or ends the turn releases what is pending.                *)

SweepTo(w, place, left) == sweep' = [sweep EXCEPT ![w].at = place, ![w].left = left]

\* cancel_owner, and the teardown, which ends the turn as well.
StopBegins ==
    /\ sweep["stopper"].at = "idle" /\ ~finishing
    /\ stopped' = TRUE
    /\ \E kind \in {"stop", "close"} :
          sweep' = [sweep EXCEPT !["stopper"] = [at |-> "approvals", kind |-> kind, left |-> {}]]
    /\ UNCHANGED <<at, out, entries, early, settling, hostGone, finishing, ended, events,
                   outside>>

\* The teardown follows a stop that had no effect.
CloseBegins ==
    /\ sweep["stopper"].at = "done" /\ ~finishing
    /\ stopped' = TRUE
    /\ sweep' = [sweep EXCEPT !["stopper"] =
                    [at |-> "approvals", kind |-> "close", left |-> {}]]
    /\ UNCHANGED <<at, out, entries, early, settling, hostGone, finishing, ended, events,
                   outside>>

\* turn/completed, or an event the core refuses: the settlement lock first.
HandlerEnds ==
    /\ sweep["handler"].at = "idle" /\ ~finishing
    /\ Free
    /\ settling' = "handler"
    /\ \E kind \in {"finish"} \cup IF ended THEN {} ELSE {"refuse"} :
          sweep' = [sweep EXCEPT !["handler"] = [at |-> "approvals", kind |-> kind, left |-> {}]]
    /\ UNCHANGED <<at, out, entries, early, turn, events, outside>>

\* release_pending_approvals_for: every entry is taken and answered ...
SweepApprovals(w) ==
    /\ sweep[w].at = "approvals"
    /\ pending' = pending \ Approvals
    /\ box' = Sent(pending \cap Approvals, "drained")
    /\ SweepTo(w, "audit", pending \cap Approvals)
    /\ UNCHANGED <<at, out, taken, settlement, early, settling, turn, events, outside>>

\* ... and then reported, one by one.
Audit(w) ==
    /\ sweep[w].at = "audit"
    /\ \/ \E p \in sweep[w].left :
             Tell(p, "refuse") /\ SweepTo(w, "audit", sweep[w].left \ {p})
       \/ /\ sweep[w].left = {}
          /\ SweepTo(w, IF settling = w THEN "rounds" ELSE "lock", {})
          /\ UNCHANGED events
    /\ UNCHANGED <<at, out, entries, early, settling, turn, outside>>

SweepLocks(w) ==
    /\ sweep[w].at = "lock"
    /\ Free
    /\ settling' = w
    /\ SweepTo(w, "rounds", {})
    /\ UNCHANGED <<at, out, entries, early, turn, events, outside>>

\* release_pending_questions_for_locked: the same under the settlement lock, of
\* the rounds that were announced.
SweepRounds(w) ==
    /\ sweep[w].at = "rounds"
    /\ pending' = pending \ Questions
    /\ box' = Sent(pending \cap Questions, "drained")
    /\ SweepTo(w, "report", pending \cap Questions \cap shown)
    /\ UNCHANGED <<at, out, taken, settlement, early, settling, turn, events, outside>>

\* Mutant: a released round is reported cancelled although an answer to it was
\* accepted.
Settled_Cancelled(q) == "refuse"

\* What a round that is released is reported as.
Settled(q) == Outcome(settlement[q])

Report(w) ==
    /\ sweep[w].at = "report"
    /\ \/ \E q \in sweep[w].left :
             Tell(q, Settled(q)) /\ SweepTo(w, "report", sweep[w].left \ {q}) /\ UNCHANGED settling
       \/ /\ sweep[w].left = {}
          /\ SweepTo(w, IF sweep[w].kind = "stop" THEN "done" ELSE "end", {})
          /\ settling' = IF w = "stopper" THEN Nobody ELSE settling
          /\ UNCHANGED events
    /\ UNCHANGED <<at, out, entries, early, turn, outside>>

\* The terminal is claimed, or the stream is failed and admission kept.
SweepEnds(w) ==
    /\ sweep[w].at = "end"
    /\ IF sweep[w].kind = "refuse"
       THEN ended' = (ended \/ ~finishing) /\ UNCHANGED finishing
       ELSE finishing' = TRUE /\ UNCHANGED ended
    /\ sweep' = [sweep EXCEPT ![w] = IF w = "handler" THEN Idle ELSE [@ EXCEPT !.at = "done"]]
    /\ settling' = IF settling = w THEN Nobody ELSE settling
    /\ UNCHANGED <<at, out, entries, early, stopped, hostGone, events, outside>>

-----------------------------------------------------------------------------
(* serverRequest/resolved (release_resolved): the server stopped waiting.  *)

Withdraw(r) ==
    /\ sweep["handler"].at = "idle" /\ ~finishing
    /\ at[r] # "done" /\ r \notin withdrawn
    /\ withdrawn' = withdrawn \cup {r}
    /\ IF r \in pending \cap Approvals
       THEN /\ pending' = pending \ {r}
            /\ box' = Sent({r}, "server")
            /\ UNCHANGED sweep
       ELSE /\ sweep' = [sweep EXCEPT !["handler"] =
                            [at |-> "find", kind |-> "withdraw", left |-> {r}]]
            /\ UNCHANGED <<pending, box>>
    /\ UNCHANGED <<at, out, taken, settlement, early, settling, turn, events, expired, accepted>>

\* A round is taken, reported and answered under the settlement lock.
WithdrawFinds ==
    /\ sweep["handler"].at = "find"
    /\ Free
    /\ LET found == sweep["handler"].left \cap pending \cap Questions
       IN /\ pending' = pending \ found
          /\ settling' = IF found = {} THEN Nobody ELSE "handler"
          /\ sweep' = [sweep EXCEPT !["handler"].at = IF found = {} THEN "mark" ELSE "tell"]
    /\ UNCHANGED <<at, out, taken, box, settlement, early, turn, events, outside>>

WithdrawTells ==
    /\ sweep["handler"].at = "tell"
    /\ \E q \in sweep["handler"].left :
          /\ IF q \in shown THEN Tell(q, Settled(q)) ELSE UNCHANGED events
          /\ box' = Sent({q}, "server")
    /\ settling' = Nobody
    /\ sweep' = [sweep EXCEPT !["handler"] = Idle]
    /\ UNCHANGED <<at, out, pending, taken, settlement, early, turn, outside>>

\* Nothing is registered under it: it came early.
WithdrawMarks ==
    /\ sweep["handler"].at = "mark"
    /\ early' = IF finishing THEN early ELSE early \cup sweep["handler"].left
    /\ sweep' = [sweep EXCEPT !["handler"] = Idle]
    /\ UNCHANGED <<at, out, entries, settling, turn, events, outside>>

-----------------------------------------------------------------------------
Tasks(r) ==
    \/ Admit(r) \/ Register(r) \/ Recheck(r) \/ Retract(r) \/ Early(r) \/ Withdrawn(r)
    \/ Show(r) \/ Wait(r) \/ Publish(r)

ApprovalTasks(p) ==
    \/ Look(p) \/ Ask(p) \/ Expire(p) \/ Late(p) \/ Brokered(p)
    \/ TakeApproval(p) \/ SettleApproval(p)

QuestionTasks(q) == Announce(q) \/ Check(q) \/ TakeRound(q) \/ SettleRound(q)

Sweeps(w) ==
    \/ SweepApprovals(w) \/ Audit(w) \/ SweepLocks(w) \/ SweepRounds(w)
    \/ Report(w) \/ SweepEnds(w)

Withdrawals == WithdrawFinds \/ WithdrawTells \/ WithdrawMarks

Next ==
    \/ \E r \in Requests : Tasks(r) \/ DeadlinePasses(r) \/ Withdraw(r)
    \/ \E p \in Approvals :
          ApprovalTasks(p) \/ RespondTakes(p) \/ RespondSends(p) \/ RespondPutsBack(p)
    \/ \E q \in Questions : QuestionTasks(q) \/ AnswerRound(q)
    \/ HostLeaves \/ StopBegins \/ CloseBegins \/ HandlerEnds
    \/ \E w \in Sweepers : Sweeps(w)
    \/ Withdrawals

Spec == Init /\ [][Next]_vars

(***************************************************************************)
(* The runtime runs every task and every release, and deadlines pass.      *)
(* Nothing is asked of the host, of a broker or of the server.             *)
(***************************************************************************)
FairSpec ==
    /\ Spec
    /\ \A r \in Requests : WF_vars(Tasks(r)) /\ WF_vars(DeadlinePasses(r))
    /\ \A q \in Questions : WF_vars(QuestionTasks(q))
    /\ \A w \in Sweepers : WF_vars(Sweeps(w))
    /\ WF_vars(Withdrawals)

-----------------------------------------------------------------------------
\* A round of questions the host was shown is closed again before the stream
\* takes its end, whoever ends the turn and whatever the round's task, the
\* host's answer and the server's withdrawal are doing at that moment.
EveryRoundIsSettled == ~Open => shown \cap Questions = {}

\* No interaction is reported resolved twice: whoever takes its entry reports.
ResolvedOnce == \A r \in Requests : resolved[r] <= 1

\* What the host reads is what the server is answered, and a choice that was
\* accepted from the host reaches the server unless the turn was stopped.
HostAndServerAgree ==
    \A r \in Requests :
        /\ said[r] # "none" /\ out[r] # "none" => (said[r] = "grant") = (out[r] = "grant")
        /\ accepted[r] # "none" /\ at[r] = "done" /\ Admissible => out[r] = accepted[r]

\* Every round of questions the server asks is answered, deadline or not.
EveryRoundIsAnswered == \A q \in Questions : at[q] = "register" ~> at[q] = "done"

\* docs/harness-codex.md:201, "What the turn was still asking is settled before
\* the failure, as before an ordinary terminal": of the approvals, too.
EveryApprovalIsSettled == ~Open => shown \cap Approvals = {}
=============================================================================
