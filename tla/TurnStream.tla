----------------------------- MODULE TurnStream -----------------------------
(***************************************************************************)
(* The bounded transcript of one turn: `stream.rs` (EventSink, TurnStream) *)
(* over `stream/buffer.rs` (Buffer, EventReceiver).                        *)
(*                                                                         *)
(* Any number of cloned sinks publish into one buffer, one receiver drains *)
(* it.  Every critical section of the buffer's mutex is one action; what a *)
(* producer does after it unlocks (waking the reader, committing the       *)
(* overflow failure, electing the last owner) is an action of its own, so  *)
(* that other sinks and the receiver run in between.                       *)
(***************************************************************************)
EXTENDS Integers, Sequences, FiniteSets

CONSTANTS
    Sinks,                 \* identities of EventSink handles
    Sizes,                 \* serialized sizes an event may have
    TurnChannelCapacity,   \* Limits::turn_channel_capacity
    MaxPendingRequests,    \* Limits::max_pending_requests
    TurnBufferBytes,       \* Limits::turn_buffer_bytes
    InteractionEventBytes, \* INTERACTION_EVENT_BYTES
    MaxEvents              \* bound on the events a behaviour queues

ASSUME LimitsAssumption ==
    /\ Sinks # {} /\ IsFiniteSet(Sinks)
    /\ Sizes \subseteq Nat \ {0}
    /\ TurnChannelCapacity \in Nat
    /\ MaxPendingRequests \in Nat
    /\ TurnBufferBytes \in Nat
    /\ InteractionEventBytes \in Nat
    /\ MaxEvents \in Nat

VARIABLES
    \* State, behind the buffer's mutex
    events, terminal, status,
    payloadBytes, controlBytes, payloads, controls, closeRefused,
    \* Buffer, atomics and tokens outside it
    senders, abandoned, terminated,
    \* the tokio Notify the receiver waits on
    permit, wake,
    \* where each sink and the receiver are
    sinkPc, reader,
    \* history: what was queued, what the host read, what was refused
    accepted, delivered, overflowed, holeAt

queueVars   == <<events, payloadBytes, controlBytes, payloads, controls>>
stateVars   == <<queueVars, terminal, status, closeRefused>>
tokenVars   == <<senders, abandoned, terminated>>
notifyVars  == <<permit, wake>>
historyVars == <<accepted, delivered, overflowed, holeAt>>
vars == <<stateVars, tokenVars, notifyVars, sinkPc, reader, historyVars>>

-----------------------------------------------------------------------------
(* Events, outcomes and the budgets derived from the host's limits.        *)

Classes  == {"payload", "control"}
Event    == [id : 1..MaxEvents, class : Classes, bytes : Sizes]
Outcomes == {"completed", "cancelled", "failed", "stream-overflow"}
NoStatus == "none"

TerminalEvent(kind) == [id |-> 0, class |-> kind, bytes |-> 0]

TerminalEvents(outcome) ==
    CASE outcome = NoStatus    -> << >>
      [] outcome = "completed" -> <<TerminalEvent("Completed")>>
      [] outcome = "cancelled" -> <<TerminalEvent("Cancelled"),
                                    TerminalEvent("Completed")>>
      [] OTHER                 -> <<TerminalEvent("Error")>>

Least(a, b)    == IF a <= b THEN a ELSE b
Greatest(a, b) == IF a <= b THEN b ELSE a

ControlEventCap == Greatest(2 * MaxPendingRequests, 2)

\* Mutant: the byte reserve drifts from the count reserve.
ControlReserveBytes_HalfTheCap ==
    Least(MaxPendingRequests * InteractionEventBytes, TurnBufferBytes \div 2)

ControlReserveBytes ==
    Least(ControlEventCap * InteractionEventBytes, TurnBufferBytes \div 2)

PayloadBudget == TurnBufferBytes - ControlReserveBytes

\* Mutant: a refused close is forgotten.
Admit_ForgetsRefusal(class, bytes) ==
    /\ payloadBytes + controlBytes + bytes <= TurnBufferBytes
    /\ class = "control" => controls < ControlEventCap
    /\ class = "payload" =>
          /\ payloads < Greatest(TurnChannelCapacity, 1)
          /\ payloadBytes + bytes <= PayloadBudget

\* Buffer::admit.
Admit(class, bytes) ==
    /\ payloadBytes + controlBytes + bytes <= TurnBufferBytes
    /\ class = "control" => controls < ControlEventCap
    /\ class = "payload" =>
          /\ ~closeRefused
          /\ payloads < Greatest(TurnChannelCapacity, 1)
          /\ payloadBytes + bytes <= PayloadBudget

\* Mutants: a push looks at one of the two only.
Open_IgnoresAbandoned == status = NoStatus
Open_IgnoresStatus    == ~abandoned

\* What push_as asks of the stream before it looks at the budgets.
Open == ~abandoned /\ status = NoStatus

-----------------------------------------------------------------------------
(* The Notify: one waiter at most, since recv borrows the receiver.        *)
(* notify_one leaves a permit when nobody waits, notify_waiters does not.  *)

\* Mutant: the wait is registered when it is first polled, not by enable().
Waiting_OnceParked == reader = "parked" /\ wake = "no"

Waiting == reader \in {"armed", "empty", "parked"} /\ wake = "no"

NotifyOne ==
    IF Waiting THEN wake' = "one" /\ UNCHANGED permit
               ELSE permit' = TRUE /\ UNCHANGED wake

NotifyWaiters ==
    /\ wake' = IF Waiting THEN "all" ELSE wake
    /\ UNCHANGED permit

\* Dropping a wait that notify_one had chosen hands the notification on.
DropWait ==
    /\ permit' = (permit \/ wake = "one")
    /\ wake' = "no"

-----------------------------------------------------------------------------
(* Producers.                                                              *)

SinkMoves(s, from, to) ==
    /\ sinkPc[s] = from
    /\ sinkPc' = [sinkPc EXCEPT ![s] = to]

\* The room one event takes of its class (sign 1) or gives back (sign -1).
Account(class, bytes, sign) ==
    IF class = "control"
    THEN /\ controlBytes' = controlBytes + sign * bytes
         /\ controls' = controls + sign
         /\ UNCHANGED <<payloadBytes, payloads>>
    ELSE /\ payloadBytes' = payloadBytes + sign * bytes
         /\ payloads' = payloads + sign
         /\ UNCHANGED <<controlBytes, controls>>

Enqueue(class, bytes) ==
    LET event == [id |-> Len(accepted) + 1, class |-> class, bytes |-> bytes]
    IN  /\ events' = Append(events, event)
        /\ accepted' = Append(accepted, event)
        /\ Account(class, bytes, 1)

\* EventSink::emit of anything but a terminal: push_as under the lock.
\* A refusal for room returns the lock before the failure is committed.
Emit(s) ==
    \E class \in Classes, bytes \in Sizes :
        /\ Open
        /\ Len(accepted) < MaxEvents
        /\ \/ /\ Admit(class, bytes)
              /\ SinkMoves(s, "idle", "notify")
              /\ Enqueue(class, bytes)
              /\ UNCHANGED overflowed
           \/ /\ ~Admit(class, bytes)
              /\ SinkMoves(s, "idle", "overflow")
              /\ overflowed' = TRUE
              /\ UNCHANGED <<queueVars, accepted>>
        /\ UNCHANGED <<terminal, status, closeRefused, tokenVars, notifyVars,
                       reader, delivered, holeAt>>

\* EventSink::emit_close: ordinary payload, but a refusal commits nothing and
\* is remembered.
EmitClose(s) ==
    \E bytes \in Sizes :
        /\ Open
        /\ Len(accepted) < MaxEvents
        /\ \/ /\ Admit("payload", bytes)
              /\ SinkMoves(s, "idle", "notify")
              /\ Enqueue("payload", bytes)
              /\ UNCHANGED <<closeRefused, holeAt>>
           \/ /\ ~Admit("payload", bytes)
              /\ sinkPc[s] = "idle"
              /\ closeRefused' = TRUE
              /\ holeAt' = IF closeRefused THEN holeAt ELSE Len(accepted)
              /\ UNCHANGED <<queueVars, accepted, sinkPc>>
        /\ UNCHANGED <<terminal, status, tokenVars, notifyVars, reader,
                       delivered, overflowed>>

\* The notify_one that follows an accepted push.
NotifyPushed(s) ==
    /\ SinkMoves(s, "notify", "idle")
    /\ NotifyOne
    /\ UNCHANGED <<stateVars, tokenVars, reader, historyVars>>

\* Buffer::finish under the lock: the first outcome wins, and its events are
\* kept only for a receiver that still exists.
Finish(outcome) ==
    /\ status = NoStatus
    /\ status' = outcome
    /\ terminal' = IF abandoned THEN terminal ELSE TerminalEvents(outcome)
    /\ UNCHANGED <<queueVars, closeRefused>>

\* complete, cancel, cancel_on_close and fail.  A later outcome returns Ok and
\* changes nothing, so it has no step here.
Commit(s) ==
    \E outcome \in Outcomes \ {"stream-overflow"} :
        /\ SinkMoves(s, "idle", "announce")
        /\ Finish(outcome)
        /\ UNCHANGED <<tokenVars, notifyVars, reader, historyVars>>

\* emit commits the failure of an overflow it was refused for, unless another
\* sink committed something since.
CommitOverflow(s) ==
    /\ \/ /\ Finish("stream-overflow")
          /\ SinkMoves(s, "overflow", "announce")
       \/ /\ status # NoStatus
          /\ SinkMoves(s, "overflow", "idle")
          /\ UNCHANGED stateVars
    /\ UNCHANGED <<tokenVars, notifyVars, reader, historyVars>>

\* finish after it unlocked: cancel the terminated token, wake the waiter.
Announce(s) ==
    /\ \/ SinkMoves(s, "announce", "idle")
       \/ SinkMoves(s, "announceLast", "leaving")
    /\ terminated' = TRUE
    /\ NotifyWaiters
    /\ UNCHANGED <<stateVars, senders, abandoned, reader, historyVars>>

CloneSink(s, t) ==
    /\ sinkPc[s] = "idle"
    /\ SinkMoves(t, "absent", "idle")
    /\ senders' = senders + 1
    /\ UNCHANGED <<stateVars, abandoned, terminated, notifyVars, reader,
                   historyVars>>

\* EventSink::drop, release_nonfinal_sender: the last owner keeps its count.
DropSink(s) ==
    /\ \/ /\ senders > 1
          /\ SinkMoves(s, "idle", "absent")
          /\ senders' = senders - 1
       \/ /\ senders = 1
          /\ SinkMoves(s, "idle", "last")
          /\ UNCHANGED senders
    /\ UNCHANGED <<stateVars, abandoned, terminated, notifyVars, reader,
                   historyVars>>

\* Mutant: the last sink looks after it gave its count up.
OwesOverflowTerminal_TooLate ==
    closeRefused /\ status = NoStatus /\ senders = 0 /\ ~abandoned

OwesOverflowTerminal ==
    closeRefused /\ status = NoStatus /\ senders = 1 /\ ~abandoned

CheckOwed(s) ==
    /\ SinkMoves(s, "last", IF OwesOverflowTerminal THEN "owing" ELSE "leaving")
    /\ UNCHANGED <<stateVars, tokenVars, notifyVars, reader, historyVars>>

CommitOwed(s) ==
    /\ SinkMoves(s, "owing", "announceLast")
    /\ Finish("stream-overflow")
    /\ UNCHANGED <<tokenVars, notifyVars, reader, historyVars>>

\* remove_sender: only now may the reader see the disconnect.
RemoveSender(s) ==
    /\ SinkMoves(s, "leaving", "absent")
    /\ senders' = senders - 1
    /\ IF senders = 1 THEN NotifyWaiters ELSE UNCHANGED notifyVars
    /\ UNCHANGED <<stateVars, abandoned, terminated, reader, historyVars>>

-----------------------------------------------------------------------------
(* The receiver.                                                           *)

\* recv, top of its loop: register for the next notification before looking.
Arm ==
    /\ reader = "idle"
    /\ reader' = "armed"
    /\ wake' = IF permit THEN "all" ELSE "no"
    /\ permit' = FALSE
    /\ UNCHANGED <<stateVars, tokenVars, sinkPc, historyVars>>

\* Mutant: only an outcome ends the stream.
Disconnected_OutcomeOnly ==
    events = << >> /\ terminal = << >> /\ status # NoStatus

Disconnected ==
    /\ events = << >> /\ terminal = << >>
    /\ status # NoStatus \/ senders = 0

\* Mutant: reading gives back the place and not the bytes.
Refund_PlaceOnly(event) == Account(event.class, 0, -1)

Refund(event) == Account(event.class, event.bytes, -1)

\* try_recv under the lock, found something: queued events before the
\* terminal, giving back what the event held of the budgets.
TakeNext ==
    \/ /\ events # << >>
       /\ events' = Tail(events)
       /\ delivered' = Append(delivered, Head(events))
       /\ Refund(Head(events))
       /\ UNCHANGED terminal
    \/ /\ events = << >> /\ terminal # << >>
       /\ terminal' = Tail(terminal)
       /\ delivered' = Append(delivered, Head(terminal))
       /\ UNCHANGED queueVars

\* recv with an event to return, or a host polling try_recv directly.
TryRecv ==
    /\ reader \in {"idle", "armed"}
    /\ reader' = "idle"
    /\ TakeNext
    /\ DropWait
    /\ UNCHANGED <<status, closeRefused, tokenVars, sinkPc, accepted,
                   overflowed, holeAt>>

\* recv returns None.
SeeEnd ==
    /\ reader = "armed"
    /\ Disconnected
    /\ reader' = "ended"
    /\ DropWait
    /\ UNCHANGED <<stateVars, tokenVars, sinkPc, historyVars>>

\* recv's try_recv found nothing, and other threads run before the await.
FindNothing ==
    /\ reader = "armed"
    /\ events = << >> /\ terminal = << >> /\ ~Disconnected
    /\ reader' = "empty"
    /\ UNCHANGED <<stateVars, tokenVars, notifyVars, sinkPc, historyVars>>

\* recv awaits its notification.
Park ==
    /\ reader = "empty"
    /\ reader' = "parked"
    /\ UNCHANGED <<stateVars, tokenVars, notifyVars, sinkPc, historyVars>>

Woken ==
    /\ reader = "parked" /\ wake # "no"
    /\ reader' = "idle"
    /\ wake' = "no"
    /\ UNCHANGED <<stateVars, tokenVars, permit, sinkPc, historyVars>>

\* The host drops a pending recv, a select! branch that lost for example.
CancelRecv ==
    /\ reader = "parked"
    /\ reader' = "idle"
    /\ DropWait
    /\ UNCHANGED <<stateVars, tokenVars, sinkPc, historyVars>>

\* EventReceiver::drop: the abandoned token first, then the queue is emptied.
Abandon ==
    /\ reader \in {"idle", "ended"}
    /\ reader' = "dropping"
    /\ abandoned' = TRUE
    /\ UNCHANGED <<stateVars, senders, terminated, notifyVars, sinkPc,
                   historyVars>>

ClearAbandoned ==
    /\ reader = "dropping"
    /\ reader' = "dropped"
    /\ events' = << >> /\ terminal' = << >>
    /\ payloadBytes' = 0 /\ controlBytes' = 0
    /\ payloads' = 0 /\ controls' = 0
    /\ UNCHANGED <<status, closeRefused, tokenVars, notifyVars, sinkPc,
                   historyVars>>

-----------------------------------------------------------------------------
Init ==
    /\ events = << >> /\ terminal = << >> /\ status = NoStatus
    /\ payloadBytes = 0 /\ controlBytes = 0 /\ payloads = 0 /\ controls = 0
    /\ closeRefused = FALSE
    /\ senders = 1 /\ abandoned = FALSE /\ terminated = FALSE
    /\ permit = FALSE /\ wake = "no"
    /\ \E first \in Sinks :
          sinkPc = [s \in Sinks |-> IF s = first THEN "idle" ELSE "absent"]
    /\ reader = "idle"
    /\ accepted = << >> /\ delivered = << >>
    /\ overflowed = FALSE /\ holeAt = 0

\* What a sink does of its own accord once it was called.
SinkCompletes(s) ==
    \/ NotifyPushed(s) \/ CommitOverflow(s) \/ Announce(s)
    \/ CheckOwed(s) \/ CommitOwed(s) \/ RemoveSender(s)

\* What the harness asks of a sink.
SinkCalled(s) ==
    \/ Emit(s) \/ EmitClose(s) \/ Commit(s) \/ DropSink(s)
    \/ \E t \in Sinks : CloneSink(s, t)

Reads == Arm \/ TryRecv \/ SeeEnd \/ FindNothing \/ Park \/ Woken

Next ==
    \/ \E s \in Sinks : SinkCalled(s) \/ SinkCompletes(s)
    \/ Reads \/ CancelRecv \/ Abandon \/ ClearAbandoned

Spec == Init /\ [][Next]_vars

\* A producer call has no await inside, so once made it runs to its end; the
\* host drains the stream in its supervisor, as docs/lifecycle.md asks.
Fairness ==
    /\ \A s \in Sinks : WF_vars(SinkCompletes(s))
    /\ WF_vars(Reads) /\ WF_vars(ClearAbandoned)

FairSpec == Spec /\ Fairness

-----------------------------------------------------------------------------
(* Properties.                                                             *)

SinkPcs == {"absent", "idle", "notify", "overflow", "announce", "last",
            "owing", "announceLast", "leaving"}
ReaderPcs == {"idle", "armed", "empty", "parked", "ended", "dropping",
              "dropped"}
Terminals == {TerminalEvent(kind) : kind \in {"Completed", "Cancelled", "Error"}}

\* Every variable keeps its type.
TypeOK ==
    /\ events \in Seq(Event) /\ terminal \in Seq(Terminals)
    /\ status \in Outcomes \cup {NoStatus}
    /\ payloadBytes \in Nat /\ controlBytes \in Nat
    /\ payloads \in Nat /\ controls \in Nat
    /\ closeRefused \in BOOLEAN
    /\ senders \in Nat /\ abandoned \in BOOLEAN /\ terminated \in BOOLEAN
    /\ permit \in BOOLEAN /\ wake \in {"no", "one", "all"}
    /\ sinkPc \in [Sinks -> SinkPcs] /\ reader \in ReaderPcs
    /\ accepted \in Seq(Event) /\ delivered \in Seq(Event \cup Terminals)
    /\ overflowed \in BOOLEAN /\ holeAt \in Nat

\* The queue never passes any of its four budgets, whatever the sinks and the
\* receiver do at once: turn_buffer_bytes over both classes, the payload area,
\* and the two count caps (Buffer::admit).
BudgetRespected ==
    /\ payloadBytes + controlBytes <= TurnBufferBytes
    /\ payloadBytes <= PayloadBudget
    /\ payloads <= Greatest(TurnChannelCapacity, 1)
    /\ controls <= ControlEventCap

\* The four running totals are those of the events still queued, so that no
\* subtraction of try_recv underflows and a drained queue has all its room
\* back.  The bytes of a class are counted one by one, as <<position, byte>>.
Queued(queue, class) == {i \in 1..Len(queue) : queue[i].class = class}

QueuedBytes(queue, class) ==
    UNION {{i} \X (1..queue[i].bytes) : i \in Queued(queue, class)}

BudgetExact ==
    /\ payloads = Cardinality(Queued(events, "payload"))
    /\ controls = Cardinality(Queued(events, "control"))
    /\ payloadBytes = Cardinality(QueuedBytes(events, "payload"))
    /\ controlBytes = Cardinality(QueuedBytes(events, "control"))

\* "Without the byte reserve ... the host was never asked": while the reserve
\* is not clamped, an interaction event of the budgeted size always has room
\* as long as the queued interactions are no larger than budgeted and their
\* count cap is not reached, however full the payload area is.
InteractionAlwaysFits ==
    ( /\ 2 * (ControlEventCap * InteractionEventBytes) <= TurnBufferBytes
      /\ controlBytes <= controls * InteractionEventBytes
      /\ controls < ControlEventCap )
    => Admit("control", InteractionEventBytes)

\* A host that keeps its receiver loses, repeats and reorders nothing: what it
\* read, what is queued and the terminal still reserved are exactly what was
\* accepted followed by the events of the committed outcome.
TranscriptFaithful ==
    reader \notin {"dropping", "dropped"} =>
        delivered \o events \o terminal = accepted \o TerminalEvents(status)

\* After emit_close was refused for room, no payload is queued any more: the
\* host never sees new payload behind a close that is missing.
NoPayloadBehindRefusedClose ==
    closeRefused =>
        \A i \in DOMAIN accepted : i > holeAt => accepted[i].class = "control"

\* A stream that lost an event for room never just stops: a receiver that saw
\* the end of such a stream read a terminal first (EventSink::drop).
NoSilentEnd ==
    reader = "ended" /\ (overflowed \/ closeRefused) =>
        /\ status # NoStatus
        /\ delivered[Len(delivered)] \in Terminals

\* A dropped receiver's buffer is empty and stays empty: no push or finish
\* that raced the drop leaves an event behind it (EventReceiver::drop).
DroppedReceiverHoldsNothing ==
    reader = "dropped" =>
        /\ events = << >> /\ terminal = << >>
        /\ payloadBytes = 0 /\ controlBytes = 0
        /\ payloads = 0 /\ controls = 0

\* docs/lifecycle.md: "An overflow means the transcript is incomplete; it
\* never means execution succeeded."  Between the refusal and the failure it
\* commits, another sink may commit completion.
OverflowNeverCompletes == overflowed => status # "completed"

\* No lost wakeup: a receiver parked in recv while there is something to read,
\* or nothing will ever come, does not stay parked.
ParkedReaderWakes ==
    ( reader = "parked" /\ (events # << >> \/ terminal # << >> \/ Disconnected) )
        ~> reader # "parked"

\* The committed outcome reaches a host that keeps draining, and so does the
\* end of a stream whose last sink was dropped, unless the host lets go.
EndReachesReader ==
    (status # NoStatus \/ senders = 0) ~> (reader = "ended" \/ abandoned)

\* The abstract transcript this buffer implements: the log is what was
\* accepted, closed by the events of the committed outcome.
Transcript ==
    INSTANCE TurnTranscript WITH
        Payload <- Event, Outcome <- Outcomes, Undecided <- NoStatus,
        EventsOf <- TerminalEvents,
        log <- accepted \o TerminalEvents(status), outcome <- status,
        read <- delivered,
        host <- IF abandoned THEN "gone"
                ELSE IF reader = "ended" THEN "ended" ELSE "reading"

\* Every behaviour of the buffer is one of the abstract transcript.
ImplementsTranscript == Transcript!Spec
=============================================================================
