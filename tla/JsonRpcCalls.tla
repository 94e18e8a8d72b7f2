---------------------------- MODULE JsonRpcCalls ----------------------------
(***************************************************************************)
(* The calls of one JSON-RPC client: `jsonrpc.rs` (Client::request,        *)
(* Client::submit_request, Reply, PendingCall, ClientState) with the       *)
(* writer of `jsonrpc/outbox.rs` (frame, write).                           *)
(*                                                                         *)
(* A direct call enters itself among the calls awaiting an answer and      *)
(* writes its own frame; a submitted one queues the frame, and the writer  *)
(* enters and writes it.  The reader matches answers, the handler's task   *)
(* delivers those asked for in order, and a call may be given up at every  *)
(* await.  Meanwhile the connection may end: by a close, by the drop of    *)
(* the client, or under it, by whatever the reader hears.  Each critical   *)
(* section is an action; so is each step between two of them.              *)
(***************************************************************************)
EXTENDS Integers, FiniteSets

CONSTANTS
    Calls,              \* the calls a host makes
    Submitted,          \* those it makes with submit_request
    Ordered,            \* those whose answer it wants in order
    Counted,            \* those counted among max_pending_requests
    CancelOnAbandon,    \* whether WireOptions::cancel_on_abandon is set
    MaxPendingRequests, \* ClientOptions::max_pending_requests
    NoCall              \* `writing` and `matched` when no call is in hand

ASSUME CallsAssumption ==
    /\ IsFiniteSet(Calls)
    /\ Submitted \subseteq Calls /\ Ordered \subseteq Calls
    /\ Counted \subseteq Calls
    /\ CancelOnAbandon \in BOOLEAN
    /\ MaxPendingRequests \in Nat
    /\ NoCall \notin Calls

VARIABLES
    caller,    \* how far each caller is
    phase,     \* FrameCtl::phase, or what a direct caller has written
    holder,    \* who holds the sending end a call is settled through
    answer,    \* what was sent through it
    claim,     \* CallClaim: who has had the last word
    places,    \* the calls that hold an ordered place
    cleanup,   \* dropped calls whose entry is still to be taken out
    writer,    \* the outbox task
    writing,   \* the call whose frame it has in hand
    pump,      \* the reader
    matched,   \* the call whose answer it has in hand
    closer,    \* the close, or the drop of the client
    dropped,   \* whether it is the drop
    givenUp,   \* whether a close was given up and none has taken over
    worker,    \* whether the handler's task runs
    ended,     \* ClientState::ended, the first cause on record
    sealed, closed, poisoned,
    cancels,   \* history: calls whose cancel was queued
    heard      \* history: calls that returned what they were settled with

callVars == <<caller, phase, holder, answer, claim, places, cleanup>>
endVars  == <<closer, dropped, givenUp, ended, sealed, closed>>
vars == <<callVars, writer, writing, pump, matched, endVars, worker, poisoned,
          cancels, heard>>

Direct == Calls \ Submitted

Init ==
    /\ caller = [c \in Calls |-> "idle"] /\ phase = [c \in Calls |-> "none"]
    /\ holder = [c \in Calls |-> "nobody"]
    /\ answer = [c \in Calls |-> "none"] /\ claim = [c \in Calls |-> "free"]
    /\ places = {} /\ cleanup = {}
    /\ writer = "idle" /\ writing = NoCall
    /\ pump = "reading" /\ matched = NoCall
    /\ closer = "none" /\ dropped = FALSE /\ givenUp = FALSE
    /\ worker = "running" /\ ended = "none"
    /\ sealed = FALSE /\ closed = FALSE /\ poisoned = FALSE
    /\ cancels = {} /\ heard = {}

-----------------------------------------------------------------------------
(* What the actions are made of.                                           *)

Began(c) == phase[c] \in {"writing", "finished"}

\* The link's lock is free: a frame is written by one task at a time.
LinkFree == \A c \in Calls : phase[c] # "writing"

\* Settling a set of calls at once: their sending ends are used and gone, and
\* the places their entries held go with them.
Settle(settled, with) ==
    /\ holder' = [c \in Calls |-> IF c \in settled THEN "gone" ELSE holder[c]]
    /\ answer' = [c \in Calls |-> IF c \in settled THEN with ELSE answer[c]]
    /\ places' = places \ settled

\* Dropping them unsettled.
LetGo(c) ==
    /\ holder' = [holder EXCEPT ![c] = "gone"]
    /\ places' = places \ {c}
    /\ UNCHANGED answer

Entries == {c \in Calls : holder[c] = "map"}

\* Entries nobody waits on any more; every look at the budget drops them.
Dead == {c \in Entries : caller[c] = "done"}

HasRoom(c) ==
    c \in Counted => Cardinality((Entries \ Dead) \cap Counted) < MaxPendingRequests

PlaceFree == Cardinality(places) < MaxPendingRequests

\* The dead entries go, and call c enters among those awaiting an answer.
Insert(c) ==
    holder' = [x \in Calls |-> IF x = c THEN "map"
                               ELSE IF x \in Dead THEN "gone" ELSE holder[x]]

Prune == holder' = [x \in Calls |-> IF x \in Dead THEN "gone" ELSE holder[x]]

\* ended_with: the first cause is kept.
Recorded(end) == IF ended = "none" THEN end ELSE ended

\* Mutant: nobody asks what ended the connection.
EndOr_Unasked(otherwise) == otherwise

\* undelivered_failure and fail_unwritten: what ended the connection, or this.
EndOr(otherwise) == IF ended = "none" THEN otherwise ELSE ended

Move(c, to) == caller' = [caller EXCEPT ![c] = to]
Phase(c, to) == phase' = [phase EXCEPT ![c] = to]

-----------------------------------------------------------------------------
(* A caller asks.                                                          *)

\* Reads the client open, or is refused.
Ask(c) ==
    /\ caller[c] = "idle"
    /\ Move(c, IF closed THEN "done" ELSE "entering")
    /\ UNCHANGED <<phase, holder, answer, claim, places, cleanup, writer, writing,
                   pump, matched, endVars, worker, poisoned, cancels, heard>>

\* Mutant: the flag is not read again under the lock.
MayEnter_ReadBefore == TRUE

\* A direct call enters itself, unless the connection was closed meanwhile.
MayEnter == ~closed

Enter(c) ==
    /\ c \in Direct /\ caller[c] = "entering"
    /\ \/ ~MayEnter /\ Move(c, "done") /\ UNCHANGED <<holder, places>>
       \/ /\ MayEnter /\ (~HasRoom(c) \/ (c \in Ordered /\ ~PlaceFree))
          /\ Move(c, "done") /\ Prune /\ places' = places \ Dead
       \/ /\ MayEnter /\ HasRoom(c) /\ (c \in Ordered => PlaceFree)
          /\ Move(c, "writing") /\ Insert(c)
          /\ places' = (places \ Dead) \cup ({c} \cap Ordered)
    /\ UNCHANGED <<phase, answer, claim, cleanup, writer, writing, pump, matched,
                   endVars, worker, poisoned, cancels, heard>>

\* Its turn at the link comes up.
TakeLink(c) ==
    /\ c \in Direct /\ caller[c] = "writing" /\ phase[c] = "none" /\ LinkFree
    /\ ~poisoned /\ Phase(c, "writing")
    /\ UNCHANGED <<caller, holder, answer, claim, places, cleanup, writer, writing,
                   pump, matched, endVars, worker, poisoned, cancels, heard>>

\* It does not come in time, the link is unusable, or the frame is too large.
WriteRefused(c) ==
    /\ c \in Direct /\ caller[c] = "writing" /\ phase[c] = "none"
    /\ Move(c, "failing")
    /\ UNCHANGED <<phase, holder, answer, claim, places, cleanup, writer, writing,
                   pump, matched, endVars, worker, poisoned, cancels, heard>>

Written(c) ==
    /\ c \in Direct /\ caller[c] = "writing" /\ phase[c] = "writing"
    /\ Phase(c, "finished") /\ Move(c, "waiting")
    /\ UNCHANGED <<holder, answer, claim, places, cleanup, writer, writing,
                   pump, matched, endVars, worker, poisoned, cancels, heard>>

\* The write fails: in the link, which is unusable from now on, or locally.
WriteFails(c) ==
    /\ c \in Direct /\ caller[c] = "writing" /\ phase[c] = "writing"
    /\ Phase(c, "finished") /\ Move(c, "failing")
    /\ \/ UNCHANGED poisoned
       \/ poisoned' = TRUE
    /\ UNCHANGED <<holder, answer, claim, places, cleanup, writer, writing,
                   pump, matched, endVars, worker, cancels, heard>>

\* It takes its entry back out before it returns the failure.
ReturnFailure(c) ==
    /\ caller[c] = "failing" /\ Move(c, "done")
    /\ IF holder[c] = "map" THEN LetGo(c) ELSE UNCHANGED <<holder, answer, places>>
    /\ UNCHANGED <<phase, claim, cleanup, writer, writing, pump, matched, endVars,
                   worker, poisoned, cancels, heard>>

\* A submitted call is queued with its frame, in one synchronous step.
Queue(c) ==
    /\ c \in Submitted /\ caller[c] = "entering"
    /\ \/ \* sealed, no ordered place, an unusable link, a frame too large
          Move(c, "done") /\ UNCHANGED <<phase, holder, places>>
       \/ /\ ~sealed /\ ~poisoned /\ (c \in Ordered => PlaceFree)
          /\ Phase(c, "queued") /\ Move(c, "waiting")
          /\ holder' = [holder EXCEPT ![c] = "frame"]
          /\ places' = places \cup ({c} \cap Ordered)
       \/ \* no room in the queue
          /\ ~sealed /\ ~poisoned /\ (c \in Ordered => PlaceFree)
          /\ Move(c, "overflowing") /\ places' = places \cup ({c} \cap Ordered)
          /\ UNCHANGED <<phase, holder>>
    /\ UNCHANGED <<answer, claim, cleanup, writer, writing, pump, matched, endVars,
                   worker, poisoned, cancels, heard>>

\* outbound_overflow: the end is recorded, and the link made unusable with it
\* unless a close was on record first.
Overflow(c) ==
    /\ caller[c] = "overflowing" /\ Move(c, "done") /\ places' = places \ {c}
    /\ ended' = Recorded("peer")
    /\ poisoned' = (poisoned \/ ended' # "closed")
    /\ UNCHANGED <<phase, holder, answer, claim, cleanup, writer, writing, pump,
                   matched, closer, dropped, givenUp, sealed, closed, worker,
                   cancels, heard>>

-----------------------------------------------------------------------------
(* A caller stops waiting.                                                 *)

\* PendingCall::drop takes the last word on a call the peer may have seen.
MayCancel(c) == CancelOnAbandon /\ claim[c] = "free"

\* A direct caller counts as having written only once the write returned.
Wrote(c) == IF c \in Submitted THEN Began(c) ELSE caller[c] = "waiting"

\* A direct call dropped here leaves half a frame on the wire: MidSend.
MidSend(c) == c \in Direct /\ phase[c] = "writing"

\* Mutant: the place stays with a frame nobody will write.
Withdrawn_KeepsPlace(c) == {}

\* The place a withdrawn frame gives back at once, if it still has it.
Withdrawn(c) == IF holder[c] = "frame" THEN {c} ELSE {}

\* The drops of Reply and PendingCall: a queued frame is withdrawn, the cancel
\* goes now, the entry when the lock is free.
Leave(c) ==
    /\ Move(c, "done") /\ cleanup' = cleanup \cup {c}
    /\ phase' = [phase EXCEPT ![c] = CASE @ = "queued" -> "unwritten"
                                       [] MidSend(c)   -> "finished"
                                       [] OTHER        -> @]
    /\ places' = places \ Withdrawn(c)
    /\ IF MidSend(c) THEN poisoned' = TRUE ELSE UNCHANGED poisoned
    /\ IF Wrote(c) /\ MayCancel(c)
       THEN /\ claim' = [claim EXCEPT ![c] = "caller"]
            /\ cancels' = IF closed \/ poisoned \/ sealed THEN cancels
                          ELSE cancels \cup {c}
       ELSE UNCHANGED <<claim, cancels>>
    /\ UNCHANGED <<holder, answer, writer, writing, pump, matched, endVars, worker>>

\* The caller is woken with what the call was settled with, or because nobody
\* is left who could settle it.
Hear(c) ==
    /\ caller[c] = "waiting" /\ (answer[c] # "none" \/ holder[c] = "gone")
    /\ Leave(c) /\ heard' = heard \cup {c}

\* A deadline passes, or the future is dropped, at any await.
GiveUp(c) ==
    /\ caller[c] \in {"writing", "failing", "waiting"}
    /\ Leave(c) /\ UNCHANGED heard

\* So it may be before the call has an entry.
GiveUpEntering(c) ==
    /\ c \in Direct /\ caller[c] = "entering" /\ Move(c, "done")
    /\ UNCHANGED <<phase, holder, answer, claim, places, cleanup, writer, writing,
                   pump, matched, endVars, worker, poisoned, cancels, heard>>

\* Mutant: a lock in use is taken for an entry already gone.
TakeOut_GivesUp(c) == UNCHANGED <<holder, answer, places>>

TakeOut(c) ==
    IF holder[c] = "map" THEN LetGo(c) ELSE UNCHANGED <<holder, answer, places>>

\* The entry a dropped call left, taken out at once or on the runtime later.
CleanUp(c) ==
    /\ c \in cleanup /\ cleanup' = cleanup \ {c} /\ TakeOut(c)
    /\ UNCHANGED <<caller, phase, claim, writer, writing, pump, matched, endVars,
                   worker, poisoned, cancels, heard>>

-----------------------------------------------------------------------------
(* The writer.                                                             *)

writerRest == <<caller, cleanup, pump, matched, endVars, worker, cancels, heard>>

Writer(from, to) == writer = from /\ writer' = to /\ UNCHANGED writerRest

\* It takes a frame off the queue; one withdrawn meanwhile is let go.
TakeFrame(c) ==
    /\ holder[c] = "frame"
    /\ \/ /\ phase[c] = "queued" /\ Writer("idle", "registering") /\ writing' = c
          /\ holder' = [holder EXCEPT ![c] = "writer"] /\ UNCHANGED <<places, answer>>
       \/ /\ phase[c] # "queued" /\ Writer("idle", "idle")
          /\ LetGo(c) /\ UNCHANGED writing
    /\ UNCHANGED <<phase, claim, poisoned>>

\* Its call is entered, unless the connection is closed or the budget is full.
Register ==
    LET c == writing IN
    /\ \/ /\ closed /\ Writer("registering", "idle") /\ Settle({c}, EndOr("stopped"))
          /\ Phase(c, "unwritten") /\ writing' = NoCall
       \/ /\ ~closed /\ ~HasRoom(c) /\ Writer("registering", "idle")
          /\ holder' = [x \in Calls |-> IF x \in Dead \cup {c} THEN "gone" ELSE holder[x]]
          /\ answer' = [answer EXCEPT ![c] = "unwritten"]
          /\ places' = places \ (Dead \cup {c})
          /\ Phase(c, "unwritten") /\ writing' = NoCall
       \/ /\ ~closed /\ HasRoom(c) /\ Writer("registering", "registered")
          /\ Insert(c) /\ places' = places \ Dead /\ UNCHANGED <<answer, phase, writing>>
    /\ UNCHANGED <<claim, poisoned>>

\* It has the link and the frame is still wanted.
Begin ==
    /\ Writer("registered", "writing") /\ LinkFree /\ ~poisoned
    /\ phase[writing] = "queued" /\ Phase(writing, "writing")
    /\ UNCHANGED <<holder, answer, claim, places, writing, poisoned>>

\* It is not: withdrawn, past its deadline, or behind a broken write.
NotBegun ==
    /\ LinkFree /\ Writer("registered", "refused")
    /\ phase' = [phase EXCEPT ![writing] = "unwritten"]
    /\ UNCHANGED <<holder, answer, claim, places, writing, poisoned>>

Sent ==
    /\ Writer("writing", "idle") /\ Phase(writing, "finished") /\ writing' = NoCall
    /\ UNCHANGED <<holder, answer, claim, places, poisoned>>

\* In the link or by the deadline, and then it is unusable; or locally.
SendFails ==
    /\ Writer("writing", "refused")
    /\ Phase(writing, "finished")
    /\ \/ UNCHANGED poisoned
       \/ poisoned' = TRUE
    /\ UNCHANGED <<holder, answer, claim, places, writing>>

\* The last word is taken before anything is waited for.
TakeClaim ==
    /\ Writer("refused", "failing")
    /\ claim' = IF CancelOnAbandon /\ claim[writing] = "free"
                THEN [claim EXCEPT ![writing] = "writer"] ELSE claim
    /\ UNCHANGED <<phase, holder, answer, places, writing, poisoned>>

FailUnwritten ==
    /\ Writer("failing", "idle") /\ writing' = NoCall
    /\ IF holder[writing] = "map" THEN Settle({writing}, EndOr("unwritten"))
       ELSE UNCHANGED <<holder, answer, places>>
    /\ UNCHANGED <<phase, claim, poisoned>>

-----------------------------------------------------------------------------
(* The reader and the handler's task.                                      *)

readerRest == <<caller, phase, cleanup, writer, writing, endVars, poisoned,
                cancels, heard>>

\* An answer of the peer, to a call it may have seen, takes its entry out.
Match(c) ==
    /\ pump = "reading" /\ holder[c] = "map" /\ Began(c)
    /\ pump' = "matched" /\ matched' = c
    /\ holder' = [holder EXCEPT ![c] = "reader"]
    /\ UNCHANGED <<answer, claim, places, worker, readerRest>>

\* Mutant: the reader does not look whether the call was given up.
TooLate_Never(c) == FALSE

\* given_up: somebody else had the last word.
TooLate(c) == CancelOnAbandon /\ claim[c] # "free"

\* The answer comes too late and is dropped, or the call is the reader's.
Claim ==
    /\ pump = "matched"
    /\ IF TooLate(matched)
       THEN pump' = "reading" /\ matched' = NoCall /\ LetGo(matched) /\ UNCHANGED claim
       ELSE /\ pump' = "claimed" /\ UNCHANGED <<matched, holder, answer, places>>
            /\ claim' = IF CancelOnAbandon THEN [claim EXCEPT ![matched] = "reader"]
                        ELSE claim
    /\ UNCHANGED <<worker, readerRest>>

\* It is sent at once, or queued behind the work read before it.  A queue
\* whose task is gone gives it back, and it fails.
Deliver ==
    /\ pump = "claimed" /\ pump' = "reading" /\ matched' = NoCall
    /\ CASE matched \notin places -> Settle({matched}, "answer")
         [] worker = "running" ->
              /\ holder' = [holder EXCEPT ![matched] = "queue"]
              /\ UNCHANGED <<answer, places>>
         [] OTHER -> Settle({matched}, EndOr("stopped"))
    /\ UNCHANGED <<claim, worker, readerRest>>

DeliverQueued(c) ==
    /\ worker = "running" /\ holder[c] = "queue" /\ Settle({c}, "answer")
    /\ UNCHANGED <<claim, pump, matched, worker, readerRest>>

\* The handler panics, or its task is stopped, or has drained its queue: what
\* is still queued fails as it is dropped.
WorkerStops ==
    /\ worker = "running" /\ worker' = "gone"
    /\ Settle({c \in Calls : holder[c] = "queue"}, EndOr("stopped"))
    /\ UNCHANGED <<claim, pump, matched, readerRest>>

-----------------------------------------------------------------------------
(* The connection ends.                                                    *)

endRest == <<caller, phase, claim, cleanup, writer, writing, matched, worker,
             poisoned, cancels, heard>>

\* The entries the last pass over the record fails.
LeftOver == Entries

\* The reader hears of an end: an exit, a broken budget, a failed link.  One a
\* close has put on record is the close's.
PumpEnds ==
    /\ pump = "reading" /\ ended' = Recorded("peer")
    /\ pump' = IF ended' = "closed" THEN "stopped" ELSE "recorded"
    /\ UNCHANGED <<endRest, holder, answer, places, closer, dropped, givenUp,
                   sealed, closed>>

PumpSeals ==
    /\ pump = "recorded" /\ pump' = "sealed" /\ sealed' = TRUE
    /\ UNCHANGED <<endRest, holder, answer, places, closer, dropped, givenUp, ended,
                   closed>>

PumpCloses ==
    /\ pump = "sealed" /\ pump' = "closed" /\ closed' = TRUE
    /\ UNCHANGED <<endRest, holder, answer, places, closer, dropped, givenUp, ended,
                   sealed>>

\* fail_unordered, where what was read before the end is still handled first.
PumpFailsUnordered ==
    /\ pump = "closed" /\ pump' = "draining" /\ Settle(Entries \ places, ended)
    /\ UNCHANGED <<endRest, endVars>>

\* fail_pending: at once where the peer overran this side, else after the drain.
PumpFails ==
    /\ \/ pump = "closed"
       \/ pump = "draining" /\ worker = "gone"
    /\ pump' = "failed" /\ Settle(LeftOver, ended)
    /\ UNCHANGED <<endRest, endVars>>

\* A close or a drop has told the reader, or takes it down.
PumpStops ==
    /\ \/ pump = "reading" /\ closer \in {"closed", "failed"}
       \/ pump \in {"closed", "draining"} /\ closer = "failed"
    /\ pump' = "stopped"
    /\ UNCHANGED <<endRest, holder, answer, places, endVars>>

closerRest == <<endRest, pump>>

\* A host closes the client, for the first time or after a close it gave up;
\* or drops it, which no direct call can be in the middle of.
CloseBegins ==
    /\ closer = "none" /\ closer' = "recorded" /\ ended' = Recorded("closed")
    /\ givenUp' = FALSE
    /\ \/ dropped' = FALSE
       \/ /\ \A c \in Direct : caller[c] \in {"idle", "done"}
          /\ dropped' = TRUE
    /\ UNCHANGED <<closerRest, holder, answer, places, sealed, closed>>

CloseSeals ==
    /\ closer = "recorded" /\ closer' = "sealed" /\ sealed' = TRUE
    /\ UNCHANGED <<closerRest, holder, answer, places, dropped, givenUp, ended, closed>>

CloseMarks ==
    /\ closer = "sealed" /\ closer' = "closed" /\ closed' = TRUE
    /\ UNCHANGED <<closerRest, holder, answer, places, dropped, givenUp, ended, sealed>>

CloseFails ==
    /\ closer = "closed" /\ closer' = "failed" /\ Settle(Entries, ended)
    /\ UNCHANGED <<closerRest, dropped, givenUp, ended, sealed, closed>>

\* The close is dropped short of the link, which is unusable from then on.  One
\* dropped while it waits to fail the calls has not failed them.
CloseGivenUp ==
    /\ closer \in {"closed", "failed"} /\ ~dropped /\ poisoned' = TRUE
    /\ closer' = IF closer = "closed" THEN "none" ELSE "failed"
    /\ givenUp' = (closer = "closed")
    /\ UNCHANGED <<caller, phase, claim, cleanup, writer, writing, matched, worker,
                   cancels, heard, pump, holder, answer, places, dropped,
                   ended, sealed, closed>>

\* A dropped client takes its writer down, and the frames still queued with it.
WriterAborted ==
    /\ dropped /\ closer \in {"closed", "failed"} /\ writer # "gone" /\ writer' = "gone"
    /\ holder' = [c \in Calls |-> IF holder[c] \in {"frame", "writer"} THEN "gone"
                                  ELSE holder[c]]
    /\ phase' = [c \in Calls |-> CASE phase[c] = "queued"  -> "unwritten"
                                   [] phase[c] = "writing" -> "finished"
                                   [] OTHER -> phase[c]]
    /\ places' = {c \in places : holder[c] \notin {"frame", "writer"}}
    /\ poisoned' = (poisoned \/ writer = "writing") /\ writing' = NoCall
    /\ UNCHANGED <<caller, answer, claim, cleanup, pump, matched, endVars, worker,
                   cancels, heard>>

-----------------------------------------------------------------------------
CallerActs(c) ==
    \/ Enter(c) \/ TakeLink(c) \/ WriteRefused(c) \/ Written(c) \/ WriteFails(c)
    \/ ReturnFailure(c) \/ Queue(c) \/ Overflow(c) \/ Hear(c)

WriterActs ==
    \/ \E c \in Calls : TakeFrame(c)
    \/ Register \/ Begin \/ NotBegun \/ Sent \/ SendFails \/ TakeClaim \/ FailUnwritten

PumpActs == PumpSeals \/ PumpCloses \/ PumpFailsUnordered \/ PumpFails \/ PumpStops
CloserActs == CloseSeals \/ CloseMarks \/ CloseFails

Next ==
    \/ \E c \in Calls : \/ Ask(c) \/ CallerActs(c) \/ GiveUp(c) \/ GiveUpEntering(c)
                        \/ CleanUp(c) \/ Match(c) \/ DeliverQueued(c)
    \/ WriterActs \/ Claim \/ Deliver \/ WorkerStops
    \/ PumpEnds \/ PumpActs \/ CloseBegins \/ CloserActs \/ CloseGivenUp
    \/ WriterAborted

Spec == Init /\ [][Next]_vars

-----------------------------------------------------------------------------
(* Properties.                                                             *)

Ends == {"closed", "peer"}

\* Every variable keeps its type.
TypeOK ==
    /\ caller \in [Calls -> {"idle", "entering", "writing", "failing",
                             "overflowing", "waiting", "done"}]
    /\ phase \in [Calls -> {"none", "queued", "writing", "finished", "unwritten"}]
    /\ holder \in [Calls -> {"nobody", "frame", "writer", "map", "reader", "queue",
                             "gone"}]
    /\ answer \in [Calls -> {"none", "answer", "stopped", "unwritten"} \cup Ends]
    /\ claim \in [Calls -> {"free", "reader", "writer", "caller"}]
    /\ places \subseteq Calls /\ cleanup \subseteq Calls
    /\ writer \in {"idle", "registering", "registered", "writing", "refused",
                   "failing", "gone"}
    /\ writing \in Calls \cup {NoCall} /\ matched \in Calls \cup {NoCall}
    /\ pump \in {"reading", "matched", "claimed", "recorded", "sealed", "closed",
                 "draining", "failed", "stopped"}
    /\ closer \in {"none", "recorded", "sealed", "closed", "failed"}
    /\ worker \in {"running", "gone"} /\ ended \in Ends \cup {"none"}
    /\ dropped \in BOOLEAN /\ givenUp \in BOOLEAN
    /\ sealed \in BOOLEAN /\ closed \in BOOLEAN
    /\ poisoned \in BOOLEAN
    /\ cancels \subseteq Calls /\ heard \subseteq Calls

\* A call is answered or cancelled, never both, and only a call the peer may
\* have seen is cancelled: the claim of jsonrpc.rs:1639.
AnsweredOrCancelled ==
    \A c \in cancels : c \notin heard /\ answer[c] # "answer" /\ Began(c)

\* No caller is left behind: once a close, the drop or the reader has failed
\* the calls still waiting, no entry is left and none comes in any more
\* (jsonrpc.rs:3592).
NobodyForgotten ==
    closer = "failed" \/ pump = "failed" => Entries = {}

\* An entry of a call that was given up is always somebody's to take out: the
\* runtime's, the writer's, or the drop's when that took the writer down.
NoOrphanEntry ==
    \A c \in Dead : c \in cleanup \/ writing = c \/ (writer = "gone" /\ closer = "closed")

\* No more counted calls wait for an answer than max_pending_requests, whether
\* their callers or the writer entered them.
PendingBounded == Cardinality((Entries \ Dead) \cap Counted) <= MaxPendingRequests

\* An ordered place is held only for a call that can still be answered, and
\* not for a frame its caller took back.
PlacesComeBack ==
    \A c \in places :
        \/ caller[c] = "overflowing"
        \/ holder[c] \in {"writer", "map", "reader", "queue"}
        \/ holder[c] = "frame" /\ phase[c] = "queued"

\* A failure names the end on record, whatever raced it, and the two failures
\* that name none are given only when that is what happened.
FailureNamesTheEnd ==
    \A c \in Calls :
        /\ answer[c] \in Ends => answer[c] = ended
        /\ answer[c] = "stopped" => worker = "gone"
        /\ answer[c] = "unwritten" => c \in Submitted /\ phase[c] \in {"unwritten", "finished"}

(***************************************************************************)
(* A call is sent once its frame is begun, and its caller told once he     *)
(* hears what it was settled with, or that nobody can settle it any more.  *)
(***************************************************************************)
Contract == INSTANCE CallContract WITH
    Causes    <- Ends,
    Failures  <- {"stopped", "unwritten"},
    Unsettled <- "none",
    caller    <- [c \in Calls |-> CASE caller[c] = "idle" -> "idle"
                                     [] caller[c] \in {"overflowing", "done"} ->
                                          IF c \in heard THEN "told" ELSE "gone"
                                     [] OTHER -> "asking"],
    sent      <- {c \in Calls : Began(c)},
    settled   <- answer,
    cancelled <- cancels,
    cause     <- ended

\* However answers, deadlines, drops, the writer and the end of the connection race,
\* the client keeps its contract: a call is settled once and for all, and answered or
\* cancelled.
ImplementsContract == Contract!Spec
=============================================================================
