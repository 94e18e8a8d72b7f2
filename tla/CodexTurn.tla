----------------------------- MODULE CodexTurn -----------------------------
(***************************************************************************)
(* The one admission slot of a Codex session (mango-agent-codex,           *)
(* session.rs): a start installs itself in the slot, the app-server names  *)
(* and ends the native turn by notifications, stop workers interrupt it,   *)
(* and a poison, the report of the connection's end and the session's one  *)
(* teardown each may claim its terminal.                                   *)
(*                                                                         *)
(* A start attempt (the code's `owner`) stands for itself, for the stream  *)
(* its host reads and for the native turn it asks for.  Every await of the *)
(* code separates two actions; what it does under one lock is one action.  *)
(* A bounded wait may end at any time, so what only sets how long one      *)
(* lasts (a start marked unanswerable) is left out, as is the bound of 16  *)
(* on the completed turns that are remembered.  Approvals and questions,   *)
(* which the same paths settle, are in CodexInteractions; steers are not   *)
(* modelled.                                                               *)
(***************************************************************************)
EXTENDS Naturals, Sequences, FiniteSets

CONSTANTS
    Owners,      \* start attempts
    NoOwner,
    MaxFrames,   \* frames read and not yet handled (a bound of the model)
    MaxAttempts  \* attempts made when somebody last asks for a stop or an end (another)

ASSUME NoOwnerAssumption == NoOwner \notin Owners
ASSUME BoundsAssumption == MaxFrames \in Nat /\ MaxAttempts \in Nat

VARIABLES
    slot,        \* shared.turn: the attempt that holds admission, what it says of it
    recent,      \* recent_completed_turns
    start,       \* how far each `begin` is
    stream,      \* the terminal on the stream of each attempt
    native,      \* what the app-server makes of each turn/start
    interrupt,   \* how often turn/interrupt was sent for each native turn
    inbox,       \* frames read and not yet handled, in order
    link,        \* the client's connection
    handler,     \* the client's notification call
    reporter,    \* the client's on_terminated call
    shutting,    \* shutting_down
    terminated,  \* the token that wakes the shutdown watcher
    closed,      \* CodexSession::closed, or the host's token is cancelled
    teardown,    \* the session's one teardown worker
    stop         \* the one stop worker of each turn

admission == <<slot, recent>>
host == <<start, stream, closed>>
vendor == <<native, interrupt, inbox, link>>
tasks == <<handler, reporter, teardown, stop>>
ending == <<shutting, terminated>>
vars == <<admission, host, vendor, tasks, ending>>

-----------------------------------------------------------------------------
Frames == {"item", "completed"}

Named == Owners \cup {NoOwner}

Terminals == {"vendor", "failed", "cancelled"}

Streams == [Owners -> {"none", "open"} \cup Terminals]

Slots == [owner: Named, name: Named, dispatched: BOOLEAN, finishing: BOOLEAN]

\* ActiveTurn: the name of the native turn, whether its interrupt was sent, and
\* whether its terminal is claimed.
Turn(o) == [owner |-> o, name |-> NoOwner, dispatched |-> FALSE, finishing |-> FALSE]

Vacant == Turn(NoOwner)

HandlerAt(place) == [at |-> place, owner |-> NoOwner, as |-> "vendor"]

Working == {"idle", "interrupt", "claim", "commit", "release", "gone"}

\* A stop worker's places, in the order it reaches them.
StopPlaces == {"none", "check", "first", "name", "again", "send", "answer", "settle",
               "gone", "join", "joinFailed", "ok", "failed"}

TypeOK ==
    /\ slot \in Slots
    /\ recent \subseteq Owners
    /\ start \in [Owners -> {"idle", "installed", "written", "returned", "dropped", "over"}]
    /\ stream \in Streams
    /\ native \in [Owners -> {"none", "asked", "refused", "running", "over"}]
    /\ interrupt \in [Owners -> Nat]
    /\ inbox \in Seq(Frames \X Owners)
    /\ link \in {"up", "draining", "cut"}
    /\ handler \in [at: Working, owner: Named, as: {"vendor", "failed"}]
    /\ reporter \in [at: Working, owner: Named]
    /\ shutting \in BOOLEAN
    /\ terminated \in BOOLEAN
    /\ closed \in BOOLEAN
    /\ teardown \in [at: {"none", "interrupt", "claim", "commit", "settle",
                          "close", "reap", "ok", "failed"},
                     owner: Named]
    /\ stop \in [Owners -> StopPlaces]

Init ==
    /\ slot = Vacant
    /\ recent = {}
    /\ start = [o \in Owners |-> "idle"]
    /\ stream = [o \in Owners |-> "none"]
    /\ native = [o \in Owners |-> "none"]
    /\ interrupt = [o \in Owners |-> 0]
    /\ inbox = <<>>
    /\ link = "up"
    /\ handler = HandlerAt("idle")
    /\ reporter = [at |-> "idle", owner |-> NoOwner]
    /\ shutting = FALSE
    /\ terminated = FALSE
    /\ closed = FALSE
    /\ teardown = [at |-> "none", owner |-> NoOwner]
    /\ stop = [o \in Owners |-> "none"]

-----------------------------------------------------------------------------
(* What the paths share, each under the turn lock.                         *)

\* This attempt holds admission and nobody has claimed its terminal.
Active(o) == o # NoOwner /\ slot.owner = o /\ ~slot.finishing

\* cancel_owner may send this turn's one turn/interrupt.
Interruptible(o) == Active(o) /\ slot.name # NoOwner /\ ~slot.dispatched

\* cancel_owner sends it, or finds there is nothing to send.
Interrupt ==
    IF Interruptible(slot.owner)
    THEN /\ slot' = [slot EXCEPT !.dispatched = TRUE]
         /\ interrupt' = [interrupt EXCEPT ![slot.name] = @ + 1]
    ELSE UNCHANGED <<slot, interrupt>>

\* claim_terminal: from here on only the claimant, or the teardown in its
\* place, ends this turn; admission is kept.
Claim == slot' = [slot EXCEPT !.finishing = TRUE]

\* A stream takes one terminal and refuses the others.
Ended(o, as) == [stream EXCEPT ![o] = IF @ = "open" THEN as ELSE @]

\* release_terminal
ReleaseClaimed(o) == slot' = IF slot.owner = o /\ slot.finishing THEN Vacant ELSE slot

\* release_refused_start: the host gets an error instead of the stream.
ReleaseRefused(o) ==
    IF Active(o)
    THEN /\ slot' = Vacant
         /\ stream' = [stream EXCEPT ![o] = "none"]
    ELSE UNCHANGED <<slot, stream>>

\* request_owner_stop: the first request of a live turn starts its worker.
WithStop(o) == [stop EXCEPT ![o] = IF Active(o) /\ @ = "none" THEN "check" ELSE @]

\* request_shutdown: the first request starts the session's teardown.
WithTeardown ==
    IF teardown.at = "none" THEN [teardown EXCEPT !.at = "interrupt"] ELSE teardown

\* The host leaves, the connection ends or the session is poisoned only while
\* this many attempts were made (the bound MaxAttempts).
FaultAllowed == Cardinality({o \in Owners : start[o] # "idle"}) <= MaxAttempts

TornDown == teardown.at \in {"ok", "failed"}

-----------------------------------------------------------------------------
(* The host's starts.                                                      *)

\* begin, up to its request: a start that finds the session closed or the
\* slot taken is refused (Closed, Busy) and changes nothing.
Start(o) ==
    /\ start[o] = "idle"
    /\ ~closed /\ ~shutting
    /\ slot = Vacant
    /\ slot' = Turn(o)
    /\ stream' = [stream EXCEPT ![o] = "open"]
    /\ start' = [start EXCEPT ![o] = "installed"]
    /\ UNCHANGED <<recent, closed, vendor, tasks, ending>>

\* The request's frame goes out, whatever has become of the slot meanwhile.
WriteStart(o) ==
    /\ start[o] = "installed"
    /\ link = "up"
    /\ start' = [start EXCEPT ![o] = "written"]
    /\ native' = [native EXCEPT ![o] = "asked"]
    /\ UNCHANGED <<admission, stream, closed, interrupt, inbox, link, tasks, ending>>

\* The request is refused before any byte was written, the app-server refuses
\* it explicitly, or its future is dropped unwritten: the slot is given back.
StartRefused(o) ==
    /\ \/ start[o] = "installed"
       \/ start[o] = "written" /\ native[o] = "refused" /\ link # "cut"
    /\ start' = [start EXCEPT ![o] = "over"]
    /\ ReleaseRefused(o)
    /\ UNCHANGED <<recent, closed, vendor, tasks, ending>>

\* The answer names the turn, unless a notification did so first, and the
\* host gets its stream.
StartAnswered(o) ==
    /\ start[o] = "written"
    /\ native[o] \in {"running", "over"}
    /\ link # "cut"
    /\ start' = [start EXCEPT ![o] = "returned"]
    /\ slot' = IF slot.owner = o THEN [slot EXCEPT !.name = o] ELSE slot
    /\ UNCHANGED <<recent, stream, closed, vendor, tasks, ending>>

\* Mutant: a start whose answer was lost gives the slot back.
StartLost_GivesBack(o) ==
    /\ start[o] = "written"
    /\ start' = [start EXCEPT ![o] = "returned"]
    /\ slot' = IF Active(o) THEN Vacant ELSE slot
    /\ UNCHANGED <<recent, stream, closed, vendor, tasks, ending>>

\* A written request times out, or fails in a way that says nothing of what
\* the app-server did: the slot stays taken and the host gets its stream.
StartLost(o) ==
    /\ start[o] = "written"
    /\ start' = [start EXCEPT ![o] = "returned"]
    /\ UNCHANGED <<admission, stream, closed, vendor, tasks, ending>>

\* The answer's id, or the announcement of it, is refused: begin closes the
\* session it can no longer route on.
StartUnroutable(o) ==
    /\ FaultAllowed
    /\ start[o] = "written"
    /\ native[o] \in {"running", "over"}
    /\ link # "cut"
    /\ start' = [start EXCEPT ![o] = "over"]
    /\ closed' = TRUE
    /\ shutting' = TRUE
    /\ teardown' = WithTeardown
    /\ UNCHANGED <<admission, stream, vendor, handler, reporter, stop, terminated>>

\* The host drops the start future of a request that was written ...
DropStart(o) ==
    /\ FaultAllowed
    /\ start[o] = "written"
    /\ start' = [start EXCEPT ![o] = "dropped"]
    /\ UNCHANGED <<admission, stream, closed, vendor, tasks, ending>>

\* ... and the guard's task marks the start and asks for the turn's stop.
AbandonStart(o) ==
    /\ start[o] = "dropped"
    /\ start' = [start EXCEPT ![o] = "over"]
    /\ stop' = WithStop(o)
    /\ UNCHANGED <<admission, stream, closed, vendor, handler, reporter, teardown, ending>>

-----------------------------------------------------------------------------
(* The app-server and the connection (external).                           *)

HasRoom == link = "up" /\ Len(inbox) < MaxFrames

VendorStarts(o) ==
    /\ native[o] = "asked" /\ link = "up"
    /\ \E answer \in {"running", "refused"} : native' = [native EXCEPT ![o] = answer]
    /\ UNCHANGED <<admission, host, interrupt, inbox, link, tasks, ending>>

\* A notification that carries the turn's id: an item, a status, a token count
\* that follows the completion.
VendorReports(n) ==
    /\ native[n] \in {"running", "over"} /\ HasRoom
    /\ inbox' = Append(inbox, <<"item", n>>)
    /\ UNCHANGED <<admission, host, native, interrupt, link, tasks, ending>>

VendorCompletes(n) ==
    /\ native[n] = "running" /\ HasRoom
    /\ native' = [native EXCEPT ![n] = "over"]
    /\ inbox' = Append(inbox, <<"completed", n>>)
    /\ UNCHANGED <<admission, host, interrupt, link, tasks, ending>>

\* The peer exits or a write fails: the client closes and drains what it read.
LinkEnds ==
    /\ FaultAllowed
    /\ link = "up"
    /\ link' = "draining"
    /\ UNCHANGED <<admission, host, native, interrupt, inbox, tasks, ending>>

\* An inbound budget is passed, or the drain runs out of time: what was read is
\* forgotten and the notification call is to be cancelled.
LinkCut ==
    /\ FaultAllowed
    /\ link # "cut"
    /\ link' = "cut"
    /\ inbox' = <<>>
    /\ UNCHANGED <<admission, host, native, interrupt, tasks, ending>>

-----------------------------------------------------------------------------
(* The notification call.  While it claims, commits and releases it holds  *)
(* its cancellation off (hold_terminal_commit), for a bounded time.        *)

\* Mutant: turns that completed are not remembered.
Routed_ForgetsCompleted(n) == Active(slot.owner) /\ slot.name \in {n, NoOwner}

\* The turn a frame of native turn n is for: the one n names, or the unnamed
\* pending start unless n is a turn that completed before.
Routed(n) ==
    /\ Active(slot.owner)
    /\ slot.name = n \/ (slot.name = NoOwner /\ n \notin recent)

\* The next frame is taken up, and the first to route here names a pending start
\* (claim_announcement).
Handles(kind) ==
    /\ handler.at = "idle" /\ link # "cut"
    /\ inbox # <<>>
    /\ Head(inbox)[1] \in kind /\ Routed(Head(inbox)[2])
    /\ inbox' = Tail(inbox)
    /\ slot' = [slot EXCEPT !.name = Head(inbox)[2]]

HandleStray ==
    /\ handler.at = "idle" /\ link # "cut"
    /\ inbox # <<>>
    /\ ~Routed(Head(inbox)[2])
    /\ inbox' = Tail(inbox)
    /\ UNCHANGED <<admission, host, native, interrupt, link, tasks, ending>>

\* The frame's events are published, or the core refuses one: that fails the
\* stream and keeps admission (fail_refused_event).
HandleItem ==
    /\ Handles({"item"})
    /\ stream' \in {stream, Ended(slot.owner, "failed")}
    /\ UNCHANGED <<recent, start, closed, native, interrupt, link, tasks, ending>>

\* turn/completed of this turn: on to its terminal (finish_for).
HandleCompleted ==
    /\ Handles({"completed"})
    /\ handler' = [at |-> "claim", owner |-> slot.owner, as |-> "vendor"]
    /\ UNCHANGED <<recent, host, native, interrupt, link, reporter, teardown, stop, ending>>

\* A frame the session cannot go on after: a malformed terminal, or an event
\* that overflows the stream, which has failed it already.  Whoever stopped new
\* work first owns the ending; a poison that did not returns.
HandlePoison ==
    /\ FaultAllowed
    /\ Handles(Frames)
    /\ stream' \in {stream, Ended(slot.owner, "failed")}
    /\ shutting' = TRUE
    /\ handler' = IF shutting THEN handler
                  ELSE [at |-> "interrupt", owner |-> NoOwner, as |-> "failed"]
    /\ UNCHANGED <<recent, start, closed, native, interrupt, link, reporter, teardown,
                   stop, terminated>>

\* Mutant: a poison wakes the watcher before it has failed its turn.
PoisonInterrupts_Wakes ==
    /\ handler.at = "interrupt"
    /\ Interrupt
    /\ handler' = [handler EXCEPT !.at = "claim"]
    /\ terminated' = TRUE
    /\ UNCHANGED <<recent, host, native, inbox, link, reporter, teardown, stop, shutting>>

\* fail_stopped: one interrupt, whose answer is waited for under a bound and
\* makes no difference.
PoisonInterrupts ==
    /\ handler.at = "interrupt"
    /\ Interrupt
    /\ handler' = [handler EXCEPT !.at = "claim"]
    /\ UNCHANGED <<recent, host, native, inbox, link, reporter, teardown, stop, ending>>

\* The call claims what is still unclaimed: its own turn at a completion, any
\* turn at a poison.  Once the cancellation is decided it claims nothing.
HandlerClaims ==
    /\ handler.at = "claim" /\ link # "cut"
    /\ LET o == IF handler.as = "vendor" THEN handler.owner ELSE slot.owner
       IN IF Active(o)
          THEN /\ Claim
               /\ recent' = IF handler.as = "vendor" THEN recent \cup {slot.name}
                            ELSE recent
               /\ handler' = [handler EXCEPT !.at = "commit", !.owner = o]
               /\ UNCHANGED terminated
          ELSE /\ handler' = HandlerAt("idle")
               /\ terminated' = (terminated \/ handler.as = "failed")
               /\ UNCHANGED admission
    /\ UNCHANGED <<host, vendor, reporter, teardown, stop, shutting>>

HandlerCommits ==
    /\ handler.at = "commit"
    /\ stream' = Ended(handler.owner, handler.as)
    /\ handler' = [handler EXCEPT !.at = "release"]
    /\ UNCHANGED <<admission, start, closed, vendor, reporter, teardown, stop, ending>>

\* Mutant: a poison does not wake the watcher as it ends.
HandlerReleases_Quietly ==
    /\ handler.at = "release"
    /\ ReleaseClaimed(handler.owner)
    /\ handler' = HandlerAt("idle")
    /\ UNCHANGED <<recent, host, vendor, reporter, teardown, stop, ending>>

\* A poison wakes the reaper as its guard drops, behind the release.
HandlerReleases ==
    /\ handler.at = "release"
    /\ ReleaseClaimed(handler.owner)
    /\ handler' = HandlerAt("idle")
    /\ terminated' = (terminated \/ handler.as = "failed")
    /\ UNCHANGED <<recent, host, vendor, reporter, teardown, stop, shutting>>

\* The client stops the call at the await it had reached; a call that holds the
\* cancellation off is waited for, but not for ever.  The guard still wakes.
HandlerCut ==
    /\ link = "cut" /\ handler.at # "gone"
    /\ handler' = HandlerAt("gone")
    /\ terminated' = (terminated \/ (handler.at # "idle" /\ handler.as = "failed"))
    /\ UNCHANGED <<admission, host, vendor, reporter, teardown, stop, shutting>>

-----------------------------------------------------------------------------
(* on_terminated: connection_terminated.                                   *)

\* The client reports the end behind the frames it drained, or behind the cut.
\* Whoever stopped new work first owns the turn's ending and the wake.
ReportEnd ==
    /\ reporter.at = "idle"
    /\ \/ link = "draining" /\ inbox = <<>> /\ handler.at = "idle"
       \/ link = "cut" /\ handler.at = "gone"
    /\ reporter' = [reporter EXCEPT !.at = IF shutting THEN "gone" ELSE "claim"]
    /\ shutting' = TRUE
    /\ UNCHANGED <<admission, host, vendor, handler, teardown, stop, terminated>>

ReporterClaims ==
    /\ reporter.at = "claim"
    /\ IF Active(slot.owner)
       THEN /\ Claim
            /\ reporter' = [at |-> "commit", owner |-> slot.owner]
            /\ UNCHANGED terminated
       ELSE /\ reporter' = [at |-> "gone", owner |-> NoOwner]
            /\ terminated' = TRUE
            /\ UNCHANGED slot
    /\ UNCHANGED <<recent, host, vendor, handler, teardown, stop, shutting>>

ReporterCommits ==
    /\ reporter.at = "commit"
    /\ stream' = Ended(reporter.owner, "failed")
    /\ reporter' = [reporter EXCEPT !.at = "release"]
    /\ UNCHANGED <<admission, start, closed, vendor, handler, teardown, stop, ending>>

ReporterReleases ==
    /\ reporter.at = "release"
    /\ ReleaseClaimed(reporter.owner)
    /\ reporter' = [at |-> "gone", owner |-> NoOwner]
    /\ terminated' = TRUE
    /\ UNCHANGED <<recent, host, vendor, handler, teardown, stop, shutting>>

\* The teardown's close stops the report where it is, or the host's process
\* control, asked how the child exited, panics under it.
ReporterCut ==
    /\ \/ reporter.at = "commit"
       \/ reporter.at \in {"claim", "release"} /\ teardown.at \in {"reap", "ok", "failed"}
    /\ reporter' = [at |-> "gone", owner |-> NoOwner]
    /\ terminated' = TRUE
    /\ UNCHANGED <<admission, host, vendor, handler, teardown, stop, shutting>>

-----------------------------------------------------------------------------
(* The stop worker of a turn (request_owner_stop, stop_owner).             *)

Goto(o, place) == stop' = [stop EXCEPT ![o] = place]

\* The host cancels the turn, the stream's owner drops it, its terminal is on it
\* or the turn was idle too long: the call and the watchers that begin installed
\* ask for the one stop.  A cancel of a pending start answers at once, any other
\* has the outcome of the worker.
AskStop(o) ==
    /\ FaultAllowed
    /\ Active(o) /\ stop[o] = "none"
    /\ stop' = WithStop(o)
    /\ UNCHANGED <<admission, host, vendor, handler, reporter, teardown, ending>>

\* stop_owner's first look: a turn that is already ending needs no stop.
StopChecks(o) ==
    /\ stop[o] = "check"
    /\ Goto(o, IF Active(o) THEN "first" ELSE "ok")
    /\ UNCHANGED <<admission, host, vendor, handler, reporter, teardown, ending>>

\* cancel_owner, first half: whether there is an interrupt to send, decided and
\* recorded under the lock; the turn's approvals are released behind it.
StopLatches(o) ==
    /\ stop[o] \in {"first", "again"}
    /\ slot' = IF Interruptible(o) THEN [slot EXCEPT !.dispatched = TRUE] ELSE slot
    /\ Goto(o, CASE Interruptible(o) -> "send"
                 [] stop[o] = "first" /\ Active(o) /\ slot.name = NoOwner -> "name"
                 [] OTHER -> "settle")
    /\ UNCHANGED <<recent, host, vendor, handler, reporter, teardown, ending>>

\* Second half: sent only if the turn is still this one's.
StopSends(o) ==
    /\ stop[o] = "send"
    /\ IF Active(o)
       THEN interrupt' = [interrupt EXCEPT ![slot.name] = @ + 1] /\ Goto(o, "answer")
       ELSE Goto(o, "settle") /\ UNCHANGED interrupt
    /\ UNCHANGED <<admission, host, native, inbox, link, handler, reporter, teardown,
                   ending>>

\* wait_for_start_resolution: until the start is named, given up or gone, and
\* no longer than a request may take.
StopNames(o) ==
    /\ stop[o] = "name"
    /\ Goto(o, "again")
    /\ UNCHANGED <<admission, host, vendor, handler, reporter, teardown, ending>>

\* seal_owner_for_shutdown and what follows: a stop that gives its live turn up
\* ends the session; a turn that is already ending is left to its claimant.
GivesUp(o, join) ==
    IF Active(o)
    THEN /\ shutting' = TRUE
         /\ teardown' = WithTeardown
         /\ Goto(o, join)
    ELSE Goto(o, "gone") /\ UNCHANGED <<shutting, teardown>>

\* The app-server answers the interrupt, which ends nothing yet; or it refuses, is
\* late or lost, which counts only against a turn that is still admitted.
StopAnswered(o) ==
    /\ stop[o] = "answer"
    /\ \/ Goto(o, "settle") /\ UNCHANGED <<shutting, teardown>>
       \/ GivesUp(o, "joinFailed")
    /\ UNCHANGED <<admission, host, vendor, handler, reporter, terminated>>

\* Mutant: a stop waits for its turn without a deadline.
StopSettles_Patiently(o) ==
    /\ stop[o] = "settle"
    /\ \/ slot.owner # o /\ Goto(o, "gone")
       \/ Interruptible(o) /\ Goto(o, "again")
    /\ UNCHANGED <<admission, host, vendor, handler, reporter, teardown, ending>>

\* settle_stop: the turn ends, is named at last, or outlasts its deadline.
StopSettles(o) ==
    /\ stop[o] = "settle"
    /\ \/ /\ \/ slot.owner # o /\ Goto(o, "gone")
             \/ Interruptible(o) /\ Goto(o, "again")
          /\ UNCHANGED <<shutting, teardown>>
       \/ GivesUp(o, "join")
    /\ UNCHANGED <<admission, host, vendor, handler, reporter, terminated>>

\* after_turn_gone: a session that is ending is ended before the stop answers.
StopLeaves(o) ==
    /\ stop[o] = "gone"
    /\ teardown' = IF shutting \/ terminated \/ link # "up" THEN WithTeardown ELSE teardown
    /\ Goto(o, IF teardown'.at # "none" THEN "join" ELSE "ok")
    /\ UNCHANGED <<admission, host, vendor, handler, reporter, ending>>

\* wait_for_shutdown: every stop that joined the teardown has its outcome.
StopJoins(o) ==
    /\ stop[o] \in {"join", "joinFailed"}
    /\ TornDown
    /\ Goto(o, IF stop[o] = "join" /\ teardown.at = "ok" THEN "ok" ELSE "failed")
    /\ UNCHANGED <<admission, host, vendor, handler, reporter, teardown, ending>>

-----------------------------------------------------------------------------
(* The ends of the session.                                                *)

\* close: no new work, and the teardown.
Close ==
    /\ FaultAllowed
    /\ ~closed
    /\ closed' = TRUE
    /\ shutting' = TRUE
    /\ teardown' = WithTeardown
    /\ UNCHANGED <<admission, start, stream, vendor, handler, reporter, stop,
                   terminated>>

\* The host's token is cancelled, or the session dropped.
HostLeaves ==
    /\ FaultAllowed
    /\ ~closed
    /\ closed' = TRUE
    /\ teardown' = WithTeardown
    /\ UNCHANGED <<admission, start, stream, vendor, handler, reporter, stop,
                   ending>>

\* The session's watcher is woken by the end of the connection or by a poison.
WatcherWakes ==
    /\ terminated /\ ~closed
    /\ teardown.at = "none"
    /\ teardown' = WithTeardown
    /\ UNCHANGED <<admission, host, vendor, handler, reporter, stop, ending>>

-----------------------------------------------------------------------------
(* The session's one teardown (shutdown_session).                          *)

\* Work is stopped and the turn interrupted, under a bound.
TeardownInterrupts ==
    /\ teardown.at = "interrupt"
    /\ shutting' = TRUE
    /\ Interrupt
    /\ teardown' = [teardown EXCEPT !.at = "claim"]
    /\ UNCHANGED <<recent, host, native, inbox, link, handler, reporter, stop,
                   terminated>>

\* cancel_active
TeardownClaims ==
    /\ teardown.at = "claim"
    /\ IF Active(slot.owner)
       THEN Claim /\ teardown' = [at |-> "commit", owner |-> slot.owner]
       ELSE teardown' = [teardown EXCEPT !.at = "settle"] /\ UNCHANGED slot
    /\ UNCHANGED <<recent, host, vendor, handler, reporter, stop, ending>>

TeardownEnds ==
    /\ teardown.at = "commit"
    /\ stream' = Ended(teardown.owner, "cancelled")
    /\ ReleaseClaimed(teardown.owner)
    /\ teardown' = [at |-> "settle", owner |-> NoOwner]
    /\ UNCHANGED <<recent, start, closed, vendor, handler, reporter, stop, ending>>

\* Mutant: the teardown trusts that whoever claimed a terminal commits it.
TeardownSettles_Trusting ==
    /\ teardown.at = "settle"
    /\ teardown' = [teardown EXCEPT !.at = "close"]
    /\ UNCHANGED <<admission, host, vendor, handler, reporter, stop, ending>>

\* settle_claimed_terminal: a terminal somebody else claimed has a bounded time
\* to be committed; then the teardown fails the turn in its place.
TeardownSettles ==
    /\ teardown.at = "settle"
    /\ IF slot.finishing
       THEN stream' = Ended(slot.owner, "failed") /\ slot' = Vacant
       ELSE UNCHANGED <<stream, slot>>
    /\ teardown' = [teardown EXCEPT !.at = "close"]
    /\ UNCHANGED <<recent, start, closed, vendor, handler, reporter, stop,
                   ending>>

\* client.close: the client's own tasks are stopped.
TeardownCloses ==
    /\ teardown.at = "close"
    /\ link' = "cut"
    /\ inbox' = <<>>
    /\ teardown' = [teardown EXCEPT !.at = "reap"]
    /\ UNCHANGED <<admission, host, native, interrupt, handler, reporter, stop, ending>>

\* The child is stopped and reaped, or the host is left with its control.
TeardownReaps ==
    /\ teardown.at = "reap"
    /\ \E outcome \in {"ok", "failed"} : teardown' = [teardown EXCEPT !.at = outcome]
    /\ UNCHANGED <<admission, host, vendor, handler, reporter, stop, ending>>

-----------------------------------------------------------------------------
Notifications ==
    \/ HandleStray \/ HandleItem \/ HandleCompleted \/ HandlePoison
    \/ PoisonInterrupts \/ HandlerClaims \/ HandlerCommits \/ HandlerReleases

Reports == ReportEnd \/ ReporterClaims \/ ReporterCommits \/ ReporterReleases

Stops(o) ==
    \/ StopChecks(o) \/ StopLatches(o) \/ StopSends(o) \/ StopNames(o)
    \/ StopAnswered(o) \/ StopSettles(o) \/ StopLeaves(o)
    \/ StopJoins(o)

Tears ==
    \/ TeardownInterrupts \/ TeardownClaims \/ TeardownEnds
    \/ TeardownSettles \/ TeardownCloses \/ TeardownReaps

Next ==
    \/ \E o \in Owners :
          \/ Start(o) \/ WriteStart(o) \/ StartRefused(o) \/ StartAnswered(o)
          \/ StartLost(o) \/ StartUnroutable(o) \/ DropStart(o) \/ AbandonStart(o)
          \/ VendorStarts(o) \/ VendorReports(o) \/ VendorCompletes(o)
          \/ AskStop(o) \/ Stops(o)
    \/ LinkEnds \/ LinkCut
    \/ Notifications \/ HandlerCut
    \/ Reports \/ ReporterCut
    \/ Close \/ HostLeaves \/ WatcherWakes
    \/ Tears

Spec == Init /\ [][Next]_vars

(***************************************************************************)
(* The runtime runs every task it was given, and every deadline passes: a  *)
(* dropped start's task, the watcher of a stream that ended, the stop      *)
(* workers, the client's calls, the watcher of the session and its         *)
(* teardown.  Nothing is asked of the host or of the app-server.           *)
(***************************************************************************)
FairSpec ==
    /\ Spec
    /\ \A o \in Owners :
          /\ WF_vars(AbandonStart(o))
          /\ WF_vars(AskStop(o) /\ start[o] = "returned" /\ stream[o] # "open")
          /\ WF_vars(Stops(o))
    /\ WF_vars(Notifications) /\ WF_vars(HandlerCut) /\ WF_vars(Reports)
    /\ WF_vars(WatcherWakes) /\ WF_vars(Tears)

-----------------------------------------------------------------------------
Live == {"asked", "running"}

\* A turn/start never reaches the app-server while an earlier native turn may
\* still run: it would be taken as a steer of that turn, and its host would
\* hold a stream nothing ends.
OneNativeTurn ==
    \A a, b \in Owners : native[a] \in Live /\ native[b] \in Live => a = b

\* An attempt is only ever named after its own native turn, whatever late
\* frames of an earlier turn arrive while its start is pending; so a stop
\* never interrupts somebody else's turn.
NamesItsOwnTurn == slot.name \in {slot.owner, NoOwner}

\* Once the teardown closes the client no attempt is left in the slot and no
\* stream without a terminal, wherever the tasks it cuts had got to.
TeardownEndsEveryTurn ==
    teardown.at \in {"close", "reap", "ok", "failed"} =>
        slot = Vacant /\ \A o \in Owners : stream[o] # "open"

\* A turn is told to be cancelled because somebody asked for it or because the
\* connection was cut from under its real ending, never because the teardown a
\* poison or a lost connection wakes overtook their failure.
CancelledIsAskedFor ==
    [][\A o \in Owners : stream[o] = "open" /\ stream'[o] = "cancelled" =>
          \/ closed \/ link = "cut"
          \/ \E a \in Owners : stop[a] # "none"]_vars

\* A native turn is sent one turn/interrupt, however many stops, poisons and
\* teardowns want it stopped.
OneInterrupt == \A n \in Owners : interrupt[n] <= 1

\* A turn somebody stops leaves admission, whatever the app-server does.
StopFreesTheSlot == \A o \in Owners : stop[o] # "none" ~> slot.owner # o

\* A lost connection or stopped work ends in a finished teardown.
SessionEnds == (link # "up" \/ shutting) ~> TornDown

(***************************************************************************)
(* The slot is the admission of TurnAdmission, a native turn that may run  *)
(* the work.  The app-server goes with the teardown that reaps it.         *)
(***************************************************************************)
Admission == INSTANCE TurnAdmission WITH
    Turns      <- Owners,
    Nobody     <- NoOwner,
    OneProcess <- TRUE,
    admitted   <- {o \in Owners : start[o] # "idle"},
    holder     <- slot.owner,
    working    <- {o \in Owners : native[o] \in Live /\ teardown.at # "ok"},
    ending     <- IF teardown.at = "ok" THEN "over" ELSE IF shutting THEN "closing" ELSE "no"

\* However starts, late frames, stops and ends of the session interleave, the session
\* does what both vendors' sessions promise of their turns.
ImplementsAdmission == Admission!Spec
=============================================================================
