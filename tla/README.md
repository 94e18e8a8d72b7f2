# A formal model of mango-external-agents

This directory holds TLA+ models of the repository's own logic, the TLC
configurations that check them on small instances, and proofs, checked by
TLAPS, of the safety properties that matter most. Every definition is
translated from the Rust source; `PROJECT.json` names the lines each one stands
for (`map`), what each run checks (`runs`), the change to the code that each
property would catch (`mutants`), the places where the code is hard to test
(`hazards`), where code and documentation disagree (`findings`), and what is
proved (`theorems`).

To repeat a check: `tlc -config MCTurnStream.cfg MCTurnStream.tla`; to repeat a
proof: `tlapm TurnStreamProofs.tla`.

## 1. The system

The library lets a host drive a coding agent that runs as somebody else's
process. A *harness* (Claude, Codex, ACP) opens a *session*, a session runs one
*turn* at a time, a turn is an ordered stream of events that ends in exactly one
outcome. Around that, the core crate provides what all harnesses share: the
stream itself, JSON-RPC over a child's pipes, process launch and stop, shutdown
of a session, and a contract for recovering an operation whose answer was lost.
`examples/hub-host` is the reference for that contract: a host that retries a
logical turn against a control plane (the *Hub*).

| Component | Source | State it keeps | Operations | Talks to |
|---|---|---|---|---|
| Turn event stream | `stream.rs`, `stream/buffer.rs` | bounded queue with two classes, byte and count totals, terminal slot, sender count, waiter | emit, emit_close, complete/fail/cancel, clone, drop, recv, try_recv | harness reducers push, host pulls |
| Recovery record | `recovery.rs`, `operation.rs` | attempt, dispatch, terminal, fingerprint | record_dispatch, reconcile, retry, finish, action | hub-host supervisor |
| Hub-host supervisor | `supervisor.rs`, `hub.rs`, `stop.rs` | logical turn, progress of one run | run, submit, observe, reconcile, settle, back off, abandon | Hub API, session, stop signal |
| Hub-host fan-out | `subscriber.rs` | list of slots; per slot a queue, missed count, byte total, closed flag, wakeup | subscribe, publish, recv, drop | supervisor publishes, UI watchers read |
| Process stop and guard | `process.rs`, `launcher/tokio_launcher.rs` | killed claim, exit watch, escalation task, cleanup guard | interrupt, kill, wait, bounded stop, drop | the kernel, every harness |
| JSON-RPC client | `jsonrpc.rs` | call table, claims, ordered budget, ended-with record, worker queue, cancellation holds | call, submit, notify, reply, hold, pump, close, drop | transports, Codex and ACP sessions |
| JSON-RPC outbound queue | `jsonrpc/outbox.rs` | frames, byte budget, barriers, seal, poison | queue, seal, barrier, run, write | client, transports |
| Session close gate | `lifecycle.rs` | open/closed, in-flight starts | start, close | sessions |
| Claude session | `mango-agent-claude/src/session.rs` | active turn and its teardown, launch slot, MCP lease, resumability | start_turn, cancel, close, pump, end_turn | process, stream |
| Codex session | `mango-agent-codex/src/session.rs`, `approvals.rs` | shared turn slot, steer hold, pending approvals, terminal claim | start_turn, steer, interrupt, respond, close | JSON-RPC, stream |
| ACP client and session | `mango-agent-acp/src/client.rs`, `session.rs` | turn, parked approvals, closed calls, deadlines, child reaper | prompt, cancel, respond, expire, close | JSON-RPC, stream, process |
| Reducers, protocol types, configuration, discovery, content, redaction, transports, launch | see `PROJECT.json` | mostly none | translation and validation | |

### What is hard in it

* **Concurrency.** One buffer is shared by several cloned sinks and a reader
  that may stop waiting or let go at any await; a child's exit is seen by a
  reaper, published on a watch, and read by stops, kills, drops and an
  escalation that run at once; calls, replies, cancellations and the end of a
  link race in the JSON-RPC client; a vendor's completion, a cancel and the loss
  of the connection each want to end a Codex turn.
* **Failure.** A Hub call that timed out may still take effect; a `run` future
  may be dropped at any await; a cleanup may fail with the only handle in hand;
  a frame may be written in part.
* **Ordering.** A terminal after every payload and never before; a gap in front
  of what is still held; an ordered answer after earlier notifications; a
  resolution before the turn's terminal.
* **Limits.** Byte and count budgets with a reserve, a byte budget smaller than
  one event, saturating attempt counters, full call tables.
* **Deadlines.** Stages of a stop, a grace before a kill, an approval's expiry
  against an answer already on its way, idle and total turn deadlines.

### What makes each component correct

* *Stream*: budgets are never passed and totals are exact; an interaction always
  fits; order, no loss, no duplicates up to one outcome; the end is never silent
  after a loss; a dropped receiver holds nothing.
* *Recovery and supervisor*: the vendor does the work at most once, one outcome
  is ever told, attempts strictly increase, "stopped" means the cancel was
  confirmed, nothing is dispatched after the operation is over.
* *Fan-out*: a slow watcher learns exactly how much it lost and where; the newest
  event survives any budget; memory is bounded; the end comes last and comes.
* *Process stop*: `Ok` means the whole group is gone; one escalation, no signal
  to a group seen empty; an abandoned tree ends; every call answers.
* *JSON-RPC*: each call is resolved once, by its answer, its own end, or the
  recorded end of the link; an ordered answer never overtakes an earlier
  notification; a cancellation is sent only for a call the peer may have seen;
  a request of the peer is answered once or cancelled, never both; what is
  written is a sequence of whole frames.
* *Sessions*: at most one turn, exactly one terminal per turn, a child stopped or
  owned by someone at every moment, an approval answered once and resolved in
  front of its terminal, `close` waits for everything it started.

## 2. The modules and how they were chosen

The most important behaviour came first. Each component is one module
(parameters as CONSTANTS, one action per step between two awaits or two locks),
an `MC` module with its `.cfg`, and a proof module that EXTENDS it. No module
uses a RECURSIVE operator, so every one can be proved about.

| # | Modules | Composes / implements | Runs | Proved |
|---|---|---|---|---|
| 1 | `TurnStream`, `TurnStreamProofs` | implements `TurnTranscript` | `turn_stream`, `turn_stream_overflow` | types, budgets, faithfulness, end, refinement |
| 2 | `RecoveryRecord`, `HubSupervisor`, `HubSupervisorProofs` | supervisor composes the record with the Hub's ledger; implements `LogicalOperation` | `hub_supervisor`, `hub_supervisor_stall` | one execution, one outcome, refinement |
| 3 | `ProcessStop`, `ProcessStopProofs` | callers, guard, child and kernel | `process_stop`, `process_stop_stray` | `Ok` means gone, one escalation |
| 4 | `TurnBroadcast`, `TurnBroadcastProofs` | publishers, watchers, drop | `turn_broadcast` | exact gaps, newest kept, bounds, end last |
| 5 | `JsonRpcCalls`, `JsonRpcCallsProofs` | callers, writer, reader, handler's task, close and drop; implements `CallContract` | `json_rpc_calls` | answered or cancelled, nobody forgotten, budget, places, cause, refinement |
| 6 | `CodexTurn`, `CodexTurnProofs` | starts, the app-server, notification call, stop workers, teardown; implements `TurnAdmission` | `codex_turn` | one native turn, the right name, one interrupt, every turn ended, the cause of a cancellation, refinement |
| 7 | `CodexInteractions`, `CodexInteractionsProofs` | the tasks of what a turn is asked, host, broker, deadline, server, releases | `codex_interactions`, `codex_interactions_dialog` | one resolution, host and server agree, no round left open |
| 8 | `ClaudeSession`, `ClaudeSessionProofs` | starts, launcher, child, pump, teardown and close workers; implements `TurnAdmission` | `claude_session` | every stop answered, every child accounted for, the slot, the configuration, the verdict, refinement |

Four abstract specifications are implemented by detailed ones: `TurnTranscript`
(an ordered transcript with one end), `LogicalOperation` (one outcome, told once),
`CallContract` (a call is settled once, answered only if it was sent, cancelled
only when its caller left without an answer, and what a caller was told stays
true) and `TurnAdmission`, which two components implement. It says what the sessions of
both vendors promise of their turns: the vendor works for one turn at a time, a
turn keeps its admission as long as the vendor works for it, nothing is admitted
once the session is closing, and nobody works for a session that is over. The slot
of either session is the admission. The work is a child that runs or may still be
launched (Claude), or a native turn that was asked for or runs (Codex). `OneProcess`
is where they differ: a Codex teardown may take the admission back from a turn
the app-server still runs, because it then ends the app-server. What one component promises another is assumed where it is used: the
sessions take a stream that ends once (`TurnStream`), a stop that answers
(`ProcessStop`) and calls that are answered or failed (`JsonRpcCalls`).

## 3. What is modelled

### 3.1 `TurnStream`: the event stream of one turn

Source: `crates/mango-external-agents/src/stream.rs` and `stream/buffer.rs`.

*State.* `queue` is the buffer's ring, each event with its class (payload
or control, the latter for interactions) and its size; the running totals, the waiter's
registration and the "abandoned" flag are the fields of `Buffer`; `terminal` is
the shared outcome slot; each sink is idle, between its refused push and the
failure it commits, or dropping. The model adds `read` (what the host has been
given) and history for the properties.

*Actions.* One per call on a sink (`emit`, the closing emit, `complete`, `fail`,
`cancel`, clone, drop) and per step of the receiver (`try_recv`, park, wake,
give up waiting, drop). A push and a finish are one step each, because the code
holds one lock throughout; the refusal of an event and the failure it commits
are two steps, because `emit` lets the lock go between them (stream.rs:300-302).

*Not in it.* How big an event is (`stream/size.rs`; a size is taken from
`Sizes`), what an event says, the numbers inside `LimitExceeded`, readers of a
snapshot.

| Run | Bounds | Shows |
|---|---|---|
| `turn_stream` | 2 sinks, sizes 1 and 5, two payload places, one pending request, 8 bytes with 2 per interaction, 3 events, fair | `BudgetExact`, `InteractionAlwaysFits`, `NoPayloadBehindRefusedClose`, `NoSilentEnd`, `DroppedReceiverHoldsNothing`; refinement of `TurnTranscript` (order, exactly once, one end); `ParkedReaderWakes`, `EndReachesReader` |
| `turn_stream_overflow` | sizes 1, 2 and 5, else the same | the documented overflow failure loses to a completion published in between (finding) |

One size fits everywhere and one is more than the reserve, so every branch of
`admit` is taken; three events fill either class and leave one to be refused. Fairness:
a started call of a sink and a woken reader go on (they run straight to the end
of a synchronous function, or are polled after their waker fired), and the
host's pulls are fair only for the two liveness properties, which are about a
host that keeps draining.

### 3.2 `RecoveryRecord` and `HubSupervisor`: an operation whose answer was lost

Source: `recovery.rs`, `operation.rs`; `examples/hub-host/src/supervisor.rs`,
`hub.rs`, `stop.rs`.

*State.* `turn` is `LogicalTurn` with its `RecoveryRecord`; `run` is the
`Progress` of the current call of `run` plus the await it stands at; the Hub is
the ledger that `testing.rs` implements (`reservations`, `hubTerminal`), and
`late*` are the calls that timed out for the loop and may still reach it. For
the vendor the model keeps, per `start_turn`, whether it may and whether it did
execute.

*Actions.* One per await of the loop: begin a run, decide from the record,
reserve, start, withdraw, drain the stream, observe, reconcile, commit, back
off, abandon; each with every answer that call has in the code (answered, lost,
refused, unsupported). Three more drop the run at any await, deliver a late
call, and let the Hub expire a reservation.

*Taken as given.* A vendor reports "not submitted" only for a call that did not
execute, and the Hub answers from its ledger. The delay of a backoff, the
dispatch of stream events and the bytes of a fingerprint are left out; a turn's
stop and the session's stop are one.

| Run | Bounds | Shows |
|---|---|---|
| `hub_supervisor` | `MaxAttempt` 3, two outcomes, fair | `AtMostOneExecution`, `StoppedIsConfirmed`, `OverIsFinal`, `StopEndsTheRun`, refinement of `LogicalOperation` (one outcome, and no other told) |
| `hub_supervisor_stall` | as the first | an undelivered withdrawal ends an operation that never ran as a contradiction of the Hub's (finding) |

`MaxAttempt` is where the counter saturates in the code (`u64::MAX`) and the
bound for TLC at once; three attempts are a first one, one that overlaps a late
call of the first, and one that finds the counter saturated. Fairness: the loop's
own steps, and the end of every call with a deadline (`hub_call`, `start_turn`,
the cancel). The vendor is never obliged to end a turn, which is why
`StopEndsTheRun` is stated for a stop.

### 3.3 `ProcessStop`: ending a process tree

Source: `process.rs` (`stop_process_bounded`, `ProcessCleanupGuard`),
`launcher/tokio_launcher.rs` (Unix).

*State.* On the kernel's side: the leader (running, zombie, reaped), the helpers
left in its group, whether the group's number has been given to somebody else,
and the signals sent. On the library's: the watch on which the reaper publishes
the exit, the `killed` claim, the escalation task, each caller's place in its
stop or kill, and who holds the child's handle.

*Actions.* The kernel's (exit, reap, helpers end, a number is reused), the
reaper's publication, each await of `stop_process_bounded` and of a bare `kill`,
each stage of the escalation, and the guard's `begin`, `finish`, `drop`,
`into_control`. Any await may be dropped. A deadline may pass at any time. An
interrupt looks at the claim in one step and signals in another, since a `kill` or
a drop on another thread may claim between them. In the escalation a look at the
group and the signal that follows it are one step: nobody else signals by then,
and the race inside that step is the kernel's alone.

*Not in it.* The Windows Job reaper, spawning, the stderr tail, line framing, a
runtime that shuts down under the escalation.

| Run | Bounds | Shows |
|---|---|---|
| `process_stop` | guard's worker and two callers, two helpers, fair | `OkProvesTreeGone`, `AbandonedTreeEnds`, `CallsAnswer` |
| `process_stop_stray` | worker and one caller, one helper | the escalation may signal a group that took the number over (finding) |

Two callers beside the worker are enough for one to claim the escalation, one to
wait on it and one to arrive when it is over; a second helper lets the group
shrink without emptying. Fairness: the kernel reaps and a killed process dies,
the spawned tasks run, and a call past its deadline goes on.

### 3.4 `TurnBroadcast`: one turn to many watchers

Source: `examples/hub-host/src/subscriber.rs`.

*State.* Per slot the queue, its missed count, its byte total, the closed flag
and the stored wakeup of its `Notify`; per publisher the copied list of slots it
has still to visit and the point inside `Slot::push` it has reached; per watcher
the point inside `recv`.

*Actions.* Subscribe, start of a publish (the list is copied and its lock
released), then per slot: offer, evict one, unlock, wake; a watcher's look, wait,
wake, read of a gap or an event, cancelled wait, leaving; and the drop of the
broadcast, slot by slot. The order in which slots are visited is left open. The
repository has one publisher; the type allows several and the proof covers them.

| Run | Bounds | Shows |
|---|---|---|
| `turn_broadcast` | 2 watchers, 1 publisher, sizes 1 and 4, 2 places, 3 bytes, 3 events, fair | `NothingLostSilently` (exact gaps), `NewestSurvives`, `EndComesLast`, `ParkedWatcherWakes` (the close's wakeup included) |

Size 4 is more than the whole byte budget, so the eviction loop ends both for
want of need and for want of events; three events overflow a queue of two, and
the third can come while a watcher stands between two reads.
Fairness: a publisher inside `publish` goes on, the drop closes every slot, and
a woken watcher that reads is polled.

### 3.5 `JsonRpcCalls`: the calls of one JSON-RPC client

Source: `jsonrpc.rs` (`Client::request`, `submit_request`, `Reply`,
`PendingCall`, `ClientState`, `pump`, `close`, the drop of `Client`) and the
writer of `jsonrpc/outbox.rs` (`frame`, `write`).

*State.* Per call: how far its caller is, `FrameCtl::phase`, who holds the
sending end it is settled through (the frame, the writer, the map `pending`, the
reader, the handler's queue), what was sent through it, its `CallClaim`, whether
it holds an ordered place, and whether its entry is still to be taken out by the
task `PendingCall::drop` spawns. For the connection: what writer and reader have
in hand and where they stand, whether the handler's task runs, the close or drop,
the record `ended`, the seal, the closed flag and the unusable link. `cancels` and
`heard` are history.

*Actions.* A direct call asks, enters, takes the link, writes, fails and returns;
a submitted one is queued or refused; both can be given up at every await. The
writer takes a frame, enters its call, begins, ends or fails the write, takes the
claim, fails the call. The reader matches an answer, takes the claim, delivers or
queues it. The reader's end, the close and the drop go through record, seal,
closed flag and the passes over the map one step at a time, so that every other
actor may come between two of them; a close may be given up and begun again.

*Taken as given.* A peer answers a call only once its frame was begun. A write
may fail at any moment, in the link or locally; a deadline may pass at any
moment.

*Not in it.* The order and the bytes of frames, turns of direct callers and the
barrier; the order of queued answers against notifications and
the queue's room; holds on cancellation, answers in flight and
who tells the handler; two closes at one time. The frame of a
cancel is queued and never written. `ended` says only whether a close or the peer
came first. The lock on `pending` is a step: what runs under it is one action.

| Run | Bounds | Shows |
|---|---|---|
| `json_rpc_calls` | one direct and one submitted, ordered call, room for one, cancels on | `NobodyForgotten`, `NoOrphanEntry`, `PlacesComeBack`, `FailureNamesTheEnd`; refinement of `CallContract` (settled once, answered or cancelled) |

One call of each kind is enough for every race of a caller with the writer, the
reader and an end, and one place makes them compete for it. The invariants were
also checked for two submitted calls and for room for two. No liveness is stated
here: that a caller still waiting hears of an end rests on the passes over the
map, and `NobodyForgotten` says that the last of them leaves none.

### 3.6 `CodexTurn`: the one turn slot of a Codex session

Source: `crates/mango-agent-codex/src/session.rs`.

*State.* `slot` is `shared.turn`: the attempt that holds admission, the native
turn it is named after, whether its interrupt was dispatched and whether its
terminal is claimed; `recent` are the completed turns that are remembered. Per
attempt: how far `begin` is, the terminal on its stream, what the app-server
makes of its `turn/start`, and its stop worker. For the session: the frames read
and not yet handled, the link, the client's notification call and its
`on_terminated` call (each with the point it has reached between two awaits),
`shutting_down`, the token that wakes the shutdown watcher, `closed`, and the one
teardown worker.

*Actions.* A start installs, writes, is refused, answered, lost or dropped; the
app-server starts a turn, reports on it and completes it; the notification call
takes a frame and claims, commits and releases; a stop, a poison, the report of
the end and the teardown do the same from their side, one await at a time. The
link ends with frames still waiting, or is cut.

*Taken as given.* A client call is answered or fails (`JsonRpcCalls`), a stream
keeps the first terminal it is given (`TurnStream`).

*Not in it.* Steers, the hold they put on notifications, and a poison from the
replay of what a steer held; quota reads, configuration changes, how long a wait
lasts, the bound of 16 on the remembered turns. `poison_apart` (codex
`session.rs:2002`) is not in it either. An approval or a round that cannot be told
to the host poisons the session by the steps the notification call takes here
(`HandlePoison` and what follows), but on a task of its own; a question dropped
while it waits for that task wakes the teardown at once, before the poison has
failed the turn, and no claim is made of the turn's terminal then.

| Run | Bounds | Shows |
|---|---|---|
| `codex_turn` | 2 attempts, one frame read and not yet handled, stops and ends asked for up to the first attempt, fair | refinement of `TurnAdmission` (one native turn at a time); `NamesItsOwnTurn`, `TeardownEndsEveryTurn`, `CancelledIsAskedFor`, `StopFreesTheSlot`, `SessionEnds` |

Two attempts are what it takes for a frame of an earlier turn to arrive while a
later one waits for its name, which is the case the remembered turns exist for;
the second attempt starts and runs freely, and every stop, poison and end of the
first may still be under way when it does. Fairness: tasks the runtime was given
run (a dropped start's task, the watcher of a stream that ended, stop workers,
the client's two calls, the teardown and its watcher), and every bounded wait
ends. Nothing is asked of the host or of the app-server, so the two liveness
properties hold for a server that never answers again.

### 3.7 `CodexInteractions`: what the app-server asks during a turn

Source: `crates/mango-agent-codex/src/session.rs` (`decide`, `decide_question`,
`respond`, `answer`, the releases of a turn's pending requests and
`serverRequest/resolved`), `crates/mango-external-agents/src/approval.rs`.

*State.* Per request: how far its task is, whether its entry is in the pending
map or taken by a `respond` (in time or too late), what was sent to it, its settlement (questions),
what it answers the server, and whether its deadline passed. Around them: the
markers of withdrawals that came early, who holds the settlement lock, what the
two who may release a turn's requests (the notification call, the stop worker or
teardown) are at, and why the turn takes no more requests. `shown`, `resolved`
and `said` are what the events leave the host with; `accepted` what it was told
its answer did.

*Actions.* The steps of a request's task from its registration to its answer; the
host's answer, taken, sent or put back; a broker's; the deadline; the server's
withdrawal; and each release in its order: the approvals drained, audited, the
settlement lock taken, the rounds drained, reported, the terminal claimed. A lock
taken for one block of code is one action; the settlement lock is held across
several and is a variable.

*Taken as given.* Every request names this turn and has an id of its own.

*Not in it.* Requests refused for what they contain or for want of room, the
overflow of the stream, the markers of answered requests, the end of the
connection (`CodexTurn`).

| Run | Bounds | Shows |
|---|---|---|
| `codex_interactions` | a turn that asks one approval or one round of questions, fair | `EveryRoundIsSettled`, `ResolvedOnce`, `HostAndServerAgree`, `EveryRoundIsAnswered` |
| `codex_interactions_dialog` | the same | an approval's dialog may stay open behind the end of the stream (finding) |

Requests share only the settlement lock and the releases, and a release acts on
each of its requests alike, so one request of each kind meets every actor; the
two together pass ten million states and are not run, and the proofs cover any
number. Fairness: tasks and releases run and deadlines pass; nothing is asked of
the host, a broker or the server. Liveness is stated for questions only: a
`respond` that put its entry back after the task's deadline has been used leaves
an approval no deadline (below).

### 3.8 `ClaudeSession`: a child process per turn

Source: `crates/mango-agent-claude/src/session.rs`, `mcp.rs` (the lease on the
configuration).

*State.* An attempt is one admitted `start_turn` with its `TurnEnd`, its teardown
and its child. `slot` is `Mutable::active`; `asked` the attempts somebody
recorded a reason to stop for; `teardown` the worker of each and the outcome it
published; `start`, `launch` and `late` the future of `start_turn`, the
launcher's task, and the task an abandoned start leaves behind; `pump` the task
that reads the child. `story` is what is known of the stored conversation and
`verdict` what is published of it; `artifact` says who still holds the MCP
configuration; `closer` is the close worker. `past` is no state of the code: it
remembers which starts were dropped, which of them before their launch answered,
and which children had left before their stop in a conversation that was known. The
properties read it, and `LoseLate` does, where it stands for the control that the
task of a dropped start was made with.

*Actions.* A start admits, launches, installs the child, prompts and returns, and
may be dropped at every await; the launcher returns a child, a failure that
still owes a child's cleanup, or one that left no child. The pump reads
init, result and end, loses its reader, and retires the turn. Cancel, close, a
dropped session, a dropped stream, the host's token and the pump each join the
attempt's teardown, whose worker asks the child to stop, records how that went
and publishes it. A close waits for a pending launch or gives up on it. The
runtime may end and take every task with it. What a stop notes of a child that had
left (`taint_established_unfinished`) and the record of the stop are one step,
although the code takes its lock twice: an init read between the two is in the
model one read behind them, and both leave the same verdict.

*Taken as given.* A stop answers (`ProcessStop`): it was obeyed, it killed, or it
failed and returns the control. The child may have written any records, so the
pump may read any.

*Not in it.* What a record says beyond init, result and end; configuration
changes and commands; the file itself; the removal of a configuration when the
session was only dropped and its last owner goes.

| Run | Bounds | Shows |
|---|---|---|
| `claude_session` | 2 attempts (symmetric), one of: dropped session, host's token, end of the runtime, dropped stream; closes, cancels and dropped starts are not counted | refinement of `TurnAdmission` (no child outside its turn, none behind a close); `ConfigurationOutlivesChild`, `StopHasAnAnswerer`, `SlotIsOwned`, `ResumableIsEarned` |

The slot holds one attempt, so two are what it takes for the teardown, the
abandoned start or the pump of one to meet the start of the next. The view leaves
out of a state only what no action and no property reads any more. Nothing is
claimed about liveness: a child may ignore everything but a kill, and that a stop
answers is the matter of `ProcessStop`. `StopHasAnAnswerer` and `SlotIsOwned` are
its safety half: whoever waits has somebody to wait for, and a slot is somebody's
to free, but for the one case told under Findings.

### Findings

Where the code and what its documentation says part, a run shows the behaviour
and `PROJECT.json` quotes both. `turn_stream_overflow`: a stream that refused an
event may still end Completed. `hub_supervisor_stall`: an undelivered withdrawal
can end an operation that never ran. `process_stop_stray`: a signal may reach a
group that is not the library's. `codex_interactions_dialog`: a stream may end
with an approval's dialog still open.

Five more disagreements were met while modelling. The models contain them; no run
is spent on them:

* *An empty answer to a request the server waits on* (`Look`, `Check` of
  `CodexInteractions`). An approval or a round that a stop released between its
  registration and its announcement is answered `{}`. The comment in
  `decide`'s caller (codex `session.rs:2456`) takes the server to have stopped
  waiting, and docs/harness-codex.md:790 says that a cancel answers `decline`.
* *A withdrawn approval is announced* (`Look`, then `Show`). The entry is looked
  at and the announcement made in two steps; a withdrawal in between is not
  noticed until the task next looks at its box, and the host sees a dialog that
  the server already withdrew. Questions hold the settlement lock here.
* *An approval without a deadline* (`Expire`, `Late`, `RespondPutsBack`). A
  deadline that finds the entry taken by a `respond` waits for that answer; a
  `respond` that is refused puts the entry back, and nothing bounds the wait
  from then on.
* *A slot left taken* (`LeftByDrop` of `ClaudeSession`). A start that is dropped
  once the stop of its child was recorded leaves no task behind and does not
  settle the slot (claude `session.rs:930`), although docs/lifecycle.md:16 says
  that dropping a start future triggers cleanup. Every later start is refused as
  busy. Without its last line `SlotIsOwned` is violated by such a
  trace: the start installs its child, a cancel's worker stops it and records
  that, and the start is dropped at the release of its lease. The line excepts
  exactly this: an attempt whose start was dropped, that left no task, behind a
  recorded stop that succeeded.
* *A cancelled turn reported resumable.* A child that wrote its init and exited is
  found exited by a cancel while the session has not read the init. The stop is
  recorded in a conversation that is not known yet and taints nothing
  (`session.rs:653`); the pump chooses between its stop token and the next record
  without a preference (`session.rs:2117`), may read the init then, and the
  conversation becomes `Resumable`. docs/harness-claude.md:299 and 352 require
  `UnfinishedTurn` of a child that had left before the interrupt.
  `ResumableIsEarned` speaks of a stop recorded once the conversation was known;
  asked of every stop, TLC violates it in 14 states.

No run shows these two. They are told here and in the notes of their hazards, and
the property each one bears on names the case it leaves out.

### Mutants

Every property of a passing run has a mutant in its module: an operator
`<Definition>_<Change>` next to the definition it would replace, changed the way
a plausible slip in that code would change it (a guard forgotten, a wrong order,
a counter taken from once too often). With the mutant in place TLC finds the
property violated under the run's own bounds, which shows that the bounds reach
the case and that the property depends on the code.

## 4. What is proved

All proofs are for every value of the constants; TLC checked each invariant,
strengthening included, on the small instances first. The assumptions on
constants are named in the component's module.

* **`TurnStreamProofs`.** The strengthening says who the live senders are, what
  shape the queue has (payload and control events, totals as sums),
  that a gone receiver's buffer is empty, what a refused close has switched off,
  and that read, queued and reserved events are together exactly what was
  published. From it: `TypeCorrect`, `BudgetIsExact`, `BudgetHolds`,
  `InteractionRoom`, `NothingLeftBehind`, `NoPayloadAfterRefusal`,
  `TranscriptIsFaithful`, `EndIsNeverSilent`, and `Implements`: every behaviour
  is one of `TurnTranscript`.
* **`HubSupervisorProofs`.** The heart is `Traceable` and `Agreed`: as long as a
  call may have executed, the Hub holds a reservation or an outcome for it, so
  the loop can never read "never arrived" and dispatch again; `Numbered` orders
  the attempts offered; `Owing` ties a stop to a cancel still owed. From them:
  `ExecutesAtMostOnce`, `AttemptsIncrease`, `ToldTheHubs`, `StopIsConfirmed`,
  `KeepsTheContract`, `OverStaysOver`, and `Implements` (`LogicalOperation`).
* **`ProcessStopProofs`.** `Seen` says what a caller or the escalation that saw
  the group empty may rely on (an empty group stays empty), `Claimed` that the
  claim and the escalation task go together. From them: `OkMeansGone`,
  `EscalatedOnce`, and `SignalsInOrder`: behind an empty group nobody asks or
  insists, behind the claim no call sets out to interrupt, and behind the
  interrupts that had looked before the claim none is delivered.
* **`TurnBroadcastProofs`.** `Books` keeps per slot that gap, held events and
  what was told of are in this order everything pushed; `Quiet` that nobody
  pushes to a closed slot. From them: `LossIsTold`, `NewestIsKept`,
  `RetentionHolds`, `EndIsLast`.
* **`JsonRpcCallsProofs`.** `Core` adds to the properties what each actor has in
  hand (`Hands`, `Frame`), which stage of a caller goes with which holder of its
  sending end (`Stages`), who has the claim (`Claims`), in which order an end
  proceeds (`Ending`), and whose an entry without a caller is (`Orphans`). The
  claim is the hinge: whoever answers or fails a call had it first, so a cancel
  finds it taken. The budget is a separate step over cardinalities: every action
  but two enters nobody, and those two look at the room under the same lock.
  `Implements` (`CallContract`) adds `Finality`: who heard has nobody left to settle
  his call, and what a reader has in hand was on the wire. From
  them: `AnsweredXorCancelled`, `NobodyIsForgotten`, `OrphansAreSomebodys`,
  `PendingHolds`, `PlacesReturn`, `FailuresTellTheCause`.

* **`CodexTurnProofs`.** `OnePending` says that at most one attempt has, or may
  still get, a native turn; `StartInv`, `SlotInv` and `InboxInv` say how far the
  start of an attempt in the slot is, that it is named after nobody or itself,
  and that a frame belongs to a turn that is known or remembered; `HandlerInv`,
  `ReporterInv` and `TeardownInv` what each of the three that may claim a
  terminal holds between its claim and its release; `InterruptInv` that an
  interrupt was counted by whoever set the mark. From them: `OneNativeTurnHolds`,
  `NamesItsOwnTurnHolds`, `OneInterruptHolds`, `TeardownEndsEveryTurnHolds`.
  `CauseInv` is about why a turn ends: as long as nobody asked for a stop or a
  close, a poison or an ended connection has claimed every open stream before it
  wakes the teardown, and no start opens one behind it. With it every action that
  cancels a stream has a cause (`CancelledIsAskedForHolds`). `Implements`
  (`TurnAdmission`) needs `CutInv`, that the app-server is reaped behind the cut, and
  one lemma per kind of step: it begins work, ends it, leaves, closes, or changes
  nothing of the contract.
* **`CodexInteractionsProofs`.** `LockInv` says who is where when the settlement
  lock is taken, `RoundInv` that a round on show has an entry or somebody who
  holds the lock and will report it, `OnceInv` that whoever has an entry, or took
  it, is the only one to report it, `AgreeInv` what box, settlement, answer and
  report have to do with each other. From them: `EveryRoundIsSettledHolds`,
  `ResolvedOnceHolds`, `HostAndServerAgreeHolds`.
* **`ClaudeSessionProofs`.** The invariant is one statement per attempt: whose it
  is at each stage (`Stages`); until its launch is read it keeps its slot and no
  worker stops it (`Launching`); which worker or task a stop without an outcome
  waits for (`Heard`, `Stopping`, `Bare`); a running child holds the slot, and a
  proved stop or an `ok` outcome means there is none (`Kept`); and what the close
  worker may have concluded from it (`Closing`, `CloserInv`). Lemmas say that an
  action of one attempt leaves the statement about another alone. From it:
  `StopHasAnAnswererHolds`, `ChildIsAccountedForHolds`. `Care` stands on that
  invariant and follows what it does not: who holds the configuration (`Leased`,
  `Begun`), which worker is to settle the slot (`Settling`, `Owning`), and how a
  verdict came about (`Earning`); it is inductive only with the first, which knows
  that two workers never have one attempt. Two more stand on both: `Spared`, that
  a slot behind a recorded stop that nobody attends to any more is one of a dropped
  start, and `Remembered`, that a conversation without a taint remembers no child
  that had left before its stop. From them: `SlotIsOwnedHolds`,
  `ConfigurationOutlivesChildHolds`, `ResumableIsEarnedHolds`. `StatusInv` says that
  a session reported closed refuses starts; with what the first invariant says of
  running children it gives `Implements` (`TurnAdmission`).

Some statements are proved and not run, because a run would spend a property on
what a proved one beside it already needs: `BudgetRespected`,
`TranscriptFaithful`, `AttemptsStrictlyIncrease`, `OneOutcomeIsTold`,
`RecordNeverRefuses`, `EscalatesOnce`, `SignalsOnlyEscalate`,
`RetentionBounded`, `PendingBounded`, `OneInterrupt`, `OneNativeTurn` and
`ChildIsAccountedFor` (the refinement of `TurnAdmission` contains both),
`AnsweredOrCancelled` (that of `CallContract` does), and the type invariants.

Each proof module follows the same order: facts about the operators, `Init`
implies the invariant, one lemma per action under which each disturbed conjunct
has its step, then the theorem that combines them with PTL.

### Model-checked only

Liveness under fairness cannot be proved by the installed provers:
`ParkedReaderWakes`, `EndReachesReader`, `StopEndsTheRun`, `AbandonedTreeEnds`,
`CallsAnswer`, `ParkedWatcherWakes`, `StopFreesTheSlot`, `SessionEnds`,
`EveryRoundIsAnswered`. Every invariant, action property and refinement of the
passing runs is proved. The findings are
counterexamples and have no proof.

## 5. What is not modelled

`PROJECT.json` lists every component with its reason. In short:

* **ACP client and session.** Left out for its size. Its approvals against
  expiry, answer, cancellation and terminal have the form of those of a Codex
  turn, but they are other code, and nothing here is claimed for it.
* **JSON-RPC.** The ordered worker's queue, holds on cancellation, who reports
  the end, and the order, bytes and barriers of several frames. `JsonRpcCalls`
  has one frame per call and of the peer only its answers.
* **Codex steers**, the hold they put on notifications and the poison their replay
  may end in; `poison_apart`; quota reads and configuration changes.
* **The start and close gate** (`lifecycle.rs`) is two counters behind a mutex;
  the sessions' models use what it promises, a start refused after a close.
* **Retry policy and the ACP transport budget.** Arithmetic without a history;
  the supervisor's model lets a delay end at any time.
* **Reducers, protocol types, configuration, discovery, content, redaction.** They
  translate and validate values; a finite model would have to enumerate what the
  vendors write. What the sessions do with the records that end a turn is modelled.
* **Transports, launching, line framing, the Windows Job reaper.** Input, output
  and system calls; the stop of a Unix child is in `ProcessStop`.
* **The command-line client and the test doubles** are no part of what the
  library promises.

Values of deadlines are left out everywhere: a deadline may pass at any moment,
which allows more than the code does.
