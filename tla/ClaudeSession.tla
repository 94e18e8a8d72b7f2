--------------------------- MODULE ClaudeSession ---------------------------
(***************************************************************************)
(* The one turn of a Claude session (mango-agent-claude, session.rs): a    *)
(* child process per turn, launched by the host, and everybody who may     *)
(* stop it.  A cancel, a close, a dropped session, a dropped start, a      *)
(* dropped stream, the host's token, the vendor's own result and a broken  *)
(* stream all join one teardown per turn, whose worker asks the child to   *)
(* stop once and publishes how that went.  The same steps decide when the  *)
(* slot is free again, what is published of the stored conversation and    *)
(* when the MCP configuration a child reads is removed.                    *)
(*                                                                         *)
(* An attempt is one admitted start_turn, and stands for its `end`, its    *)
(* teardown and its child.  Every await of the code separates two actions, *)
(* and what it does under one lock is one action.  Every bounded wait may  *)
(* end at any time.  An MCP configuration is always there: without one the *)
(* waits for its release end at once.                                      *)
(***************************************************************************)
EXTENDS Naturals, FiniteSets

CONSTANTS
    Attempts,   \* start_turn calls
    NoAttempt,
    MaxEvents   \* what a host does besides start and cancel (a bound of the model)

ASSUME NoAttemptAssumption == NoAttempt \notin Attempts

VARIABLES
    closed,     \* SessionLifecycle::closed
    status,     \* SessionStatus
    dropped,    \* the host let go of the session
    shutdown,   \* the host's token
    runtime,    \* the runtime that opened the session still runs
    past,       \* what became of an attempt and the rest does not tell any more
    slot,       \* Mutable::active, without what belongs to the attempt
    asked,      \* TurnEnd: attempts somebody recorded a reason to stop for
    teardown,   \* ActiveTurn::teardown and its worker
    start,      \* the future of each start_turn
    launch,     \* the launcher task of each
    late,       \* the task an abandoned start leaves behind
    pump,       \* the task that reads the child
    native,     \* attempts whose pump read the vendor's result
    stream,     \* what the host reads
    child,      \* the process
    story,      \* what is known of the stored conversation
    verdict,    \* SessionState::resumability, as published
    artifact,   \* who holds the MCP configuration, and whether it is preserved
    closer      \* the close worker

hostSide == <<dropped, shutdown, runtime, past>>
closing == <<closed, status, closer>>
stops == <<asked, teardown>>
starts == <<start, launch, late>>
reads == <<pump, native, stream>>
stored == <<story, verdict>>
vars == <<hostSide, closing, slot, stops, starts, reads, child, stored, artifact>>

-----------------------------------------------------------------------------
Named == Attempts \cup {NoAttempt}

Slots == [turn: Named, control: BOOLEAN, stopped: BOOLEAN, settled: BOOLEAN]

Free == [turn |-> NoAttempt, control |-> FALSE, stopped |-> FALSE, settled |-> FALSE]

\* Teardown: nobody made one, it has no worker yet, and the places of its worker.
Places == {"none", "idle", "queued", "stopping", "stopped", "recorded", "over"}

\* A published failure carries the host's control ("owed") or does not ("lost").
Outcomes == {"none", "ok", "owed", "lost"}

Teardowns == [at: Places, taints: BOOLEAN, settles: BOOLEAN, exited: BOOLEAN,
              how: {"none", "interrupted", "killed", "failed"},
              proven: BOOLEAN, outcome: Outcomes]

NoTeardown == [at |-> "none", taints |-> TRUE, settles |-> FALSE, exited |-> FALSE,
               how |-> "none", proven |-> FALSE, outcome |-> "none"]

Stories == [established: BOOLEAN, pending: BOOLEAN, refused: BOOLEAN,
            taint: {"none", "unfinished", "unverified"},
            finished: BOOLEAN, before: BOOLEAN]

Artifacts == [held: SUBSET Attempts, by: {"session", "close", "nobody"}, kept: BOOLEAN]

Closers == [at: {"none", "waiting", "removing", "over"}, on: Named,
            control: BOOLEAN, proven: BOOLEAN,
            outcome: Outcomes \cup {"pending launch", "not removed"}]

\* Attempts whose start was dropped, those of them whose launch was still pending, and
\* those whose child had left by itself when its stop looked: in a conversation that was
\* known, in a turn the vendor had not finished, and none was finished since.
Pasts == [abandoned: SUBSET Attempts, blind: SUBSET Attempts, quit: SUBSET Attempts]

PumpPlaces == {"none", "prompting", "reading", "ended", "reporting", "finishing", "exiting",
               "deciding", "reaping", "shutting", "refused", "abandoning", "over"}

TypeOK ==
    /\ closed \in BOOLEAN
    /\ status \in {"ready", "closing", "closed"}
    /\ dropped \in BOOLEAN
    /\ shutdown \in BOOLEAN
    /\ runtime \in BOOLEAN
    /\ past \in Pasts
    /\ slot \in Slots
    /\ asked \in SUBSET Attempts
    /\ teardown \in [Attempts -> Teardowns]
    /\ start \in [Attempts -> {"idle", "launching", "stopping", "releasing",
                               "starting", "refusing", "over"}]
    /\ launch \in [Attempts -> {"none", "pending", "child", "bare", "owed", "read"}]
    /\ late \in [Attempts -> {"none", "waiting", "holding", "stopping", "over"}]
    /\ pump \in [Attempts -> PumpPlaces]
    /\ native \in SUBSET Attempts
    /\ stream \in [Attempts -> {"none", "open", "ended", "dropped"}]
    /\ child \in [Attempts -> {"none", "live", "exited", "gone"}]
    /\ story \in Stories
    /\ verdict \in {"unknown", "resumable", "unfinished", "unverified"}
    /\ artifact \in Artifacts
    /\ closer \in Closers

Init ==
    /\ closed = FALSE
    /\ status = "ready"
    /\ dropped = FALSE
    /\ shutdown = FALSE
    /\ runtime = TRUE
    /\ past = [abandoned |-> {}, blind |-> {}, quit |-> {}]
    /\ slot = Free
    /\ asked = {}
    /\ teardown = [a \in Attempts |-> NoTeardown]
    /\ start = [a \in Attempts |-> "idle"]
    /\ launch = [a \in Attempts |-> "none"]
    /\ late = [a \in Attempts |-> "none"]
    /\ pump = [a \in Attempts |-> "none"]
    /\ native = {}
    /\ stream = [a \in Attempts |-> "none"]
    /\ child = [a \in Attempts |-> "none"]
    /\ \E resumes \in BOOLEAN :
         story = [established |-> FALSE, pending |-> resumes, refused |-> FALSE,
                  taint |-> "none", finished |-> FALSE, before |-> FALSE]
    /\ verdict = "unknown"
    /\ artifact = [held |-> {}, by |-> "session", kept |-> FALSE]
    /\ closer = [at |-> "none", on |-> NoAttempt, control |-> FALSE,
                 proven |-> FALSE, outcome |-> "none"]

-----------------------------------------------------------------------------
(* What the paths share.                                                   *)

Owns(a) == slot.turn = a

\* What the host did: a close, a dropped session, its token, the end of its runtime,
\* dropped streams.
Done(happened) == IF happened THEN 1 ELSE 0

MayHappen ==
    Done(dropped) + Done(shutdown) + Done(~runtime)
      + Cardinality({a \in Attempts : stream[a] = "dropped"}) < MaxEvents

\* Mutable::stop_pending: a stop is asked for, not recorded, and may taint.
StopPending ==
    /\ slot.turn \in asked
    /\ ~slot.stopped
    /\ teardown[slot.turn].taints

\* Mutable::resumability
Verdict ==
    IF story.taint # "none" THEN story.taint
    ELSE IF story.established /\ story.finished /\ ~StopPending THEN "resumable"
    ELSE "unknown"

Publish == verdict' = Verdict'

\* Mutable::mark_nonresumable and mark_unfinished: the first cause is kept.
Tainted(s, cause) == [s EXCEPT !.taint = IF @ = "none" THEN cause ELSE @]

Refused(s, cause) == [Tainted(s, cause) EXCEPT !.refused = TRUE]

\* turn_teardown, Teardown::starts_worker and finish_unstarted_teardown.
Made(t, taints) == IF t.at = "none" THEN [t EXCEPT !.at = "idle", !.taints = taints] ELSE t

Started(t, settles) ==
    IF t.at = "idle" THEN [t EXCEPT !.at = "queued", !.settles = settles] ELSE t

Unstarted(t) == IF t.at = "idle" THEN [t EXCEPT !.at = "over", !.outcome = "ok"] ELSE t

\* claim_stop, and the start of the worker it claims: who comes second finds the
\* reason recorded and waits for what the first began.
ClaimStop(a, settles) ==
    IF Owns(a) /\ a \notin asked
    THEN /\ asked' = asked \cup {a}
         /\ teardown' = [teardown EXCEPT ![a] =
                            IF slot.control /\ @.at = "none"
                            THEN Started(Made(@, TRUE), settles)
                            ELSE Made(@, TRUE)]
         /\ Publish
    ELSE UNCHANGED <<asked, teardown, verdict>>

\* request_stop, turn_teardown and start_teardown for whatever turn there is: a
\* close and a dropped session join the worker of an earlier stop, or begin it.
TakeTurn ==
    /\ asked' = asked \cup {slot.turn}
    /\ teardown' = [teardown EXCEPT ![slot.turn] =
                       IF slot.control THEN Started(Made(@, TRUE), FALSE) ELSE Made(@, TRUE)]
    /\ IF slot.turn \in asked THEN UNCHANGED verdict ELSE Publish

\* Mutant: the owner is released whether or not its child was stopped.
Settle_Anyway(a) == slot' = IF Owns(a) THEN Free ELSE slot

\* settle_owner
Settle(a) ==
    slot' = IF ~Owns(a) THEN slot
            ELSE IF slot.stopped THEN Free
            ELSE [slot EXCEPT !.settled = TRUE]

\* What waits for the stop of an attempt goes on.
Answered(a) == teardown[a].at = "none" \/ teardown[a].outcome # "none"

\* Mutant: a failed stop leaves the configuration to whoever lets go last.
Release_Unmarked(a, reaped) == artifact' = [artifact EXCEPT !.held = @ \ {a}]

\* release_off_worker and release_after_stop: an attempt's lease on the MCP
\* configuration, marked to stay on disk when the stop failed.
Release(a, reaped) ==
    artifact' = [artifact EXCEPT !.held = @ \ {a},
                                 !.kept = @ \/ (a \in artifact.held /\ ~reaped)]

\* A child runs for this attempt, or may yet.
MayLive(a) == child[a] \in {"live", "exited"} \/ launch[a] \in {"pending", "child"}

\* The last reference takes the file with it.
Removed == artifact.held = {} /\ artifact.by = "nobody" /\ ~artifact.kept

-----------------------------------------------------------------------------
(* start_turn                                                              *)

\* The reservation, and the launcher task it spawns.
Admit(a) ==
    /\ start[a] = "idle" /\ ~dropped
    /\ ~closed /\ ~shutdown /\ ~story.refused /\ slot.turn = NoAttempt
    /\ slot' = [Free EXCEPT !.turn = a]
    /\ story' = [story EXCEPT !.before = story.finished, !.finished = FALSE]
    /\ artifact' = IF artifact.by = "session"
                   THEN [artifact EXCEPT !.held = @ \cup {a}] ELSE artifact
    /\ start' = [start EXCEPT ![a] = "launching"]
    /\ launch' = [launch EXCEPT ![a] = "pending"]
    /\ UNCHANGED <<hostSide, closing, stops, late, reads, child>>
    /\ Publish

\* The host's launcher returns a child, or fails without one, or fails over one it
\* could not end.
LauncherReturns(a) ==
    /\ launch[a] = "pending"
    /\ \E r \in {"child", "bare", "owed"} :
         /\ launch' = [launch EXCEPT ![a] = r]
         /\ child' = IF r = "bare" THEN child ELSE [child EXCEPT ![a] = "live"]
    /\ UNCHANGED <<hostSide, closing, slot, stops, start, late, reads, stored,
                   artifact>>

\* finish_unstarted_teardown and forget_reservation: no child ran, so the
\* conversation is as it was.
Forget(a) ==
    /\ teardown' = IF Owns(a) THEN [teardown EXCEPT ![a] = Unstarted(@)] ELSE teardown
    /\ IF Owns(a) /\ ~slot.control
       THEN /\ slot' = Free
            /\ story' = [story EXCEPT !.finished = story.before]
            /\ Publish
       ELSE UNCHANGED <<slot, story, verdict>>
    /\ Release(a, TRUE)

\* retain_failed_launch: the failure is kept as the outcome of a stop.
Retain(a) ==
    /\ story' = Tainted(story, "unfinished")
    /\ teardown' = IF Owns(a)
                   THEN [teardown EXCEPT ![a] =
                            LET t == Made(@, TRUE)
                            IN  IF t.at = "idle"
                                THEN [t EXCEPT !.at = "over", !.outcome = "owed"] ELSE t]
                   ELSE teardown
    /\ Release(a, FALSE)
    /\ UNCHANGED slot
    /\ Publish

\* start_turn learns that the launch failed, or that no argv could be built.
StartFails(a) ==
    /\ start[a] = "launching" /\ launch[a] \in {"bare", "owed"}
    /\ start' = [start EXCEPT ![a] = "over"]
    /\ launch' = [launch EXCEPT ![a] = "read"]
    /\ UNCHANGED <<hostSide, closing, asked, late, reads, child>>
    /\ IF launch[a] = "bare" THEN Forget(a) ELSE Retain(a)

\* start_turn has its child: it is installed, or stopped when somebody asked first.
Install(a) ==
    /\ start[a] = "launching" /\ launch[a] = "child"
    /\ launch' = [launch EXCEPT ![a] = "read"]
    /\ IF a \in asked
       THEN /\ start' = [start EXCEPT ![a] = "stopping"]
            /\ teardown' = IF Owns(a)
                           THEN [teardown EXCEPT ![a] = Started(Made(@, TRUE), TRUE)]
                           ELSE teardown
            /\ UNCHANGED slot
       ELSE /\ start' = [start EXCEPT ![a] = "releasing"]
            /\ IF ~closed /\ Owns(a)
               THEN /\ slot' = [Free EXCEPT !.turn = a, !.control = TRUE]
                    /\ teardown' = [teardown EXCEPT ![a] = NoTeardown]
               ELSE UNCHANGED <<slot, teardown>>
    /\ UNCHANGED <<hostSide, closing, asked, late, reads, child, stored, artifact>>

\* await_durable_stop returns to start_turn.
StartStopped(a) ==
    /\ start[a] = "stopping" /\ Answered(a)
    /\ start' = [start EXCEPT ![a] = "over"]
    /\ Settle(a)
    /\ Release(a, teardown[a].outcome \in {"ok", "none"})
    /\ UNCHANGED <<hostSide, closing, stops, launch, late, reads, child, stored>>

\* start_turn gives up its lease before anything reads the child.
ReleaseLease(a) ==
    /\ start[a] = "releasing" /\ a \in artifact.held
    /\ Release(a, TRUE)
    /\ UNCHANGED <<hostSide, closing, slot, stops, starts, reads, child, stored>>

\* Mutant: the start leaves the slot to a pump this turn never had.
Recheck_Unsettled(a) ==
    /\ start[a] = "releasing" /\ a \notin artifact.held
    /\ start' = [start EXCEPT ![a] = IF closed \/ ~Owns(a) \/ a \in asked
                                     THEN "over" ELSE "starting"]
    /\ UNCHANGED <<hostSide, closing, slot, stops, launch, late, reads, child, stored, artifact>>

\* The second look, once the lease is released.
Recheck(a) ==
    /\ start[a] = "releasing" /\ a \notin artifact.held
    /\ IF closed \/ ~Owns(a) \/ a \in asked
       THEN /\ start' = [start EXCEPT ![a] = "over"]
            /\ Settle(a)
       ELSE /\ start' = [start EXCEPT ![a] = "starting"]
            /\ UNCHANGED slot
    /\ UNCHANGED <<hostSide, closing, stops, launch, late, reads, child, stored, artifact>>

\* The stream takes TurnStarted and the pump takes the child, or the stream refuses
\* the event and the child is stopped.
HandOver(a) ==
    /\ start[a] = "starting"
    /\ UNCHANGED <<hostSide, closing, slot, launch, late, native, child, story,
                   artifact>>
    /\ \/ /\ start' = [start EXCEPT ![a] = "over"]
          /\ pump' = [pump EXCEPT ![a] = "prompting"]
          /\ stream' = [stream EXCEPT ![a] = "open"]
          /\ UNCHANGED <<asked, teardown, verdict>>
       \/ /\ start' = [start EXCEPT ![a] = "refusing"]
          /\ UNCHANGED <<pump, stream>>
          /\ ClaimStop(a, TRUE)

StartRefused(a) ==
    /\ start[a] = "refusing" /\ Answered(a)
    /\ start' = [start EXCEPT ![a] = "over"]
    /\ Settle(a)
    /\ UNCHANGED <<hostSide, closing, stops, launch, late, reads, child, stored, artifact>>

-----------------------------------------------------------------------------
(* AbandonedStart: the caller drops start_turn at one of its awaits.       *)

\* The drop of the guard: it leaves a task behind unless an earlier stop has
\* already ended an installed child.
Abandons(a) == start[a] = "launching" \/ ~slot.stopped \/ a \notin asked

DropStart(a) ==
    /\ start[a] \in {"launching", "stopping", "releasing", "refusing"}
    /\ start' = [start EXCEPT ![a] = "over"]
    /\ past' = [past EXCEPT !.abandoned = @ \cup {a},
                            !.blind = IF start[a] = "launching" THEN @ \cup {a} ELSE @]
    /\ UNCHANGED <<dropped, shutdown, runtime, closing, launch, reads, child>>
    /\ IF Owns(a) /\ Abandons(a)
       THEN /\ asked' = asked \cup {a}
            /\ teardown' = [teardown EXCEPT ![a] = Made(@, TRUE)]
            /\ late' = [late EXCEPT ![a] = IF start[a] = "launching"
                                           THEN "waiting" ELSE "holding"]
            /\ UNCHANGED <<slot, story, artifact>>
            /\ IF a \in asked THEN UNCHANGED verdict ELSE Publish
       ELSE /\ Release(a, TRUE)
            /\ UNCHANGED <<slot, asked, teardown, late, stored>>

\* The task learns what the launcher made.
LateLaunch(a) ==
    /\ runtime /\ late[a] = "waiting" /\ launch[a] \in {"child", "bare", "owed"}
    /\ launch' = [launch EXCEPT ![a] = "read"]
    /\ UNCHANGED <<hostSide, closing, asked, start, reads, child>>
    /\ IF launch[a] = "child"
       THEN /\ late' = [late EXCEPT ![a] = "holding"]
            /\ UNCHANGED <<slot, teardown, stored, artifact>>
       ELSE /\ late' = [late EXCEPT ![a] = "over"]
            /\ IF launch[a] = "bare" THEN Forget(a) ELSE Retain(a)

\* The task stops the child it holds, or joins the stop it has.
LateStop(a) ==
    /\ runtime /\ late[a] = "holding"
    /\ late' = [late EXCEPT ![a] = "stopping"]
    /\ teardown' = IF Owns(a)
                   THEN [teardown EXCEPT ![a] = Started(Made(@, TRUE), TRUE)]
                   ELSE teardown
    /\ UNCHANGED <<hostSide, closing, slot, asked, start, launch, reads, child,
                   stored, artifact>>

LateStopped(a) ==
    /\ runtime /\ late[a] = "stopping" /\ Answered(a)
    /\ late' = [late EXCEPT ![a] = "over"]
    /\ Settle(a)
    /\ Release(a, teardown[a].outcome \in {"ok", "none"})
    /\ UNCHANGED <<hostSide, closing, stops, start, launch, reads, child, stored>>

-----------------------------------------------------------------------------
(* The teardown worker.                                                    *)

\* It looks whether the child has left already, then asks the control to stop it.
AskStop(a) ==
    /\ runtime /\ teardown[a].at = "queued"
    /\ teardown' = [teardown EXCEPT ![a].at = "stopping",
                                    ![a].exited = child[a] \in {"exited", "gone"}]
    /\ UNCHANGED <<hostSide, closing, slot, asked, starts, reads, child, stored,
                   artifact>>

\* The stop answers, at the latest when the last of its stages has run out.
StopReturns(a) ==
    /\ runtime /\ teardown[a].at = "stopping"
    /\ \E how \in {"interrupted", "killed", "failed"} :
         /\ teardown' = [teardown EXCEPT ![a].at = "stopped", ![a].how = how,
                                         ![a].proven = how # "failed"]
         /\ child' = IF how = "failed" THEN child ELSE [child EXCEPT ![a] = "gone"]
    /\ UNCHANGED <<hostSide, closing, slot, asked, starts, reads, stored,
                   artifact>>

\* A turn whose child had to be killed refuses the next one (record_stop_locked).
Ended(t, s) ==
    IF t.taints /\ t.how = "killed" THEN Refused(s, "unfinished")
    ELSE [s EXCEPT !.finished = TRUE]

\* Mutant: a control that answers for a child that had left is taken at its word.
Noted_AtItsWord(t, s) == s

\* taint_established_unfinished: an interrupt that found nobody ended nothing.
Noted(t, s) ==
    IF t.taints /\ t.how = "interrupted" /\ t.exited /\ s.established
    THEN Tainted(s, "unfinished") ELSE s

\* What the worker records of the conversation and of the slot (run_teardown,
\* record_stop), before anybody hears of the outcome.
RecordStop(a) ==
    /\ runtime /\ teardown[a].at = "stopped"
    /\ LET t == teardown[a]
       IN  /\ teardown' = [teardown EXCEPT ![a].at = "recorded"]
           /\ IF t.how = "failed"
              THEN /\ story' = IF t.taints THEN Tainted(story, "unfinished") ELSE story
                   /\ UNCHANGED slot
              ELSE IF ~Owns(a)
              THEN story' = Noted(t, story) /\ UNCHANGED slot
              ELSE /\ story' = Ended(t, Noted(t, story))
                   /\ slot' = IF slot.settled \/ t.settles
                              THEN Free ELSE [slot EXCEPT !.stopped = TRUE]
           /\ past' = [past EXCEPT !.quit =
                          IF t.exited /\ a \notin native /\ story.established
                          THEN @ \cup {a} ELSE @]
    /\ UNCHANGED <<dropped, shutdown, runtime, closing, asked, starts, reads, child, artifact>>
    /\ Publish

PublishOutcome(a) ==
    /\ runtime /\ teardown[a].at = "recorded"
    /\ teardown' = [teardown EXCEPT ![a].at = "over",
                        ![a].outcome = IF teardown[a].how = "failed" THEN "owed" ELSE "ok"]
    /\ UNCHANGED <<hostSide, closing, slot, asked, starts, reads, child, stored,
                   artifact>>

-----------------------------------------------------------------------------
(* LostWorker: a task the ended runtime drops publishes for itself.        *)

\* What a lost task says: the control it was made with goes with it, unless the child is
\* proven gone.
Loss(a, control) == IF control /\ ~teardown[a].proven THEN "owed" ELSE "lost"

LoseWorker(a) ==
    /\ ~runtime /\ teardown[a].at \in {"queued", "stopping", "stopped", "recorded"}
    /\ teardown' = [teardown EXCEPT ![a].at = "over",
                        ![a].outcome = IF @ = "none" THEN Loss(a, TRUE) ELSE @]
    /\ story' = IF teardown[a].outcome = "none" /\ teardown[a].taints
                THEN Tainted(story, "unfinished") ELSE story
    /\ UNCHANGED <<hostSide, closing, slot, asked, starts, reads, child, artifact>>
    /\ Publish

\* Mutant: the task of an abandoned start is dropped without a word.
LoseLate_Silent(a) ==
    /\ ~runtime /\ late[a] \in {"waiting", "holding", "stopping"}
    /\ late' = [late EXCEPT ![a] = "over"]
    /\ Release(a, TRUE)
    /\ UNCHANGED <<hostSide, closing, slot, stops, start, launch, reads, child, stored>>

\* The task of a start dropped before its launch answered was made without a control.
LoseLate(a) ==
    /\ ~runtime /\ late[a] \in {"waiting", "holding", "stopping"}
    /\ late' = [late EXCEPT ![a] = "over"]
    /\ IF teardown[a].outcome = "none"
       THEN /\ teardown' = [teardown EXCEPT ![a].outcome =
                                Loss(a, a \notin past.blind)]
            /\ story' = IF teardown[a].taints THEN Tainted(story, "unfinished") ELSE story
       ELSE UNCHANGED <<teardown, story>>
    /\ Release(a, TRUE)
    /\ UNCHANGED <<hostSide, closing, slot, asked, start, launch, reads, child>>
    /\ Publish

RuntimeEnds ==
    /\ MayHappen
    /\ runtime
    /\ runtime' = FALSE
    /\ UNCHANGED <<dropped, shutdown, past, closing, slot, stops, starts, reads, child, stored,
                   artifact>>

-----------------------------------------------------------------------------
(* The pump                                                                *)

PumpAt(a, place) == pump' = [pump EXCEPT ![a] = place]

Prompted(a) ==
    /\ pump[a] = "prompting"
    /\ \E place \in {"reading", "finishing"} : PumpAt(a, place)
    /\ UNCHANGED <<hostSide, closing, slot, stops, starts, native, stream, child, stored,
                   artifact>>

\* It is told to stop by whoever asked.
PumpStopped(a) ==
    /\ pump[a] \in {"prompting", "reading"} /\ a \in asked
    /\ PumpAt(a, "finishing")
    /\ UNCHANGED <<hostSide, closing, slot, stops, starts, native, stream, child, stored,
                   artifact>>

\* The host's token: the child is stopped first, then the terminal is written.
PumpShuts(a) ==
    /\ UNCHANGED <<hostSide, closing, slot, starts, native, stream, child, story,
                   artifact>>
    /\ \/ /\ pump[a] \in {"prompting", "reading"} /\ shutdown
          /\ ClaimStop(a, FALSE)
          /\ PumpAt(a, "shutting")
       \/ /\ pump[a] = "shutting" /\ Answered(a)
          /\ PumpAt(a, "finishing")
          /\ UNCHANGED <<asked, teardown, verdict>>

\* Nobody reads any more, the stream overflowed, which is its terminal, or it was failed
\* over an event it refused.
PumpAbandons(a) ==
    /\ \/ pump[a] \in {"prompting", "reading", "reporting"} /\ stream[a] = "dropped"
       \/ pump[a] = "refused"
       \/ pump[a] \in {"reading", "reporting"} /\ stream[a] = "open"
    /\ stream' = [stream EXCEPT ![a] = IF @ = "open" THEN "ended" ELSE @]
    /\ PumpAt(a, "abandoning")
    /\ UNCHANGED <<hostSide, closing, slot, starts, native, child, story, artifact>>
    /\ ClaimStop(a, TRUE)

\* An event the stream refuses ends the conversation before it ends the turn.
EventRefused(a) ==
    /\ pump[a] \in {"reading", "reporting"}
    /\ story' = Refused(story, "unfinished")
    /\ PumpAt(a, "refused")
    /\ UNCHANGED <<hostSide, closing, slot, stops, starts, native, stream, child, artifact>>
    /\ Publish

PumpAbandoned(a) ==
    /\ pump[a] = "abandoning" /\ Answered(a)
    /\ PumpAt(a, "over")
    /\ Settle(a)
    /\ UNCHANGED <<hostSide, closing, stops, starts, native, stream, child, stored, artifact>>

\* mark_unconfirmed_resume_nonresumable
Unconfirmed(a) ==
    IF story.pending /\ Owns(a) THEN Refused(story, "unverified") ELSE story

\* The child may have written any records before it was stopped or left, so the pump
\* reads any.  system/init (apply_init) names the conversation, or another one.
ReadInit(a) ==
    /\ pump[a] = "reading"
    /\ \/ /\ story' = IF Owns(a) THEN [story EXCEPT !.established = TRUE, !.pending = FALSE]
                      ELSE story
          /\ UNCHANGED pump
       \/ /\ Owns(a) /\ (story.pending \/ story.established)
          /\ story' = Unconfirmed(a)
          /\ PumpAt(a, "finishing")
    /\ UNCHANGED <<hostSide, closing, slot, stops, starts, native, stream, child, artifact>>
    /\ IF Owns(a) THEN Publish ELSE UNCHANGED verdict

\* The vendor's own result: it completes the turn, or comes before the resume was
\* confirmed and does not.
ReadResult(a) ==
    /\ pump[a] = "reading"
    /\ IF story.pending
       THEN /\ story' = Unconfirmed(a)
            /\ PumpAt(a, "finishing")
            /\ UNCHANGED <<native, past>>
       ELSE /\ story' = [story EXCEPT !.finished = TRUE,
                                      !.taint = IF story.refused THEN @ ELSE "none"]
            /\ PumpAt(a, "ended")
            /\ native' = native \cup {a}
            /\ past' = [past EXCEPT !.quit = {}]
    /\ UNCHANGED <<dropped, shutdown, runtime, closing, slot, stops, starts, stream, child,
                   artifact>>
    /\ Publish

\* start_terminal_teardown: the stop of a turn nobody asked to stop.
TerminalTeardown(a) ==
    teardown' = IF Owns(a)
                THEN [teardown EXCEPT ![a] = Started(Made(@, a \notin native), FALSE)]
                ELSE teardown

\* The stop of a finished turn begins before its terminal is written.
ReapEarly(a) ==
    /\ pump[a] = "ended"
    /\ TerminalTeardown(a)
    /\ PumpAt(a, "reporting")
    /\ UNCHANGED <<hostSide, closing, slot, asked, starts, native, stream, child,
                   stored, artifact>>

Reported(a) ==
    /\ pump[a] = "reporting" /\ stream[a] = "open"
    /\ stream' = [stream EXCEPT ![a] = "ended"]
    /\ PumpAt(a, "finishing")
    /\ UNCHANGED <<hostSide, closing, slot, stops, starts, native, child, stored, artifact>>

\* The stream of the child ends, breaks or falls silent.
ReadEnds(a) ==
    /\ pump[a] = "reading"
    /\ PumpAt(a, "finishing")
    /\ story' = IF a \in asked THEN story ELSE Unconfirmed(a)
    /\ UNCHANGED <<hostSide, closing, slot, stops, starts, native, stream, child, artifact>>
    /\ IF a \in asked THEN UNCHANGED verdict ELSE Publish

\* finish: a turn nobody finished and nobody stopped leaves the conversation
\* unfinished, and waits a moment for the exit that names why.
Finish(a) ==
    /\ UNCHANGED <<hostSide, closing, slot, stops, starts, native, child, artifact>>
    /\ \/ /\ pump[a] = "finishing"
          /\ a \in native \/ a \in asked
          /\ PumpAt(a, "deciding")
          /\ stream' = [stream EXCEPT ![a] = IF @ = "open" THEN "ended" ELSE @]
          /\ UNCHANGED stored
       \/ /\ pump[a] = "finishing"
          /\ a \notin native /\ a \notin asked
          /\ PumpAt(a, "exiting")
          /\ UNCHANGED stream
          /\ IF story.established
             THEN story' = Tainted(story, "unfinished") /\ Publish
             ELSE UNCHANGED stored
       \/ /\ pump[a] = "exiting"
          /\ PumpAt(a, "deciding")
          /\ stream' = [stream EXCEPT ![a] = IF @ = "open" THEN "ended" ELSE @]
          /\ UNCHANGED stored

\* The terminal is written: who asked owns the stop, and nobody else does.
Reap(a) ==
    /\ pump[a] = "deciding"
    /\ IF a \in asked \/ ~Owns(a)
       THEN PumpAt(a, "over") /\ Settle(a) /\ UNCHANGED teardown
       ELSE PumpAt(a, "reaping") /\ TerminalTeardown(a) /\ UNCHANGED slot
    /\ UNCHANGED <<hostSide, closing, asked, starts, native, stream, child, stored,
                   artifact>>

Reaped(a) ==
    /\ pump[a] = "reaping" /\ Answered(a)
    /\ PumpAt(a, "over")
    /\ Settle(a)
    /\ UNCHANGED <<hostSide, closing, stops, starts, native, stream, child, stored, artifact>>

-----------------------------------------------------------------------------
(* The child and the host                                                  *)

\* It leaves when it likes; that it left is looked at once, as its stop begins.
ChildExits(a) ==
    /\ child[a] = "live"
    /\ teardown[a].at \in {"none", "idle", "queued"}
    /\ child' = [child EXCEPT ![a] = "exited"]
    /\ UNCHANGED <<hostSide, closing, slot, stops, starts, reads, stored, artifact>>

StreamDropped(a) ==
    /\ MayHappen
    /\ stream[a] = "open"
    /\ stream' = [stream EXCEPT ![a] = "dropped"]
    /\ UNCHANGED <<hostSide, closing, slot, stops, starts, pump, native, child,
                   stored, artifact>>

HostShutsDown ==
    /\ MayHappen
    /\ ~shutdown
    /\ shutdown' = TRUE
    /\ UNCHANGED <<dropped, runtime, past, closing, slot, stops, starts, reads, child, stored,
                   artifact>>

\* cancel: a launch in the launcher is not waited for, a stop that runs is.
Cancel ==
    /\ ~dropped /\ slot.turn # NoAttempt
    /\ UNCHANGED <<hostSide, closing, slot, starts, reads, child, story, artifact>>
    /\ ClaimStop(slot.turn, FALSE)

\* A session is dropped when nobody is inside one of its calls.
DropSession ==
    /\ MayHappen
    /\ ~dropped
    /\ \A a \in Attempts : start[a] \in {"idle", "over"}
    /\ dropped' = TRUE
    /\ UNCHANGED <<shutdown, runtime, past, closing, slot, starts, reads, child, story,
                   artifact>>
    /\ IF slot.turn \in Attempts \ asked THEN TakeTurn ELSE UNCHANGED <<asked, teardown, verdict>>

-----------------------------------------------------------------------------
(* close                                                                   *)

\* The first close takes the lifecycle, asks for the stop and leaves a worker.
Close ==
    /\ ~closed /\ ~dropped
    /\ closed' = TRUE
    /\ status' = "closing"
    /\ closer' = [closer EXCEPT !.at = "waiting", !.on = slot.turn, !.control = slot.control]
    /\ artifact' = [artifact EXCEPT !.by = "close"]
    /\ UNCHANGED <<hostSide, slot, starts, reads, child, story>>
    /\ IF slot.turn # NoAttempt THEN TakeTurn ELSE UNCHANGED <<asked, teardown, verdict>>

\* The stop a close waits for; a close that found no turn has nothing to wait for.
StopOf == IF closer.on = NoAttempt THEN [NoTeardown EXCEPT !.outcome = "ok"]
          ELSE teardown[closer.on]

CloserAt(place, outcome) == closer' = [closer EXCEPT !.at = place, !.outcome = outcome]

\* The stop it waits for has an outcome: the removal begins, or the configuration
\* stays for a child that may still read it.
CloserStopped ==
    /\ runtime /\ closer.at = "waiting"
    /\ \/ /\ StopOf.outcome = "ok"
          /\ closer' = [closer EXCEPT !.at = "removing", !.proven = TRUE]
          /\ UNCHANGED artifact
       \/ /\ StopOf.outcome \in {"owed", "lost"}
          /\ CloserAt("over", StopOf.outcome)
          /\ artifact' = [artifact EXCEPT !.by = "nobody", !.kept = TRUE]
    /\ UNCHANGED <<hostSide, closed, status, slot, stops, starts, reads, child, stored>>

\* The launch it waits for outlasts the bound, and no worker owns a child yet.
CloserGivesUp ==
    /\ runtime /\ closer.at = "waiting"
    /\ StopOf.at = "idle" /\ StopOf.outcome = "none"
    /\ CloserAt("over", "pending launch")
    /\ artifact' = [artifact EXCEPT !.by = "nobody"]
    /\ UNCHANGED <<hostSide, closed, status, slot, stops, starts, reads, child, stored>>

\* The removal ends, fails or outlasts its bound: the session is closed.
CloserRemoved ==
    /\ runtime /\ closer.at = "removing"
    /\ \E outcome \in {"ok", "not removed"} : CloserAt("over", outcome)
    /\ artifact' = [artifact EXCEPT !.by = "nobody"]
    /\ status' = "closed"
    /\ UNCHANGED <<hostSide, closed, slot, stops, starts, reads, child, stored>>

\* The runtime drops the worker: it settles the session when the child is known to
\* be gone, and keeps the configuration when it never ran and a child is left.
LoseCloser ==
    /\ ~runtime /\ closer.at \in {"waiting", "removing"}
    /\ LET gone == closer.proven \/ StopOf.proven \/ StopOf.outcome = "ok"
       IN  /\ status' = IF gone THEN "closed" ELSE status
           /\ CloserAt("over", IF closer.control /\ ~gone THEN "owed" ELSE "lost")
           /\ \E ran \in BOOLEAN :
                artifact' = [artifact EXCEPT !.by = "nobody",
                               !.kept = @ \/ (~ran /\ closer.control /\ ~gone)]
    /\ UNCHANGED <<hostSide, closed, slot, stops, starts, reads, child, stored>>

\* prefer_late_stop_failure: a later close looks at what became of the launch the
\* first one gave up on.
CloseAgain ==
    /\ closed /\ ~dropped /\ closer.outcome = "pending launch"
    /\ \A a \in Attempts : Owns(a) => teardown[a].outcome = "ok"
    /\ CloserAt("over", "ok")
    /\ status' = "closed"
    /\ UNCHANGED <<hostSide, closed, slot, stops, starts, reads, child, stored, artifact>>

-----------------------------------------------------------------------------
Start(a) ==
    \/ Admit(a) \/ StartFails(a) \/ Install(a) \/ StartStopped(a) \/ ReleaseLease(a)
    \/ Recheck(a) \/ HandOver(a) \/ StartRefused(a) \/ DropStart(a)

Late(a) == LateLaunch(a) \/ LateStop(a) \/ LateStopped(a) \/ LoseLate(a)

Worker(a) ==
    AskStop(a) \/ StopReturns(a) \/ RecordStop(a) \/ PublishOutcome(a) \/ LoseWorker(a)

PumpSteps(a) ==
    \/ Prompted(a) \/ PumpStopped(a) \/ PumpShuts(a) \/ PumpAbandons(a) \/ EventRefused(a)
    \/ PumpAbandoned(a) \/ ReadInit(a) \/ ReadResult(a) \/ ReapEarly(a) \/ Reported(a)
    \/ ReadEnds(a) \/ Finish(a) \/ Reap(a) \/ Reaped(a)

Closer ==
    CloserStopped \/ CloserGivesUp \/ CloserRemoved \/ LoseCloser

Next ==
    \/ \E a \in Attempts :
         \/ Start(a) \/ Late(a) \/ Worker(a) \/ PumpSteps(a)
         \/ LauncherReturns(a) \/ ChildExits(a) \/ StreamDropped(a)
    \/ RuntimeEnds \/ HostShutsDown \/ Cancel \/ DropSession
    \/ Close \/ Closer \/ CloseAgain

Spec == Init /\ [][Next]_vars

-----------------------------------------------------------------------------
\* A child that runs, or that the launcher may still return, holds the slot: no
\* turn is admitted beside it, and the session is not reported closed over it
\* (session.rs:1362, 1743, 721).
ChildIsAccountedFor ==
    \A a \in Attempts : MayLive(a) => Owns(a) /\ status # "closed"

\* The MCP configuration is removed only when no child can still read it, however a
\* close, an abandoned start and a launch that is late release their shares of it
\* (session.rs:1552, 721).  A runtime that ends drops shares where they are.
ConfigurationOutlivesChild ==
    Removed /\ runtime => \A a \in Attempts : ~MayLive(a)

\* Whoever waits for a stop hears of it: as long as it has no outcome a worker runs
\* it or the launch it waits for is somebody's, and a task the runtime drops speaks
\* for itself (session.rs:1200).
StopHasAnAnswerer ==
    \A a \in Attempts :
        teardown[a].at # "none" /\ teardown[a].outcome = "none" =>
            \/ teardown[a].at \in {"queued", "stopping", "stopped", "recorded"}
            \/ start[a] \in {"launching", "stopping"}
            \/ late[a] \in {"waiting", "holding", "stopping"}

\* The one way a slot is left behind: its start is dropped once the stop of its child
\* was recorded, by the worker of a cancel or a close, which leaves no task to settle it
\* (session.rs:930, where docs/lifecycle.md:17 says that a dropped start is cleaned up).
LeftByDrop(a) ==
    /\ a \in past.abandoned /\ late[a] = "none"
    /\ slot.stopped /\ teardown[a].outcome = "ok"

\* A taken slot is on its way to be free: its start, its abandoned start, its pump or
\* the worker of its stop still runs, or a failed stop keeps it on purpose.  What ends
\* beside a stop that is already recorded settles the slot itself: a start behind its
\* release, a stream that refused its first event, a pump (session.rs:1609, 1640, 2081).
\* A runtime that ends takes what it ran with it.
SlotIsOwned ==
    runtime => \A a \in Attempts : Owns(a) =>
        \/ start[a] # "over"
        \/ late[a] \in {"waiting", "holding", "stopping"}
        \/ pump[a] \notin {"none", "over"}
        \/ teardown[a].at \in {"queued", "stopping", "stopped", "recorded"}
        \/ teardown[a].outcome \in {"owed", "lost"}
        \/ LeftByDrop(a)

\* The conversation is reported resumable only over turns that earned it.  A child that
\* was killed before the vendor finished its turn rules it out for good.  One that had
\* left by itself when its stop looked, whatever its control answered, rules it out until
\* the vendor finishes a later turn, provided the conversation was known when the stop was
\* recorded (session.rs:653, 1124).  A turn in the slot was finished or interrupted.
ResumableIsEarned ==
    verdict = "resumable" =>
        /\ past.quit = {}
        /\ \A a \in Attempts \ native :
              /\ Owns(a) => teardown[a].how = "interrupted"
              /\ teardown[a].at \in {"recorded", "over"} => teardown[a].how # "killed"

(***************************************************************************)
(* The slot is the admission of TurnAdmission, a child that runs or may    *)
(* still be launched the work.                                             *)
(***************************************************************************)
Admission == INSTANCE TurnAdmission WITH
    Turns      <- Attempts,
    Nobody     <- NoAttempt,
    OneProcess <- FALSE,
    admitted   <- {a \in Attempts : start[a] # "idle"},
    holder     <- slot.turn,
    working    <- {a \in Attempts : MayLive(a)},
    ending     <- IF status = "closed" THEN "over" ELSE IF closed THEN "closing" ELSE "no"

\* However launches, stops, dropped starts and closes interleave, the session does
\* what both vendors' sessions promise of their turns: no child is left when a turn
\* gives its slot up, and none when the session is reported closed.
ImplementsAdmission == Admission!Spec
=============================================================================
