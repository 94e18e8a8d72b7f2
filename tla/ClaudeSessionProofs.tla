------------------------- MODULE ClaudeSessionProofs -------------------------
(***************************************************************************)
(* Proofs about ClaudeSession, for every number of starts: whoever waits   *)
(* for a stop hears of it, and a child that runs is accounted for; the     *)
(* slot is on its way to be free, the configuration outlives its readers,  *)
(* and a resumable verdict was earned; and the session does what           *)
(* TurnAdmission promises.                                                 *)
(***************************************************************************)
EXTENDS ClaudeSession, TLAPS

Verdicts == {"unknown", "resumable", "unfinished", "unverified"}

-----------------------------------------------------------------------------
(* What the shared operators return.                                       *)

LEMMA TeardownType ==
    ASSUME NEW t \in Teardowns, NEW b \in BOOLEAN
    PROVE  /\ Made(t, b) \in Teardowns
           /\ Started(t, b) \in Teardowns
           /\ Started(Made(t, TRUE), b) \in Teardowns
           /\ Unstarted(t) \in Teardowns
<1>1. \A u \in Teardowns, c \in BOOLEAN : Made(u, c) \in Teardowns
  <2>1. \A u \in Teardowns, c \in BOOLEAN :
          [[u EXCEPT !.at = "idle"] EXCEPT !.taints = c] \in Teardowns
        BY ZenonT(60) DEF Teardowns, Places
  <2>. QED BY <2>1 DEF Made
<1>2. \A u \in Teardowns, c \in BOOLEAN : Started(u, c) \in Teardowns
  <2>1. \A u \in Teardowns, c \in BOOLEAN :
          [[u EXCEPT !.at = "queued"] EXCEPT !.settles = c] \in Teardowns
        BY ZenonT(60) DEF Teardowns, Places
  <2>. QED BY <2>1 DEF Started
<1>3. Unstarted(t) \in Teardowns  BY DEF Unstarted, Teardowns, Places, Outcomes
<1>. QED BY <1>1, <1>2, <1>3

LEMMA NoTeardownType == NoTeardown \in Teardowns
BY DEF NoTeardown, Teardowns, Places, Outcomes

LEMMA StoryType ==
    ASSUME NEW s \in Stories, NEW cause \in {"unfinished", "unverified"}
    PROVE  Tainted(s, cause) \in Stories /\ Refused(s, cause) \in Stories
<1>1. Tainted(s, cause) \in Stories  BY DEF Tainted, Stories
<1>. QED BY <1>1 DEF Refused, Stories

LEMMA UnconfirmedType ==
    ASSUME story \in Stories, NEW a \in Attempts
    PROVE  Unconfirmed(a) \in Stories
BY StoryType DEF Unconfirmed

LEMMA PublishType ==
    ASSUME story' \in Stories, Publish
    PROVE  verdict' \in Verdicts
BY DEF Publish, Verdict, Stories, Verdicts

LEMMA SettleType ==
    ASSUME slot \in Slots, NEW a \in Attempts, Settle(a)
    PROVE  slot' \in Slots
BY DEF Settle, Slots, Free, Named, Owns

LEMMA ReleaseType ==
    ASSUME artifact \in Artifacts, NEW a \in Attempts, NEW b \in BOOLEAN, Release(a, b)
    PROVE  artifact' \in Artifacts
BY DEF Release, Artifacts

LEMMA SlotType ==
    ASSUME slot \in Slots
    PROVE  /\ Free \in Slots
           /\ [slot EXCEPT !.stopped = TRUE] \in Slots
           /\ \A a \in Attempts : /\ [Free EXCEPT !.turn = a] \in Slots
                                  /\ [[Free EXCEPT !.turn = a] EXCEPT !.control = TRUE] \in Slots
BY DEF Slots, Free, Named

LEMMA AnyRelease ==
    ASSUME artifact \in Artifacts, NEW a \in Attempts, NEW p, Release(a, p \in {"ok", "none"})
    PROVE  artifact' \in Artifacts
<1>1. (p \in {"ok", "none"}) \in BOOLEAN  OBVIOUS
<1>. QED BY <1>1, ReleaseType

LEMMA ClaimStopType ==
    ASSUME TypeOK, NEW a \in Attempts, NEW b \in BOOLEAN, story' \in Stories, ClaimStop(a, b)
    PROVE  /\ asked' \in SUBSET Attempts
           /\ teardown' \in [Attempts -> Teardowns]
           /\ verdict' \in Verdicts
<1>1. CASE Owns(a) /\ a \notin asked
  <2>1. teardown' \in [Attempts -> Teardowns]
    <3>1. /\ teardown \in [Attempts -> Teardowns]
          /\ teardown' = [teardown EXCEPT ![a] =
                            IF slot.control /\ teardown[a].at = "none"
                            THEN Started(Made(teardown[a], TRUE), b)
                            ELSE Made(teardown[a], TRUE)]
          BY <1>1 DEF TypeOK, ClaimStop
    <3>2. teardown[a] \in Teardowns  BY <3>1
    <3>. QED BY <3>1, <3>2, TeardownType
  <2>2. asked' \in SUBSET Attempts  BY <1>1 DEF TypeOK, ClaimStop
  <2>. QED BY <1>1, <2>1, <2>2, PublishType DEF ClaimStop
<1>2. CASE ~(Owns(a) /\ a \notin asked)
      BY <1>2 DEF ClaimStop, TypeOK, Verdicts
<1>. QED BY <1>1, <1>2

LEMMA TakeTurnType ==
    ASSUME TypeOK, slot.turn \in Attempts, story' \in Stories, TakeTurn
    PROVE  /\ asked' \in SUBSET Attempts
           /\ teardown' \in [Attempts -> Teardowns]
           /\ verdict' \in Verdicts
<1>1. teardown' \in [Attempts -> Teardowns]
  <2>1. /\ teardown \in [Attempts -> Teardowns]
        /\ teardown' = [teardown EXCEPT ![slot.turn] =
                          IF slot.control THEN Started(Made(teardown[slot.turn], TRUE), FALSE)
                          ELSE Made(teardown[slot.turn], TRUE)]
        BY DEF TypeOK, TakeTurn
  <2>2. teardown[slot.turn] \in Teardowns  BY <2>1
  <2>. QED BY <2>1, <2>2, TeardownType
<1>2. asked' \in SUBSET Attempts  BY DEF TypeOK, TakeTurn
<1>3. verdict' \in Verdicts  BY PublishType DEF TypeOK, TakeTurn, Verdicts
<1>. QED BY <1>1, <1>2, <1>3

LEMMA TerminalTeardownType ==
    ASSUME TypeOK, NEW a \in Attempts, TerminalTeardown(a)
    PROVE  teardown' \in [Attempts -> Teardowns]
<1>1. teardown[a] \in Teardowns /\ (a \notin native) \in BOOLEAN  BY DEF TypeOK
<1>2. Started(Made(teardown[a], a \notin native), FALSE) \in Teardowns
  <2>1. Made(teardown[a], a \notin native) \in Teardowns  BY <1>1, TeardownType
  <2>. QED BY <2>1, TeardownType
<1>. QED BY <1>1, <1>2 DEF TerminalTeardown, TypeOK

LEMMA ForgetType ==
    ASSUME TypeOK, NEW a \in Attempts, Forget(a)
    PROVE  /\ slot' \in Slots /\ story' \in Stories /\ verdict' \in Verdicts
           /\ teardown' \in [Attempts -> Teardowns] /\ artifact' \in Artifacts
<1>1. teardown' \in [Attempts -> Teardowns]
      BY TeardownType DEF TypeOK, Forget
<1>2. slot' \in Slots  BY SlotType DEF TypeOK, Forget
<1>3. story' \in Stories  BY DEF TypeOK, Forget, Stories
<1>4. verdict' \in Verdicts  BY <1>3, PublishType DEF TypeOK, Forget, Verdicts
<1>5. artifact' \in Artifacts  BY ReleaseType DEF TypeOK, Forget
<1>. QED BY <1>1, <1>2, <1>3, <1>4, <1>5

LEMMA RetainType ==
    ASSUME TypeOK, NEW a \in Attempts, Retain(a)
    PROVE  /\ slot' \in Slots /\ story' \in Stories /\ verdict' \in Verdicts
           /\ teardown' \in [Attempts -> Teardowns] /\ artifact' \in Artifacts
<1>1. teardown' \in [Attempts -> Teardowns]
  <2>1. \A t \in Teardowns :
          [t EXCEPT !.at = "over", !.outcome = "owed"] \in Teardowns
        BY DEF Teardowns, Places, Outcomes
  <2>2. teardown[a] \in Teardowns /\ Made(teardown[a], TRUE) \in Teardowns
        BY TeardownType DEF TypeOK
  <2>. QED BY <2>1, <2>2 DEF TypeOK, Retain
<1>2. slot' \in Slots  BY DEF TypeOK, Retain
<1>3. story' \in Stories  BY StoryType DEF TypeOK, Retain
<1>4. verdict' \in Verdicts  BY <1>3, PublishType DEF Retain
<1>5. artifact' \in Artifacts  BY ReleaseType DEF TypeOK, Retain
<1>. QED BY <1>1, <1>2, <1>3, <1>4, <1>5

-----------------------------------------------------------------------------
(* Every action keeps the types.                                           *)

LEMMA AdmitType ==
    ASSUME TypeOK, NEW a \in Attempts, Admit(a)
    PROVE  TypeOK'
<1>1. story' \in Stories
      BY DEF Admit, TypeOK, Stories, stored, stops, closing, starts
<1>2. slot' \in Slots
      BY DEF Admit, TypeOK, Slots, Free, Named, stored, stops, closing, starts
<1>3. artifact' \in Artifacts
      BY DEF Admit, TypeOK, Artifacts, stored, stops, closing, starts
<1>4. verdict' \in Verdicts
      BY <1>1, PublishType DEF Admit, stored, stops, closing, starts
<1>. QED BY <1>1, <1>2, <1>3, <1>4 DEF Admit, TypeOK, Verdicts, hostSide, closing, stops,
    starts, reads, stored

LEMMA LauncherReturnsType ==
    ASSUME TypeOK, NEW a \in Attempts, LauncherReturns(a)
    PROVE  TypeOK'
BY DEF LauncherReturns, TypeOK, Verdicts, hostSide, closing, stops, starts, reads, stored

LEMMA StartFailsType ==
    ASSUME TypeOK, NEW a \in Attempts, StartFails(a)
    PROVE  TypeOK'
<1>1. slot' \in Slots /\ story' \in Stories /\ verdict' \in Verdicts
        /\ teardown' \in [Attempts -> Teardowns] /\ artifact' \in Artifacts
      BY ForgetType, RetainType DEF StartFails, stored, stops, closing, starts
<1>. QED BY <1>1 DEF StartFails, TypeOK, Verdicts, hostSide, closing, stops, starts, reads,
     stored

LEMMA InstallType ==
    ASSUME TypeOK, NEW a \in Attempts, Install(a)
    PROVE  TypeOK'
<1>1. slot' \in Slots
      BY SlotType DEF Install, TypeOK, stored, stops, closing, starts
<1>2. teardown[a] \in Teardowns
      BY DEF TypeOK, stored, stops, closing, starts
<1>3. teardown' \in [Attempts -> Teardowns]
      BY <1>2, TeardownType, NoTeardownType, ZenonT(60) DEF Install, TypeOK, stored, stops,
         closing, starts
<1>. QED BY <1>1, <1>2, <1>3 DEF Install, TypeOK, Verdicts, hostSide, closing, stops, starts,
    reads, stored

LEMMA StartStoppedType ==
    ASSUME TypeOK, NEW a \in Attempts, StartStopped(a)
    PROVE  TypeOK'
<1>1. slot' \in Slots
      BY SettleType DEF StartStopped, TypeOK, stored, stops, closing, starts
<1>2. artifact' \in Artifacts
      BY AnyRelease DEF StartStopped, TypeOK, stored, stops, closing, starts
<1>. QED BY <1>1, <1>2 DEF StartStopped, TypeOK, Verdicts, hostSide, closing, stops, starts,
    reads, stored

LEMMA ReleaseLeaseType ==
    ASSUME TypeOK, NEW a \in Attempts, ReleaseLease(a)
    PROVE  TypeOK'
<1>1. artifact' \in Artifacts
      BY ReleaseType DEF ReleaseLease, TypeOK, stored, stops, closing, starts
<1>. QED BY <1>1 DEF ReleaseLease, TypeOK, Verdicts, hostSide, closing, stops, starts, reads,
    stored

LEMMA RecheckType ==
    ASSUME TypeOK, NEW a \in Attempts, Recheck(a)
    PROVE  TypeOK'
<1>1. slot' \in Slots
      BY SettleType DEF Recheck, TypeOK, stored, stops, closing, starts
<1>. QED BY <1>1 DEF Recheck, TypeOK, Verdicts, hostSide, closing, stops, starts, reads, stored

LEMMA HandOverType ==
    ASSUME TypeOK, NEW a \in Attempts, HandOver(a)
    PROVE  TypeOK'
<1>1. asked' \in SUBSET Attempts /\ teardown' \in [Attempts -> Teardowns]
        /\ verdict' \in Verdicts
      BY ClaimStopType DEF HandOver, TypeOK, Verdicts, stored, stops, closing, starts
<1>. QED BY <1>1 DEF HandOver, TypeOK, Verdicts, hostSide, closing, stops, starts, reads,
    stored, PumpAt, PumpPlaces

LEMMA StartRefusedType ==
    ASSUME TypeOK, NEW a \in Attempts, StartRefused(a)
    PROVE  TypeOK'
<1>1. slot' \in Slots
      BY SettleType DEF StartRefused, TypeOK, stored, stops, closing, starts
<1>. QED BY <1>1 DEF StartRefused, TypeOK, Verdicts, hostSide, closing, stops, starts, reads,
    stored

LEMMA DropStartType ==
    ASSUME TypeOK, NEW a \in Attempts, DropStart(a)
    PROVE  TypeOK'
<1>1. teardown[a] \in Teardowns
      BY DEF TypeOK, stored, stops, closing, starts
<1>2. Made(teardown[a], TRUE) \in Teardowns /\ teardown \in [Attempts -> Teardowns]
      BY <1>1, TeardownType DEF TypeOK, stored, stops, closing, starts
<1>3. \/ teardown' = [teardown EXCEPT ![a] = Made(teardown[a], TRUE)]
      \/ teardown' = teardown
      BY DEF DropStart, stored, stops, closing, starts
<1>4. teardown' \in [Attempts -> Teardowns]
      BY <1>1, <1>2, <1>3
<1>5. late' \in [Attempts -> {"none", "waiting", "holding", "stopping", "over"}]
      BY DEF DropStart, TypeOK, stored, stops, closing, starts
<1>6. artifact' \in Artifacts
      BY ReleaseType DEF DropStart, TypeOK, stored, stops, closing, starts
<1>7. verdict' \in Verdicts
      BY PublishType DEF DropStart, TypeOK, Verdicts, stored, stops, closing, starts
<1>8. slot' \in Slots /\ story' \in Stories /\ asked' \in SUBSET Attempts
  <2>1. slot \in Slots /\ story \in Stories /\ asked \in SUBSET Attempts  BY DEF TypeOK
  <2>2. slot' = slot /\ story' = story  BY DEF DropStart, stored
  <2>3. asked' = asked \cup {a} \/ asked' = asked  BY DEF DropStart
  <2>. QED BY <2>1, <2>2, <2>3
<1>9. start' \in [Attempts -> {"idle", "launching", "stopping", "releasing",
                               "starting", "refusing", "over"}]
      BY DEF DropStart, TypeOK
<1>10. UNCHANGED <<dropped, shutdown, runtime, closing, launch, reads, child>>  BY DEF DropStart
<1>11. past' \in Pasts
  <2>1. past \in Pasts  BY DEF TypeOK
  <2>2. \A p \in Pasts, s, u \in SUBSET Attempts :
          [[p EXCEPT !.abandoned = s] EXCEPT !.blind = u] \in Pasts
        BY DEF Pasts
  <2>3. PICK u \in {past.blind \cup {a}, past.blind} :
          past' = [[past EXCEPT !.abandoned = past.abandoned \cup {a}] EXCEPT !.blind = u]
        BY <2>1 DEF DropStart, Pasts
  <2>4. past.abandoned \cup {a} \in SUBSET Attempts /\ u \in SUBSET Attempts
        BY <2>1, <2>3 DEF Pasts
  <2>. QED BY <2>1, <2>2, <2>3, <2>4
<1>. QED BY <1>4, <1>5, <1>6, <1>7, <1>8, <1>9, <1>10, <1>11
         DEF TypeOK, Verdicts, closing, reads

LEMMA LateLaunchType ==
    ASSUME TypeOK, NEW a \in Attempts, LateLaunch(a)
    PROVE  TypeOK'
<1>1. slot' \in Slots /\ story' \in Stories /\ verdict' \in Verdicts
        /\ teardown' \in [Attempts -> Teardowns] /\ artifact' \in Artifacts
      BY ForgetType, RetainType DEF LateLaunch, TypeOK, stored, Verdicts, stops, closing, starts
<1>. QED BY <1>1 DEF LateLaunch, TypeOK, Verdicts, hostSide, closing, stops, starts, reads,
     stored

LEMMA LateStopType ==
    ASSUME TypeOK, NEW a \in Attempts, LateStop(a)
    PROVE  TypeOK'
<1>1. teardown' \in [Attempts -> Teardowns]
      BY TeardownType DEF LateStop, TypeOK, stored, stops, closing, starts
<1>. QED BY <1>1 DEF LateStop, TypeOK, Verdicts, hostSide, closing, stops, starts, reads, stored

LEMMA LateStoppedType ==
    ASSUME TypeOK, NEW a \in Attempts, LateStopped(a)
    PROVE  TypeOK'
<1>1. slot' \in Slots
      BY SettleType DEF LateStopped, TypeOK, stored, stops, closing, starts
<1>2. artifact' \in Artifacts
      BY AnyRelease DEF LateStopped, TypeOK, stored, stops, closing, starts
<1>. QED BY <1>1, <1>2 DEF LateStopped, TypeOK, Verdicts, hostSide, closing, stops, starts,
    reads, stored

LEMMA LoseLateType ==
    ASSUME TypeOK, NEW a \in Attempts, LoseLate(a)
    PROVE  TypeOK'
<1>1. teardown[a] \in Teardowns
      BY DEF TypeOK, stored, stops, closing, starts
<1>2. \A o \in Outcomes : [teardown[a] EXCEPT !.outcome = o] \in Teardowns
      BY <1>1 DEF Teardowns, Places, Outcomes, Loss, stored, stops, closing, starts
<1>3. teardown' \in [Attempts -> Teardowns]
      BY <1>1, <1>2 DEF LoseLate, TypeOK, Outcomes, Loss, stored, stops, closing, starts
<1>4. story' \in Stories
      BY StoryType DEF LoseLate, TypeOK, stored, stops, closing, starts
<1>5. artifact' \in Artifacts
      BY ReleaseType DEF LoseLate, TypeOK, stored, stops, closing, starts
<1>6. verdict' \in Verdicts
      BY <1>4, PublishType DEF LoseLate, stored, stops, closing, starts
<1>. QED BY <1>1, <1>2, <1>3, <1>4, <1>5, <1>6 DEF LoseLate, TypeOK, Verdicts, hostSide,
    closing, stops, starts, reads, stored

LEMMA AskStopType ==
    ASSUME TypeOK, NEW a \in Attempts, AskStop(a)
    PROVE  TypeOK'
<1>1. teardown[a] \in Teardowns
      BY DEF TypeOK, stored, stops, closing, starts
<1>2. \A b \in BOOLEAN : [[teardown[a] EXCEPT !.at = "stopping"] EXCEPT !.exited = b] \in Teardowns
      BY <1>1 DEF Teardowns, Places, Outcomes, Loss, stored, stops, closing, starts
<1>3. (child[a] \in {"exited", "gone"}) \in BOOLEAN
      OBVIOUS
<1>4. teardown' \in [Attempts -> Teardowns]
      BY <1>1, <1>2, <1>3 DEF AskStop, TypeOK, stored, stops, closing, starts
<1>. QED BY <1>1, <1>2, <1>3, <1>4 DEF AskStop, TypeOK, Verdicts, hostSide, closing, stops,
    starts, reads, stored

LEMMA StopReturnsType ==
    ASSUME TypeOK, NEW a \in Attempts, StopReturns(a)
    PROVE  TypeOK'
<1>1. teardown[a] \in Teardowns
      BY DEF TypeOK, stored, stops, closing, starts
<1>2. \A how \in {"interrupted", "killed", "failed"}, b \in BOOLEAN :
        [[[teardown[a] EXCEPT !.at = "stopped"] EXCEPT !.how = how] EXCEPT !.proven = b] \in Teardowns
      BY <1>1 DEF Teardowns, Places, Outcomes, Loss, stored, stops, closing, starts
<1>3. \A how : (how # "failed") \in BOOLEAN
      OBVIOUS
<1>4. teardown' \in [Attempts -> Teardowns]
  <2>1. PICK how \in {"interrupted", "killed", "failed"} :
          teardown' = [teardown EXCEPT ![a].at = "stopped", ![a].how = how,
                                       ![a].proven = how # "failed"]
        BY DEF StopReturns
  <2>2. teardown' = [teardown EXCEPT ![a] =
            [[[teardown[a] EXCEPT !.at = "stopped"] EXCEPT !.how = how]
                EXCEPT !.proven = (how # "failed")]]
        BY <2>1 DEF TypeOK
  <2>. QED BY <1>2, <1>3, <2>2 DEF TypeOK
<1>5. child' \in [Attempts -> {"none", "live", "exited", "gone"}]
      BY DEF StopReturns, TypeOK, stored, stops, closing, starts
<1>. QED BY <1>1, <1>2, <1>3, <1>4, <1>5 DEF StopReturns, TypeOK, Verdicts, hostSide, closing,
    stops, starts, reads, stored

LEMMA RecordStopType ==
    ASSUME TypeOK, NEW a \in Attempts, RecordStop(a)
    PROVE  TypeOK'
<1>1. teardown' \in [Attempts -> Teardowns]
      BY DEF RecordStop, TypeOK, Teardowns, Places, stored, stops, closing, starts
<1>2. slot' \in Slots
      BY SlotType DEF RecordStop, TypeOK, stored, stops, closing, starts
<1>3. \A s \in Stories, u \in Teardowns : Ended(u, s) \in Stories
      BY StoryType DEF Ended, Stories, stored, stops, closing, starts
<1>4. \A s \in Stories, u \in Teardowns : Noted(u, s) \in Stories
      BY StoryType DEF Noted
<1>5. story' \in Stories
      BY <1>3, <1>4, StoryType DEF RecordStop, TypeOK
<1>6. verdict' \in Verdicts
      BY <1>5, PublishType DEF RecordStop, stored, stops, closing, starts
<1>7. past' \in Pasts
  <2>1. past \in Pasts  BY DEF TypeOK
  <2>2. \A q \in SUBSET Attempts : [past EXCEPT !.quit = q] \in Pasts
        BY <2>1 DEF Pasts
  <2>3. PICK q \in {past.quit \cup {a}, past.quit} : past' = [past EXCEPT !.quit = q]
        BY DEF RecordStop
  <2>. QED BY <2>1, <2>2, <2>3 DEF Pasts
<1>. QED BY <1>1, <1>2, <1>5, <1>6, <1>7 DEF RecordStop, TypeOK, Verdicts, closing,
    stops, starts, reads, stored

LEMMA PublishOutcomeType ==
    ASSUME TypeOK, NEW a \in Attempts, PublishOutcome(a)
    PROVE  TypeOK'
<1>1. teardown[a] \in Teardowns
      BY DEF TypeOK, stored, stops, closing, starts
<1>2. \A o \in Outcomes : [[teardown[a] EXCEPT !.at = "over"] EXCEPT !.outcome = o] \in Teardowns
      BY <1>1 DEF Teardowns, Places, Outcomes, Loss, stored, stops, closing, starts
<1>3. teardown' \in [Attempts -> Teardowns]
      BY <1>1, <1>2 DEF PublishOutcome, TypeOK, Outcomes, stored, stops, closing, starts
<1>. QED BY <1>1, <1>2, <1>3 DEF PublishOutcome, TypeOK, Verdicts, hostSide, closing, stops,
    starts, reads, stored

LEMMA LoseWorkerType ==
    ASSUME TypeOK, NEW a \in Attempts, LoseWorker(a)
    PROVE  TypeOK'
<1>1. teardown[a] \in Teardowns
      BY DEF TypeOK, stored, stops, closing, starts
<1>2. \A o \in Outcomes : [[teardown[a] EXCEPT !.at = "over"] EXCEPT !.outcome = o] \in Teardowns
      BY <1>1 DEF Teardowns, Places, Outcomes, Loss, stored, stops, closing, starts
<1>3. teardown[a].outcome \in Outcomes /\ Loss(a, TRUE) \in Outcomes
      BY <1>1 DEF Teardowns, Outcomes, Loss, stored, stops, closing, starts
<1>4. teardown' \in [Attempts -> Teardowns]
      BY <1>1, <1>2, <1>3 DEF LoseWorker, TypeOK, stored, stops, closing, starts
<1>5. story' \in Stories
      BY StoryType DEF LoseWorker, TypeOK, stored, stops, closing, starts
<1>6. verdict' \in Verdicts
      BY <1>5, PublishType DEF LoseWorker, stored, stops, closing, starts
<1>. QED BY <1>1, <1>2, <1>3, <1>4, <1>5, <1>6 DEF LoseWorker, TypeOK, Verdicts, hostSide,
    closing, stops, starts, reads, stored

LEMMA PromptedType ==
    ASSUME TypeOK, NEW a \in Attempts, Prompted(a)
    PROVE  TypeOK'
BY DEF Prompted, TypeOK, Verdicts, hostSide, closing, stops, starts, reads, stored, PumpAt,
    PumpPlaces

LEMMA PumpStoppedType ==
    ASSUME TypeOK, NEW a \in Attempts, PumpStopped(a)
    PROVE  TypeOK'
BY DEF PumpStopped, TypeOK, Verdicts, hostSide, closing, stops, starts, reads, stored, PumpAt,
    PumpPlaces

LEMMA PumpShutsType ==
    ASSUME TypeOK, NEW a \in Attempts, PumpShuts(a)
    PROVE  TypeOK'
<1>1. asked' \in SUBSET Attempts /\ teardown' \in [Attempts -> Teardowns]
        /\ verdict' \in Verdicts
      BY ClaimStopType DEF PumpShuts, TypeOK, Verdicts, stored, stops, closing, starts
<1>. QED BY <1>1 DEF PumpShuts, TypeOK, Verdicts, hostSide, closing, stops, starts, reads,
    stored, PumpAt, PumpPlaces

LEMMA PumpAbandonsType ==
    ASSUME TypeOK, NEW a \in Attempts, PumpAbandons(a)
    PROVE  TypeOK'
<1>1. asked' \in SUBSET Attempts /\ teardown' \in [Attempts -> Teardowns]
        /\ verdict' \in Verdicts
      BY ClaimStopType DEF PumpAbandons, TypeOK, stored, stops, closing, starts
<1>. QED BY <1>1 DEF PumpAbandons, TypeOK, Verdicts, hostSide, closing, stops, starts, reads,
    stored, PumpAt, PumpPlaces

LEMMA EventRefusedType ==
    ASSUME TypeOK, NEW a \in Attempts, EventRefused(a)
    PROVE  TypeOK'
<1>1. story' \in Stories
      BY StoryType DEF EventRefused, TypeOK
<1>2. verdict' \in Verdicts
      BY <1>1, PublishType DEF EventRefused
<1>. QED BY <1>1, <1>2 DEF EventRefused, TypeOK, Verdicts, hostSide, closing, stops, starts,
    stored, PumpAt, PumpPlaces

LEMMA PumpAbandonedType ==
    ASSUME TypeOK, NEW a \in Attempts, PumpAbandoned(a)
    PROVE  TypeOK'
<1>1. slot' \in Slots
      BY SettleType DEF PumpAbandoned, TypeOK, stored, stops, closing, starts
<1>. QED BY <1>1 DEF PumpAbandoned, TypeOK, Verdicts, hostSide, closing, stops, starts, reads,
    stored, PumpAt, PumpPlaces

LEMMA ReadInitType ==
    ASSUME TypeOK, NEW a \in Attempts, ReadInit(a)
    PROVE  TypeOK'
<1>1. \A b \in BOOLEAN,
    c \in BOOLEAN : [[story EXCEPT !.established = b] EXCEPT !.pending = c] \in Stories
      BY DEF TypeOK, Stories, stored, stops, closing, starts
<1>2. story' \in Stories
      BY <1>1, UnconfirmedType DEF ReadInit, TypeOK, stored, stops, closing, starts
<1>3. verdict' \in Verdicts
      BY <1>2, PublishType DEF ReadInit, TypeOK, Verdicts, stored, stops, closing, starts
<1>. QED BY <1>1, <1>2, <1>3 DEF ReadInit, TypeOK, Verdicts, hostSide, closing, stops, starts,
    reads, stored, PumpAt, PumpPlaces

LEMMA ReadResultType ==
    ASSUME TypeOK, NEW a \in Attempts, ReadResult(a)
    PROVE  TypeOK'
<1>1. \A c \in {"none", "unfinished", "unverified"} :
        [[story EXCEPT !.finished = TRUE] EXCEPT !.taint = c] \in Stories
      BY DEF TypeOK, Stories, stored, stops, closing, starts
<1>2. story.taint \in {"none", "unfinished", "unverified"}
      BY DEF TypeOK, Stories, stored, stops, closing, starts
<1>3. story' \in Stories
      BY <1>1, <1>2, UnconfirmedType DEF ReadResult, TypeOK, stored, stops, closing, starts
<1>4. verdict' \in Verdicts
      BY <1>3, PublishType DEF ReadResult, stored, stops, closing, starts
<1>5. past' \in Pasts
      BY DEF ReadResult, TypeOK, Pasts
<1>. QED BY <1>3, <1>4, <1>5 DEF ReadResult, TypeOK, Verdicts, closing, stops,
    starts, stored, PumpAt, PumpPlaces

LEMMA ReapEarlyType ==
    ASSUME TypeOK, NEW a \in Attempts, ReapEarly(a)
    PROVE  TypeOK'
<1>1. teardown' \in [Attempts -> Teardowns]
      BY TerminalTeardownType DEF ReapEarly, TypeOK, stored, stops, closing, starts
<1>. QED BY <1>1 DEF ReapEarly, TypeOK, Verdicts, hostSide, closing, stops, starts, reads,
    stored, PumpAt, PumpPlaces

LEMMA ReportedType ==
    ASSUME TypeOK, NEW a \in Attempts, Reported(a)
    PROVE  TypeOK'
BY DEF Reported, TypeOK, Verdicts, hostSide, closing, stops, starts, reads, stored, PumpAt,
    PumpPlaces

LEMMA ReadEndsType ==
    ASSUME TypeOK, NEW a \in Attempts, ReadEnds(a)
    PROVE  TypeOK'
<1>1. story' \in Stories
      BY UnconfirmedType DEF ReadEnds, TypeOK, stored, stops, closing, starts
<1>2. verdict' \in Verdicts
      BY <1>1, PublishType DEF ReadEnds, TypeOK, Verdicts, stored, stops, closing, starts
<1>. QED BY <1>1, <1>2 DEF ReadEnds, TypeOK, Verdicts, hostSide, closing, stops, starts, reads,
    stored, PumpAt, PumpPlaces

LEMMA FinishType ==
    ASSUME TypeOK, NEW a \in Attempts, Finish(a)
    PROVE  TypeOK'
<1>1. story' \in Stories
      BY StoryType DEF Finish, TypeOK, stored, stops, closing, starts
<1>2. verdict' \in Verdicts
      BY <1>1, PublishType DEF Finish, TypeOK, stored, Verdicts, stops, closing, starts
<1>. QED BY <1>1, <1>2 DEF Finish, TypeOK, Verdicts, hostSide, closing, stops, starts, reads,
    stored, PumpAt, PumpPlaces

LEMMA ReapType ==
    ASSUME TypeOK, NEW a \in Attempts, Reap(a)
    PROVE  TypeOK'
<1>1. slot' \in Slots /\ teardown' \in [Attempts -> Teardowns]
      BY SettleType, TerminalTeardownType DEF Reap, TypeOK, stored, stops, closing, starts
<1>. QED BY <1>1 DEF Reap, TypeOK, Verdicts, hostSide, closing, stops, starts, reads, stored,
    PumpAt, PumpPlaces

LEMMA ReapedType ==
    ASSUME TypeOK, NEW a \in Attempts, Reaped(a)
    PROVE  TypeOK'
<1>1. slot' \in Slots
      BY SettleType DEF Reaped, TypeOK, stored, stops, closing, starts
<1>. QED BY <1>1 DEF Reaped, TypeOK, Verdicts, hostSide, closing, stops, starts, reads, stored,
    PumpAt, PumpPlaces

LEMMA ChildExitsType ==
    ASSUME TypeOK, NEW a \in Attempts, ChildExits(a)
    PROVE  TypeOK'
BY DEF ChildExits, TypeOK, Verdicts, hostSide, closing, stops, starts, reads, stored

LEMMA StreamDroppedType ==
    ASSUME TypeOK, NEW a \in Attempts, StreamDropped(a)
    PROVE  TypeOK'
BY DEF StreamDropped, TypeOK, Verdicts, hostSide, closing, stops, starts, reads, stored

LEMMA RuntimeEndsType ==
    ASSUME TypeOK, RuntimeEnds
    PROVE  TypeOK'
BY DEF RuntimeEnds, TypeOK, Verdicts, hostSide, closing, stops, starts, reads, stored

LEMMA HostShutsDownType ==
    ASSUME TypeOK, HostShutsDown
    PROVE  TypeOK'
BY DEF HostShutsDown, TypeOK, Verdicts, hostSide, closing, stops, starts, reads, stored

LEMMA CancelType ==
    ASSUME TypeOK, Cancel
    PROVE  TypeOK'
<1>1. asked' \in SUBSET Attempts /\ teardown' \in [Attempts -> Teardowns]
        /\ verdict' \in Verdicts
      BY ClaimStopType DEF Cancel, TypeOK, Slots, Named, stored, stops, closing, starts
<1>. QED BY <1>1 DEF Cancel, TypeOK, Verdicts, hostSide, closing, stops, starts, reads, stored

LEMMA DropSessionType ==
    ASSUME TypeOK, DropSession
    PROVE  TypeOK'
<1>1. asked' \in SUBSET Attempts /\ teardown' \in [Attempts -> Teardowns]
        /\ verdict' \in Verdicts
      BY TakeTurnType DEF DropSession, TypeOK, Verdicts, stored, stops, closing, starts
<1>. QED BY <1>1 DEF DropSession, TypeOK, Verdicts, hostSide, closing, stops, starts, reads,
    stored

LEMMA CloseType ==
    ASSUME TypeOK, Close
    PROVE  TypeOK'
<1>1. asked' \in SUBSET Attempts /\ teardown' \in [Attempts -> Teardowns]
        /\ verdict' \in Verdicts
      BY TakeTurnType DEF Close, TypeOK, Verdicts, Slots, Named, stored, stops, closing, starts
<1>2. closer' \in Closers
      BY DEF Close, TypeOK, Closers, Slots, stored, stops, closing, starts
<1>3. artifact' \in Artifacts
      BY DEF Close, TypeOK, Artifacts, stored, stops, closing, starts
<1>. QED BY <1>1, <1>2, <1>3 DEF Close, TypeOK, Verdicts, hostSide, closing, stops, starts,
    reads, stored

LEMMA CloserStoppedType ==
    ASSUME TypeOK, CloserStopped
    PROVE  TypeOK'
<1>1. closer' \in Closers
      BY ZenonT(60) DEF CloserStopped, CloserAt, TypeOK, Closers, Outcomes, stored, stops,
         closing, starts
<1>2. artifact' \in Artifacts
      BY DEF CloserStopped, TypeOK, Artifacts, stored, stops, closing, starts
<1>. QED BY <1>1, <1>2 DEF CloserStopped, TypeOK, Verdicts, hostSide, closing, stops, starts,
    reads, stored

LEMMA CloserGivesUpType ==
    ASSUME TypeOK, CloserGivesUp
    PROVE  TypeOK'
<1>1. closer' \in Closers
      BY DEF CloserGivesUp, CloserAt, TypeOK, Closers, Outcomes, stored, stops, closing, starts
<1>2. artifact' \in Artifacts
      BY DEF CloserGivesUp, TypeOK, Artifacts, stored, stops, closing, starts
<1>. QED BY <1>1, <1>2 DEF CloserGivesUp, TypeOK, Verdicts, hostSide, closing, stops, starts,
    reads, stored

LEMMA CloserRemovedType ==
    ASSUME TypeOK, CloserRemoved
    PROVE  TypeOK'
<1>1. closer' \in Closers
      BY ZenonT(60) DEF CloserRemoved, CloserAt, TypeOK, Closers, Outcomes, stored, stops,
         closing, starts
<1>2. artifact' \in Artifacts
      BY DEF CloserRemoved, TypeOK, Artifacts, stored, stops, closing, starts
<1>. QED BY <1>1, <1>2 DEF CloserRemoved, TypeOK, Verdicts, hostSide, closing, stops, starts,
    reads, stored

LEMMA LoseCloserType ==
    ASSUME TypeOK, LoseCloser
    PROVE  TypeOK'
<1>1. closer' \in Closers
      BY DEF LoseCloser, CloserAt, TypeOK, Closers, Outcomes, stored, stops, closing, starts
<1>2. artifact' \in Artifacts
      BY ZenonT(60) DEF LoseCloser, TypeOK, Artifacts, stored, stops, closing, starts
<1>. QED BY <1>1, <1>2 DEF LoseCloser, TypeOK, Verdicts, hostSide, closing, stops, starts,
    reads, stored

LEMMA CloseAgainType ==
    ASSUME TypeOK, CloseAgain
    PROVE  TypeOK'
<1>1. closer' \in Closers
      BY DEF CloseAgain, CloserAt, TypeOK, Closers, Outcomes, stored, stops, closing, starts
<1>2. artifact' \in Artifacts
      BY DEF CloseAgain, TypeOK, Artifacts, stored, stops, closing, starts
<1>. QED BY <1>1, <1>2 DEF CloseAgain, TypeOK, Verdicts, hostSide, closing, stops, starts,
    reads, stored

-----------------------------------------------------------------------------
(* The invariant.                                                          *)

\* The worker of this stop has not published yet.
Running(a) == teardown[a].at \in {"queued", "stopping", "stopped", "recorded"}

\* Somebody will give this stop an outcome.
Answering(a) ==
    \/ Running(a)
    \/ start[a] \in {"launching", "stopping"}
    \/ late[a] \in {"waiting", "holding", "stopping"}

\* StopHasAnAnswerer, of one attempt.
Heard(a) ==
    teardown[a].at # "none" /\ teardown[a].outcome = "none" => Answering(a)

\* Whose an attempt is: its start, then its abandoned start or its pump.
Stages(a) ==
    /\ start[a] = "idle" =>
          /\ ~Owns(a) /\ launch[a] = "none"
          /\ teardown[a].at = "none" /\ teardown[a].outcome = "none" /\ ~teardown[a].proven
    /\ start[a] \in {"stopping", "releasing", "starting", "refusing"} => launch[a] = "read"
    /\ late[a] \in {"holding", "stopping"} \/ pump[a] # "none" => launch[a] = "read"
    /\ late[a] # "none" => start[a] = "over"
    /\ pump[a] # "none" => start[a] = "over" /\ late[a] = "none"

\* Until its launch is read an attempt keeps its slot and has no worker.
Launching(a) ==
    /\ launch[a] \in {"pending", "child", "bare", "owed"} =>
          /\ Owns(a) /\ ~slot.control /\ ~slot.stopped
          /\ teardown[a].at \in {"none", "idle"}
    /\ start[a] = "launching" \/ late[a] = "waiting" =>
          launch[a] \in {"pending", "child", "bare", "owed"} /\ teardown[a].outcome = "none"

\* What a stop has come to goes with its outcome and with the slot.
Stopping(a) ==
    /\ teardown[a].at = "over" => teardown[a].outcome # "none"
    /\ teardown[a].at = "idle" => Owns(a)
    /\ Owns(a) /\ slot.stopped => teardown[a].at \in {"recorded", "over"}
    /\ Owns(a) /\ (start[a] = "stopping" \/ late[a] = "stopping") =>
          teardown[a].at \notin {"none", "idle"}

\* A turn without a child, and a turn of a closed session, is being stopped.
Bare(a) ==
    Owns(a) =>
        /\ ~slot.control => Answering(a) \/ teardown[a].outcome # "none"
        /\ closed => a \in asked

\* A child that runs holds the slot, and is gone once a stop has proved it.
Runs(a) == child[a] \in {"live", "exited"}

Kept(a) ==
    /\ Runs(a) => Owns(a) /\ launch[a] \notin {"none", "pending", "bare"}
    /\ Owns(a) /\ slot.stopped => ~Runs(a)
    /\ teardown[a].at \in {"stopped", "recorded"} => teardown[a].how = "failed" \/ ~Runs(a)
    /\ teardown[a].proven => ~MayLive(a)
    /\ teardown[a].outcome = "ok" => ~MayLive(a)

\* A close knows the turn it found, and closes over no child.
Closing(a) ==
    /\ closed /\ Owns(a) => closer.on = a
    /\ closer.at = "removing" \/ closer.proven => (closer.on = a => ~MayLive(a))
    /\ status = "closed" => closed /\ ~MayLive(a)

\* The lifecycle is closed by the close that leaves a worker.
CloserInv ==
    /\ closed <=> closer.at # "none"
    /\ closer.proven => closed

Each(a) ==
    Heard(a) /\ Stages(a) /\ Launching(a) /\ Stopping(a) /\ Bare(a) /\ Kept(a) /\ Closing(a)

IInv == TypeOK /\ CloserInv /\ \A a \in Attempts : Each(a)

-----------------------------------------------------------------------------
(* What becomes of a stop, field by field.                                  *)

Same(t, u) == t.outcome = u.outcome /\ t.proven = u.proven /\ t.how = u.how

LEMMA MadeFields ==
    ASSUME NEW t \in Teardowns, NEW b
    PROVE  /\ Same(Made(t, b), t)
           /\ Made(t, b).at = IF t.at = "none" THEN "idle" ELSE t.at
BY DEF Made, Same, Teardowns

LEMMA StartedFields ==
    ASSUME NEW t \in Teardowns, NEW b
    PROVE  /\ Same(Started(t, b), t)
           /\ Started(t, b).at = IF t.at = "idle" THEN "queued" ELSE t.at
BY DEF Started, Same, Teardowns

LEMMA MadeStartedFields ==
    ASSUME NEW t \in Teardowns, NEW b \in BOOLEAN, NEW c \in BOOLEAN
    PROVE  /\ Same(Started(Made(t, b), c), t)
           /\ Started(Made(t, b), c).at = IF t.at \in {"none", "idle"} THEN "queued" ELSE t.at
<1>1. Made(t, b) \in Teardowns  BY TeardownType
<1>. QED BY <1>1, MadeFields, StartedFields DEF Same

LEMMA UnstartedFields ==
    ASSUME NEW t \in Teardowns
    PROVE  t.at \in {"none", "idle"} =>
             /\ Unstarted(t).proven = t.proven /\ Unstarted(t).how = t.how
             /\ t.at = "none" => Unstarted(t) = t
             /\ t.at = "idle" => Unstarted(t).at = "over" /\ Unstarted(t).outcome = "ok"
BY DEF Unstarted, Teardowns

\* Nobody but a is touched.
OnlyOf(a) ==
    \A y \in Attempts \ {a} :
        /\ teardown'[y] = teardown[y] /\ start'[y] = start[y] /\ launch'[y] = launch[y]
        /\ late'[y] = late[y] /\ pump'[y] = pump[y] /\ child'[y] = child[y]

-----------------------------------------------------------------------------
(* What leaves the slot, the stops, the starts and the children alone.      *)

LEMMA Quiet ==
    ASSUME IInv, TypeOK',
           UNCHANGED <<closed, status, closer, slot, asked, teardown, start, launch, late,
               child>>,
           \A x \in Attempts : pump'[x] # "none" => pump[x] # "none"
    PROVE  IInv'
<1>1. CloserInv'  BY DEF IInv, CloserInv
<1>2. ASSUME NEW x \in Attempts PROVE Each(x)'
  <2>1. Each(x)  BY DEF IInv
  <2>. QED BY <2>1 DEF Each, Heard, Answering, Running, Stages, Launching, Stopping, Bare, Kept,
      Runs, Closing, MayLive, Owns
<1>. QED BY <1>1, <1>2 DEF IInv

LEMMA ReleaseLeaseKeeps ==
    ASSUME IInv, NEW a \in Attempts, ReleaseLease(a)
    PROVE  IInv'
<1>1. TypeOK'  BY ReleaseLeaseType DEF IInv
<1>2. UNCHANGED <<closed, status, closer, slot, asked, teardown, start, launch, late, child>>
      BY DEF ReleaseLease, closing, stops, starts
<1>3. \A x \in Attempts : pump'[x] # "none" => pump[x] # "none"
      BY DEF ReleaseLease, IInv, TypeOK, PumpAt, reads
<1>. QED BY <1>1, <1>2, <1>3, Quiet

LEMMA PromptedKeeps ==
    ASSUME IInv, NEW a \in Attempts, Prompted(a)
    PROVE  IInv'
<1>1. TypeOK'  BY PromptedType DEF IInv
<1>2. UNCHANGED <<closed, status, closer, slot, asked, teardown, start, launch, late, child>>
      BY DEF Prompted, closing, stops, starts
<1>3. \A x \in Attempts : pump'[x] # "none" => pump[x] # "none"
      BY DEF Prompted, IInv, TypeOK, PumpAt, reads
<1>. QED BY <1>1, <1>2, <1>3, Quiet

LEMMA PumpStoppedKeeps ==
    ASSUME IInv, NEW a \in Attempts, PumpStopped(a)
    PROVE  IInv'
<1>1. TypeOK'  BY PumpStoppedType DEF IInv
<1>2. UNCHANGED <<closed, status, closer, slot, asked, teardown, start, launch, late, child>>
      BY DEF PumpStopped, closing, stops, starts
<1>3. \A x \in Attempts : pump'[x] # "none" => pump[x] # "none"
      BY DEF PumpStopped, IInv, TypeOK, PumpAt, reads
<1>. QED BY <1>1, <1>2, <1>3, Quiet

LEMMA ReadInitKeeps ==
    ASSUME IInv, NEW a \in Attempts, ReadInit(a)
    PROVE  IInv'
<1>1. TypeOK'  BY ReadInitType DEF IInv
<1>2. UNCHANGED <<closed, status, closer, slot, asked, teardown, start, launch, late, child>>
      BY DEF ReadInit, closing, stops, starts
<1>3. \A x \in Attempts : pump'[x] # "none" => pump[x] # "none"
      BY DEF ReadInit, IInv, TypeOK, PumpAt, reads
<1>. QED BY <1>1, <1>2, <1>3, Quiet

LEMMA ReadResultKeeps ==
    ASSUME IInv, NEW a \in Attempts, ReadResult(a)
    PROVE  IInv'
<1>1. TypeOK'  BY ReadResultType DEF IInv
<1>2. UNCHANGED <<closed, status, closer, slot, asked, teardown, start, launch, late, child>>
      BY DEF ReadResult, closing, stops, starts
<1>3. \A x \in Attempts : pump'[x] # "none" => pump[x] # "none"
      BY DEF ReadResult, IInv, TypeOK, PumpAt, reads
<1>. QED BY <1>1, <1>2, <1>3, Quiet

LEMMA ReportedKeeps ==
    ASSUME IInv, NEW a \in Attempts, Reported(a)
    PROVE  IInv'
<1>1. TypeOK'  BY ReportedType DEF IInv
<1>2. UNCHANGED <<closed, status, closer, slot, asked, teardown, start, launch, late, child>>
      BY DEF Reported, closing, stops, starts
<1>3. \A x \in Attempts : pump'[x] # "none" => pump[x] # "none"
      BY DEF Reported, IInv, TypeOK, PumpAt, reads
<1>. QED BY <1>1, <1>2, <1>3, Quiet

LEMMA ReadEndsKeeps ==
    ASSUME IInv, NEW a \in Attempts, ReadEnds(a)
    PROVE  IInv'
<1>1. TypeOK'  BY ReadEndsType DEF IInv
<1>2. UNCHANGED <<closed, status, closer, slot, asked, teardown, start, launch, late, child>>
      BY DEF ReadEnds, closing, stops, starts
<1>3. \A x \in Attempts : pump'[x] # "none" => pump[x] # "none"
      BY DEF ReadEnds, IInv, TypeOK, PumpAt, reads
<1>. QED BY <1>1, <1>2, <1>3, Quiet

LEMMA FinishKeeps ==
    ASSUME IInv, NEW a \in Attempts, Finish(a)
    PROVE  IInv'
<1>1. TypeOK'  BY FinishType DEF IInv
<1>2. UNCHANGED <<closed, status, closer, slot, asked, teardown, start, launch, late, child>>
      BY DEF Finish, closing, stops, starts
<1>3. \A x \in Attempts : pump'[x] # "none" => pump[x] # "none"
      BY DEF Finish, IInv, TypeOK, PumpAt, reads
<1>. QED BY <1>1, <1>2, <1>3, Quiet

LEMMA EventRefusedKeeps ==
    ASSUME IInv, NEW a \in Attempts, EventRefused(a)
    PROVE  IInv'
<1>1. TypeOK'  BY EventRefusedType DEF IInv
<1>2. UNCHANGED <<closed, status, closer, slot, asked, teardown, start, launch, late, child>>
      BY DEF EventRefused, closing, stops, starts
<1>3. \A x \in Attempts : pump'[x] # "none" => pump[x] # "none"
      BY DEF EventRefused, IInv, TypeOK, PumpAt
<1>. QED BY <1>1, <1>2, <1>3, Quiet

LEMMA StreamDroppedKeeps ==
    ASSUME IInv, NEW a \in Attempts, StreamDropped(a)
    PROVE  IInv'
<1>1. TypeOK'  BY StreamDroppedType DEF IInv
<1>2. UNCHANGED <<closed, status, closer, slot, asked, teardown, start, launch, late, child>>
      BY DEF StreamDropped, closing, stops, starts
<1>3. \A x \in Attempts : pump'[x] # "none" => pump[x] # "none"
      BY DEF StreamDropped, IInv, TypeOK, PumpAt, reads
<1>. QED BY <1>1, <1>2, <1>3, Quiet

LEMMA RuntimeEndsKeeps ==
    ASSUME IInv, RuntimeEnds
    PROVE  IInv'
BY Quiet, RuntimeEndsType DEF IInv, RuntimeEnds, closing, stops, starts, reads

LEMMA HostShutsDownKeeps ==
    ASSUME IInv, HostShutsDown
    PROVE  IInv'
BY Quiet, HostShutsDownType DEF IInv, HostShutsDown, closing, stops, starts, reads

-----------------------------------------------------------------------------
(* The start and the launch.                                                *)

LEMMA AdmitKeeps ==
    ASSUME IInv, NEW a \in Attempts, Admit(a)
    PROVE  IInv'
<1>1. TypeOK'  BY AdmitType DEF IInv
<1>2. CloserInv'  BY DEF IInv, CloserInv, Admit, closing
<1>3. TypeOK /\ CloserInv /\ Each(a)  BY DEF IInv
<1>4. OnlyOf(a)
      BY <1>3 DEF TypeOK, OnlyOf, Admit, closing, stops, starts, reads, stored
<1>5. /\ UNCHANGED <<closed, status, closer, asked, teardown, late, pump, child>>
      /\ start[a] = "idle" /\ ~closed /\ slot.turn = NoAttempt
      /\ start'[a] = "launching" /\ launch'[a] = "pending"
      /\ slot'.turn = a /\ ~slot'.control /\ ~slot'.stopped
      BY <1>3 DEF TypeOK, Admit, Free, NoTeardown, closing, stops, starts, reads, stored
<1>6. teardown[a].at = "none" /\ teardown[a].outcome = "none" /\ ~teardown[a].proven
      BY <1>3, <1>5 DEF Each, Stages
<1>7. ASSUME NEW x \in Attempts PROVE Each(x)'
  <2>1. Each(x)  BY DEF IInv
  <2>. QED BY <2>1, <1>3, <1>4, <1>5, <1>6, NoAttemptAssumption, SMTT(30) DEF OnlyOf, Same,
      CloserInv, Each, Heard, Answering, Running, Stages, Launching, Stopping, Bare, Kept, Runs,
      Closing, MayLive, Owns
<1>. QED BY <1>1, <1>2, <1>7 DEF IInv

LEMMA LauncherReturnsKeeps ==
    ASSUME IInv, NEW a \in Attempts, LauncherReturns(a)
    PROVE  IInv'
<1>1. TypeOK'  BY LauncherReturnsType DEF IInv
<1>2. CloserInv'  BY DEF IInv, CloserInv, LauncherReturns, closing
<1>3. ASSUME NEW x \in Attempts PROVE Each(x)'
  <2>1. TypeOK /\ CloserInv /\ Each(x) /\ Each(a)  BY DEF IInv
  <2>. QED BY <2>1, NoAttemptAssumption, SMTT(30) DEF LauncherReturns, TypeOK, CloserInv, Each,
      Heard, Answering, Running, Stages, Launching, Stopping, Bare, Kept, Runs, Closing,
      MayLive, Owns, NoTeardown, Free, closing, stops, starts, reads, stored, hostSide
<1>. QED BY <1>1, <1>2, <1>3 DEF IInv

LEMMA StartFailsKeeps ==
    ASSUME IInv, NEW a \in Attempts, StartFails(a)
    PROVE  IInv'
<1>1. TypeOK'  BY StartFailsType DEF IInv
<1>2. CloserInv'  BY DEF IInv, CloserInv, StartFails, closing
<1>3. TypeOK /\ CloserInv /\ Each(a)  BY DEF IInv
<1>4. teardown[a] \in Teardowns
      BY <1>3 DEF TypeOK
<1>5. OnlyOf(a)
      BY <1>3 DEF TypeOK, OnlyOf, StartFails, Forget, Retain, closing, stops, starts, reads,
          stored
<1>6. /\ UNCHANGED <<closed, status, closer, asked, pump, child>>
      /\ launch'[a] = "read" /\ Owns(a) /\ ~slot.control
      /\ teardown[a].at \in {"none", "idle"} /\ teardown[a].outcome = "none"
      BY <1>3 DEF TypeOK, StartFails, Each, Launching, closing, stops, starts, reads, stored
<1>7. start[a] = "launching" /\ start'[a] = "over" /\ late' = late
      /\ launch[a] \in {"bare", "owed"}
      BY <1>3 DEF TypeOK, StartFails, closing, stops, starts, reads, stored
<1>8. launch[a] = "bare" =>
        /\ slot' = Free
        /\ teardown'[a] = Unstarted(teardown[a])
      BY <1>3, <1>6 DEF TypeOK, StartFails, Forget, closing, stops, starts, reads, stored
<1>9. launch[a] = "owed" =>
        /\ slot' = slot
        /\ teardown'[a].at = "over" /\ teardown'[a].outcome = "owed"
        /\ teardown'[a].proven = teardown[a].proven
  <2>1. /\ Made(teardown[a], TRUE) \in Teardowns /\ Made(teardown[a], TRUE).at = "idle"
        /\ Made(teardown[a], TRUE).proven = teardown[a].proven
        BY <1>4, <1>6, TeardownType, MadeFields DEF Same
  <2>2. \A t \in Teardowns :
          LET u == [t EXCEPT !.at = "over", !.outcome = "owed"]
          IN  u.at = "over" /\ u.outcome = "owed" /\ u.proven = t.proven
        BY DEF Teardowns
  <2>3. ASSUME launch[a] = "owed"
        PROVE  /\ slot' = slot
               /\ teardown'[a] = [Made(teardown[a], TRUE) EXCEPT !.at = "over",
                   !.outcome = "owed"]
        BY <1>3, <1>6, <2>1, <2>3 DEF TypeOK, StartFails, Retain
  <2>. QED BY <2>1, <2>2, <2>3
<1>10. slot' = Free => slot'.turn = NoAttempt
      BY DEF Free
<1>11. teardown'[a] = Unstarted(teardown[a]) =>
        /\ teardown'[a].proven = teardown[a].proven
        /\ teardown'[a].at \in {"none", "over"}
        /\ teardown'[a].outcome = IF teardown'[a].at = "none" THEN "none" ELSE "ok"
      BY <1>4, <1>6, UnstartedFields
<1>12. ASSUME NEW x \in Attempts PROVE Each(x)'
  <2>1. Each(x)  BY DEF IInv
  <2>. QED BY <2>1, <1>3, <1>4, <1>5, <1>6, <1>7, <1>8, <1>9, <1>10, <1>11, NoAttemptAssumption,
      SMTT(30) DEF OnlyOf, Same, CloserInv, Each, Heard, Answering, Running, Stages, Launching,
      Stopping, Bare, Kept, Runs, Closing, MayLive, Owns
<1>. QED BY <1>1, <1>2, <1>12 DEF IInv

LEMMA InstallKeeps ==
    ASSUME IInv, NEW a \in Attempts, Install(a)
    PROVE  IInv'
<1>1. TypeOK'  BY InstallType DEF IInv
<1>2. CloserInv'  BY DEF IInv, CloserInv, Install, closing
<1>3. TypeOK /\ CloserInv /\ Each(a)  BY DEF IInv
<1>4. teardown[a] \in Teardowns
      BY <1>3 DEF TypeOK
<1>5. OnlyOf(a)
      BY <1>3 DEF TypeOK, OnlyOf, Install, closing, stops, starts, reads, stored
<1>6. /\ UNCHANGED <<closed, status, closer, asked, late, pump, child>>
      /\ launch[a] = "child" /\ launch'[a] = "read" /\ start[a] = "launching"
      /\ Owns(a) /\ (closed => a \in asked)
      /\ teardown[a].at \in {"none", "idle"}
      BY <1>3 DEF TypeOK, Install, Each, Launching, Bare, closing, stops, starts, reads, stored
<1>7. a \in asked =>
        /\ slot' = slot /\ start'[a] = "stopping"
        /\ teardown'[a] = Started(Made(teardown[a], TRUE), TRUE)
      BY <1>3, <1>6 DEF TypeOK, Install, closing, stops, starts, reads, stored
<1>8. a \in asked =>
        /\ slot' = slot /\ start'[a] = "stopping"
        /\ teardown'[a].at = "queued" /\ Same(teardown'[a], teardown[a])
      BY <1>4, <1>6, <1>7, MadeStartedFields
<1>9. a \notin asked =>
        /\ start'[a] = "releasing" /\ teardown'[a] = NoTeardown
        /\ slot' = [Free EXCEPT !.turn = a, !.control = TRUE]
      BY <1>3, <1>6 DEF TypeOK, Install, closing, stops, starts, reads, stored
<1>10. a \notin asked =>
        /\ start'[a] = "releasing"
        /\ teardown'[a].at = "none" /\ teardown'[a].outcome = "none" /\ ~teardown'[a].proven
        /\ slot'.turn = a /\ slot'.control /\ ~slot'.stopped
  <2>1. SUFFICES ASSUME a \notin asked
        PROVE  /\ start'[a] = "releasing"
               /\ teardown'[a].at = "none" /\ teardown'[a].outcome = "none"
               /\ ~teardown'[a].proven
               /\ slot'.turn = a /\ slot'.control /\ ~slot'.stopped
        OBVIOUS
  <2>2. start'[a] = "releasing"  BY <1>9, <2>1
  <2>3. /\ teardown'[a].at = "none" /\ teardown'[a].outcome = "none"
        /\ ~teardown'[a].proven
        BY <1>9, <2>1 DEF NoTeardown
  <2>4. slot'.turn = a /\ slot'.control /\ ~slot'.stopped
        BY <1>9, <2>1 DEF Free
  <2>. QED BY <2>2, <2>3, <2>4
<1>11. ASSUME NEW x \in Attempts PROVE Each(x)'
  <2>1. Each(x)  BY DEF IInv
  <2>2. CASE x # a  BY <2>1, <2>2, <1>3, <1>4, <1>5, <1>6, <1>8, <1>10, NoAttemptAssumption,
      SMTT(30) DEF OnlyOf, Same, CloserInv, Each, Heard, Answering, Running, Stages, Launching,
      Stopping, Bare, Kept, Runs, Closing, MayLive, Owns
  <2>3. CASE x = a
    <3>1. Heard(a)'  BY <1>3, <1>4, <1>5, <1>6, <1>8, <1>10, SMTT(30) DEF Same, CloserInv, Each,
        Heard, Answering, Running, Stages, Launching, Stopping, Bare, Kept, Runs, Closing,
        MayLive, Owns
    <3>2. Stages(a)'  BY <1>3, <1>4, <1>5, <1>6, <1>8, <1>10, SMTT(30) DEF Same, CloserInv,
        Each, Heard, Answering, Running, Stages, Launching, Stopping, Bare, Kept, Runs, Closing,
        MayLive, Owns
    <3>3. Launching(a)'  BY <1>3, <1>4, <1>5, <1>6, <1>8, <1>10, SMTT(30) DEF Same, CloserInv,
        Each, Heard, Answering, Running, Stages, Launching, Stopping, Bare, Kept, Runs, Closing,
        MayLive, Owns
    <3>4. Stopping(a)'  BY <1>3, <1>4, <1>5, <1>6, <1>8, <1>10, SMTT(30) DEF Same, CloserInv,
        Each, Heard, Answering, Running, Stages, Launching, Stopping, Bare, Kept, Runs, Closing,
        MayLive, Owns
    <3>5. Bare(a)'  BY <1>3, <1>4, <1>5, <1>6, <1>8, <1>10, SMTT(30) DEF Same, CloserInv, Each,
        Heard, Answering, Running, Stages, Launching, Stopping, Bare, Kept, Runs, Closing,
        MayLive, Owns
    <3>6. Kept(a)'  BY <1>3, <1>4, <1>5, <1>6, <1>8, <1>10, SMTT(30) DEF Same, CloserInv, Each,
        Heard, Answering, Running, Stages, Launching, Stopping, Bare, Kept, Runs, Closing,
        MayLive, Owns
    <3>7. Closing(a)'  BY <1>3, <1>4, <1>5, <1>6, <1>8, <1>10, SMTT(30) DEF Same, CloserInv,
        Each, Heard, Answering, Running, Stages, Launching, Stopping, Bare, Kept, Runs, Closing,
        MayLive, Owns
    <3>. QED BY <2>3, <3>1, <3>2, <3>3, <3>4, <3>5, <3>6, <3>7 DEF Each
  <2>. QED BY <2>2, <2>3
<1>. QED BY <1>1, <1>2, <1>11 DEF IInv

LEMMA DropStartKeeps ==
    ASSUME IInv, NEW a \in Attempts, DropStart(a)
    PROVE  IInv'
<1>1. TypeOK'  BY DropStartType DEF IInv
<1>2. CloserInv'  BY DEF IInv, CloserInv, DropStart, closing
<1>3. TypeOK /\ CloserInv /\ Each(a)  BY DEF IInv
<1>4. teardown[a] \in Teardowns /\ teardown[a].at \in Places
      BY <1>3 DEF TypeOK, Teardowns
<1>5. teardown[a].at \in {"none", "idle", "over"} \/ Running(a)
      BY <1>4 DEF Places, Running
<1>6. OnlyOf(a)
      BY <1>3 DEF TypeOK, OnlyOf, DropStart, closing, stops, starts, reads, stored
<1>7. /\ UNCHANGED <<closed, status, closer, launch, slot, pump, child>>
      /\ start[a] \in {"launching", "stopping", "releasing", "refusing"} /\ start'[a] = "over"
      /\ asked' = asked \cup {a} \/ asked' = asked
      BY <1>3 DEF TypeOK, DropStart, closing, stops, starts, reads, stored
<1>8. Owns(a) /\ Abandons(a) =>
        /\ teardown'[a] = Made(teardown[a], TRUE)
        /\ late'[a] = IF start[a] = "launching" THEN "waiting" ELSE "holding"
      BY <1>3 DEF TypeOK, DropStart
<1>9. Owns(a) /\ (start[a] = "launching" \/ ~slot.stopped) =>
        /\ Same(teardown'[a], teardown[a])
        /\ teardown'[a].at = IF teardown[a].at = "none" THEN "idle" ELSE teardown[a].at
        /\ late'[a] = IF start[a] = "launching" THEN "waiting" ELSE "holding"
      BY <1>4, <1>8, MadeFields DEF Abandons
<1>10. Owns(a) /\ slot.stopped /\ start[a] # "launching" =>
        /\ Same(teardown'[a], teardown[a])
        /\ \/ teardown'[a].at = IF teardown[a].at = "none" THEN "idle" ELSE teardown[a].at
           \/ teardown'[a].at = teardown[a].at
        /\ late'[a] \in {"holding", late[a]}
  <2>1. CASE a \notin asked
    <3>1. Owns(a) => /\ teardown'[a] = Made(teardown[a], TRUE)
                     /\ late'[a] = IF start[a] = "launching" THEN "waiting" ELSE "holding"
          BY <1>8, <2>1 DEF Abandons
    <3>2. /\ Same(Made(teardown[a], TRUE), teardown[a])
          /\ Made(teardown[a],
              TRUE).at = IF teardown[a].at = "none" THEN "idle" ELSE teardown[a].at
          BY <1>4, MadeFields
    <3>. QED BY <3>1, <3>2
  <2>2. CASE a \in asked  BY <1>3, <2>2 DEF TypeOK, DropStart, Abandons, Same
  <2>. QED BY <2>1, <2>2
<1>11. ~Owns(a) => teardown'[a] = teardown[a] /\ late'[a] = late[a]
      BY <1>3 DEF TypeOK, DropStart
<1>12. ASSUME NEW x \in Attempts PROVE Each(x)'
  <2>1. Each(x)  BY DEF IInv
  <2>2. CASE x # a  BY <2>1, <2>2, <1>3, <1>4, <1>5, <1>6, <1>7, <1>9, <1>10, <1>11,
      NoAttemptAssumption, SMTT(30) DEF OnlyOf, Same, CloserInv, Each, Heard, Answering,
      Running, Stages, Launching, Stopping, Bare, Kept, Runs, Closing, MayLive, Owns
  <2>3. CASE x = a
    <3>1. Heard(a)'  BY <1>3, <1>4, <1>5, <1>6, <1>7, <1>9, <1>10, <1>11, SMTT(30) DEF Same,
        CloserInv, Each, Heard, Answering, Running, Stages, Launching, Stopping, Bare, Kept,
        Runs, Closing, MayLive, Owns
    <3>2. Stages(a)'  BY <1>3, <1>4, <1>5, <1>6, <1>7, <1>9, <1>10, <1>11, SMTT(30) DEF Same,
        CloserInv, Each, Heard, Answering, Running, Stages, Launching, Stopping, Bare, Kept,
        Runs, Closing, MayLive, Owns
    <3>3. Launching(a)'  BY <1>3, <1>4, <1>5, <1>6, <1>7, <1>9, <1>10, <1>11, SMTT(30) DEF Same,
        CloserInv, Each, Heard, Answering, Running, Stages, Launching, Stopping, Bare, Kept,
        Runs, Closing, MayLive, Owns
    <3>4. Stopping(a)'  BY <1>3, <1>4, <1>5, <1>6, <1>7, <1>9, <1>10, <1>11, SMTT(30) DEF Same,
        CloserInv, Each, Heard, Answering, Running, Stages, Launching, Stopping, Bare, Kept,
        Runs, Closing, MayLive, Owns
    <3>5. Bare(a)'  BY <1>3, <1>4, <1>5, <1>6, <1>7, <1>9, <1>10, <1>11, SMTT(30) DEF Same,
        CloserInv, Each, Heard, Answering, Running, Stages, Launching, Stopping, Bare, Kept,
        Runs, Closing, MayLive, Owns
    <3>6. Kept(a)'  BY <1>3, <1>4, <1>5, <1>6, <1>7, <1>9, <1>10, <1>11, SMTT(30) DEF Same,
        CloserInv, Each, Heard, Answering, Running, Stages, Launching, Stopping, Bare, Kept,
        Runs, Closing, MayLive, Owns
    <3>7. Closing(a)'  BY <1>3, <1>4, <1>5, <1>6, <1>7, <1>9, <1>10, <1>11, SMTT(30) DEF Same,
        CloserInv, Each, Heard, Answering, Running, Stages, Launching, Stopping, Bare, Kept,
        Runs, Closing, MayLive, Owns
    <3>. QED BY <2>3, <3>1, <3>2, <3>3, <3>4, <3>5, <3>6, <3>7 DEF Each
  <2>. QED BY <2>2, <2>3
<1>. QED BY <1>1, <1>2, <1>12 DEF IInv

LEMMA LateLaunchKeeps ==
    ASSUME IInv, NEW a \in Attempts, LateLaunch(a)
    PROVE  IInv'
<1>1. TypeOK'  BY LateLaunchType DEF IInv
<1>2. CloserInv'  BY DEF IInv, CloserInv, LateLaunch, closing
<1>3. TypeOK /\ CloserInv /\ Each(a)  BY DEF IInv
<1>4. teardown[a] \in Teardowns
      BY <1>3 DEF TypeOK
<1>5. OnlyOf(a)
      BY <1>3 DEF TypeOK, OnlyOf, LateLaunch, Forget, Retain, closing, stops, starts, reads,
          stored
<1>6. /\ UNCHANGED <<closed, status, closer, asked, pump, child>>
      /\ launch'[a] = "read" /\ Owns(a) /\ ~slot.control
      /\ teardown[a].at \in {"none", "idle"} /\ teardown[a].outcome = "none"
      BY <1>3 DEF TypeOK, LateLaunch, Each, Launching, closing, stops, starts, reads, stored
<1>7. /\ late[a] = "waiting" /\ start' = start
      /\ launch[a] \in {"bare", "owed"} => late'[a] = "over"
      /\ launch[a] = "child" => late'[a] = "holding" /\ slot' = slot /\ teardown' = teardown
      /\ launch[a] \in {"bare", "owed", "child"}
      BY <1>3 DEF TypeOK, LateLaunch, closing, stops, starts, reads, stored
<1>8. launch[a] = "bare" =>
        /\ slot' = Free
        /\ teardown'[a] = Unstarted(teardown[a])
      BY <1>3, <1>6 DEF TypeOK, LateLaunch, Forget, closing, stops, starts, reads, stored
<1>9. launch[a] = "owed" =>
        /\ slot' = slot
        /\ teardown'[a].at = "over" /\ teardown'[a].outcome = "owed"
        /\ teardown'[a].proven = teardown[a].proven
  <2>1. /\ Made(teardown[a], TRUE) \in Teardowns /\ Made(teardown[a], TRUE).at = "idle"
        /\ Made(teardown[a], TRUE).proven = teardown[a].proven
        BY <1>4, <1>6, TeardownType, MadeFields DEF Same
  <2>2. \A t \in Teardowns :
          LET u == [t EXCEPT !.at = "over", !.outcome = "owed"]
          IN  u.at = "over" /\ u.outcome = "owed" /\ u.proven = t.proven
        BY DEF Teardowns
  <2>3. ASSUME launch[a] = "owed"
        PROVE  /\ slot' = slot
               /\ teardown'[a] = [Made(teardown[a], TRUE) EXCEPT !.at = "over",
                   !.outcome = "owed"]
        BY <1>3, <1>6, <2>1, <2>3 DEF TypeOK, LateLaunch, Retain
  <2>. QED BY <2>1, <2>2, <2>3
<1>10. slot' = Free => slot'.turn = NoAttempt
      BY DEF Free
<1>11. teardown'[a] = Unstarted(teardown[a]) =>
        /\ teardown'[a].proven = teardown[a].proven
        /\ teardown'[a].at \in {"none", "over"}
        /\ teardown'[a].outcome = IF teardown'[a].at = "none" THEN "none" ELSE "ok"
      BY <1>4, <1>6, UnstartedFields
<1>12. ASSUME NEW x \in Attempts PROVE Each(x)'
  <2>1. Each(x)  BY DEF IInv
  <2>. QED BY <2>1, <1>3, <1>4, <1>5, <1>6, <1>7, <1>8, <1>9, <1>10, <1>11, NoAttemptAssumption,
      SMTT(30) DEF OnlyOf, Same, CloserInv, Each, Heard, Answering, Running, Stages, Launching,
      Stopping, Bare, Kept, Runs, Closing, MayLive, Owns
<1>. QED BY <1>1, <1>2, <1>12 DEF IInv

LEMMA LateStopKeeps ==
    ASSUME IInv, NEW a \in Attempts, LateStop(a)
    PROVE  IInv'
<1>1. TypeOK'  BY LateStopType DEF IInv
<1>2. CloserInv'  BY DEF IInv, CloserInv, LateStop, closing
<1>3. TypeOK /\ CloserInv /\ Each(a)  BY DEF IInv
<1>4. teardown[a] \in Teardowns
      BY <1>3 DEF TypeOK
<1>5. late[a] = "holding" /\ launch[a] = "read" /\ start[a] = "over"
      BY <1>3 DEF LateStop, Each, Stages
<1>6. OnlyOf(a)
      BY <1>3 DEF TypeOK, OnlyOf, LateStop, closing, stops, starts, reads, stored
<1>7. /\ UNCHANGED <<closed, status, closer, asked, slot, start, launch, pump, child>>
      /\ late[a] = "holding" /\ late'[a] = "stopping"
      BY <1>3 DEF TypeOK, LateStop, closing, stops, starts, reads, stored
<1>8. teardown'[a] = IF Owns(a) THEN Started(Made(teardown[a], TRUE), TRUE) ELSE teardown[a]
      BY <1>3 DEF TypeOK, LateStop
<1>9. /\ Same(teardown'[a], teardown[a])
      /\ teardown'[a].at = IF Owns(a) /\ teardown[a].at \in {"none", "idle"}
                           THEN "queued" ELSE teardown[a].at
      BY <1>4, <1>8, MadeStartedFields DEF Same
<1>10. ASSUME NEW x \in Attempts PROVE Each(x)'
  <2>1. Each(x)  BY DEF IInv
  <2>. QED BY <2>1, <1>3, <1>4, <1>5, <1>6, <1>7, <1>9, NoAttemptAssumption, SMTT(30) DEF
      OnlyOf, Same, CloserInv, Each, Heard, Answering, Running, Stages, Launching, Stopping,
      Bare, Kept, Runs, Closing, MayLive, Owns
<1>. QED BY <1>1, <1>2, <1>10 DEF IInv

LEMMA LoseLateKeeps ==
    ASSUME IInv, NEW a \in Attempts, LoseLate(a)
    PROVE  IInv'
<1>1. TypeOK'  BY LoseLateType DEF IInv
<1>2. CloserInv'  BY DEF IInv, CloserInv, LoseLate, closing
<1>3. TypeOK /\ CloserInv /\ Each(a)  BY DEF IInv
<1>4. teardown[a] \in Teardowns
      BY <1>3 DEF TypeOK
<1>5. OnlyOf(a)
      BY <1>3 DEF TypeOK, OnlyOf, LoseLate, closing, stops, starts, reads, stored
<1>6. /\ UNCHANGED <<closed, status, closer, asked, slot, start, launch, pump, child>>
      /\ late[a] \in {"waiting", "holding", "stopping"} /\ late'[a] = "over"
      BY <1>3 DEF TypeOK, LoseLate, closing, stops, starts, reads, stored
<1>7. /\ teardown'[a].at = teardown[a].at /\ teardown'[a].proven = teardown[a].proven
      /\ teardown'[a].how = teardown[a].how
      /\ teardown'[a].outcome # "none"
      /\ teardown'[a].outcome = "ok" => teardown[a].outcome = "ok"
      BY <1>3, <1>4 DEF TypeOK, LoseLate, Teardowns, Loss
<1>8. ASSUME NEW x \in Attempts PROVE Each(x)'
  <2>1. Each(x)  BY DEF IInv
  <2>. QED BY <2>1, <1>3, <1>4, <1>5, <1>6, <1>7, NoAttemptAssumption, SMTT(30) DEF OnlyOf,
      Same, CloserInv, Each, Heard, Answering, Running, Stages, Launching, Stopping, Bare, Kept,
      Runs, Closing, MayLive, Owns
<1>. QED BY <1>1, <1>2, <1>8 DEF IInv

-----------------------------------------------------------------------------
(* The worker and the child.                                                *)

LEMMA AskStopKeeps ==
    ASSUME IInv, NEW a \in Attempts, AskStop(a)
    PROVE  IInv'
<1>1. TypeOK'  BY AskStopType DEF IInv
<1>2. CloserInv'  BY DEF IInv, CloserInv, AskStop, closing
<1>3. TypeOK /\ CloserInv /\ Each(a)  BY DEF IInv
<1>4. teardown[a] \in Teardowns
      BY <1>3 DEF TypeOK
<1>5. OnlyOf(a)
      BY <1>3 DEF TypeOK, OnlyOf, AskStop, closing, stops, starts, reads, stored
<1>6. /\ UNCHANGED <<closed, status, closer, asked, slot, start, launch, late, pump, child>>
      /\ teardown[a].at = "queued"
      BY <1>3 DEF TypeOK, AskStop, closing, stops, starts, reads, stored
<1>7. teardown'[a].at = "stopping" /\ Same(teardown'[a], teardown[a])
      BY <1>3, <1>4 DEF TypeOK, AskStop, Same, Teardowns
<1>8. ASSUME NEW x \in Attempts PROVE Each(x)'
  <2>1. Each(x)  BY DEF IInv
  <2>. QED BY <2>1, <1>3, <1>4, <1>5, <1>6, <1>7, NoAttemptAssumption, SMTT(30) DEF OnlyOf,
      Same, CloserInv, Each, Heard, Answering, Running, Stages, Launching, Stopping, Bare, Kept,
      Runs, Closing, MayLive, Owns
<1>. QED BY <1>1, <1>2, <1>8 DEF IInv

LEMMA StopReturnsKeeps ==
    ASSUME IInv, NEW a \in Attempts, StopReturns(a)
    PROVE  IInv'
<1>1. TypeOK'  BY StopReturnsType DEF IInv
<1>2. CloserInv'  BY DEF IInv, CloserInv, StopReturns, closing
<1>3. TypeOK /\ CloserInv /\ Each(a)  BY DEF IInv
<1>4. teardown[a] \in Teardowns
      BY <1>3 DEF TypeOK
<1>5. OnlyOf(a)
      BY <1>3 DEF TypeOK, OnlyOf, StopReturns, closing, stops, starts, reads, stored
<1>6. /\ UNCHANGED <<closed, status, closer, asked, slot, start, launch, late, pump>>
      /\ teardown[a].at = "stopping"
      BY <1>3 DEF TypeOK, StopReturns, closing, stops, starts, reads, stored
<1>7. /\ teardown'[a].at = "stopped" /\ teardown'[a].outcome = teardown[a].outcome
      /\ IF teardown'[a].how = "failed" THEN child'[a] = child[a] /\ ~teardown'[a].proven
         ELSE child'[a] = "gone"
      BY <1>3, <1>4 DEF TypeOK, StopReturns, Teardowns, Loss
<1>8. ASSUME NEW x \in Attempts PROVE Each(x)'
  <2>1. Each(x)  BY DEF IInv
  <2>. QED BY <2>1, <1>3, <1>4, <1>5, <1>6, <1>7, NoAttemptAssumption, SMTT(30) DEF OnlyOf,
      Same, CloserInv, Each, Heard, Answering, Running, Stages, Launching, Stopping, Bare, Kept,
      Runs, Closing, MayLive, Owns
<1>. QED BY <1>1, <1>2, <1>8 DEF IInv

LEMMA PublishOutcomeKeeps ==
    ASSUME IInv, NEW a \in Attempts, PublishOutcome(a)
    PROVE  IInv'
<1>1. TypeOK'  BY PublishOutcomeType DEF IInv
<1>2. CloserInv'  BY DEF IInv, CloserInv, PublishOutcome, closing
<1>3. TypeOK /\ CloserInv /\ Each(a)  BY DEF IInv
<1>4. teardown[a] \in Teardowns
      BY <1>3 DEF TypeOK
<1>5. OnlyOf(a)
      BY <1>3 DEF TypeOK, OnlyOf, PublishOutcome, closing, stops, starts, reads, stored
<1>6. /\ UNCHANGED <<closed, status, closer, asked, slot, start, launch, late, pump, child>>
      /\ teardown[a].at = "recorded"
      BY <1>3 DEF TypeOK, PublishOutcome, closing, stops, starts, reads, stored
<1>7. /\ teardown'[a].at = "over" /\ teardown'[a].proven = teardown[a].proven
      /\ teardown'[a].outcome = IF teardown[a].how = "failed" THEN "owed" ELSE "ok"
      BY <1>3, <1>4 DEF TypeOK, PublishOutcome, Teardowns, Loss
<1>8. ASSUME NEW x \in Attempts PROVE Each(x)'
  <2>1. Each(x)  BY DEF IInv
  <2>. QED BY <2>1, <1>3, <1>4, <1>5, <1>6, <1>7, NoAttemptAssumption, SMTT(30) DEF OnlyOf,
      Same, CloserInv, Each, Heard, Answering, Running, Stages, Launching, Stopping, Bare, Kept,
      Runs, Closing, MayLive, Owns
<1>. QED BY <1>1, <1>2, <1>8 DEF IInv

LEMMA LoseWorkerKeeps ==
    ASSUME IInv, NEW a \in Attempts, LoseWorker(a)
    PROVE  IInv'
<1>1. TypeOK'  BY LoseWorkerType DEF IInv
<1>2. CloserInv'  BY DEF IInv, CloserInv, LoseWorker, closing
<1>3. TypeOK /\ CloserInv /\ Each(a)  BY DEF IInv
<1>4. teardown[a] \in Teardowns
      BY <1>3 DEF TypeOK
<1>5. OnlyOf(a)
      BY <1>3 DEF TypeOK, OnlyOf, LoseWorker, closing, stops, starts, reads, stored
<1>6. /\ UNCHANGED <<closed, status, closer, asked, slot, start, launch, late, pump, child>>
      /\ Running(a)
      BY <1>3 DEF TypeOK, LoseWorker, Running, closing, stops, starts, reads, stored
<1>7. /\ teardown'[a].at = "over" /\ teardown'[a].proven = teardown[a].proven
      /\ teardown'[a].outcome # "none"
      /\ teardown'[a].outcome = "ok" => teardown[a].outcome = "ok"
      BY <1>3, <1>4 DEF TypeOK, LoseWorker, Teardowns, Loss
<1>8. ASSUME NEW x \in Attempts PROVE Each(x)'
  <2>1. Each(x)  BY DEF IInv
  <2>. QED BY <2>1, <1>3, <1>4, <1>5, <1>6, <1>7, NoAttemptAssumption, SMTT(30) DEF OnlyOf,
      Same, CloserInv, Each, Heard, Answering, Running, Stages, Launching, Stopping, Bare, Kept,
      Runs, Closing, MayLive, Owns
<1>. QED BY <1>1, <1>2, <1>8 DEF IInv

LEMMA RecordStopKeeps ==
    ASSUME IInv, NEW a \in Attempts, RecordStop(a)
    PROVE  IInv'
<1>1. TypeOK'  BY RecordStopType DEF IInv
<1>2. CloserInv'  BY DEF IInv, CloserInv, RecordStop, closing
<1>3. TypeOK /\ CloserInv /\ Each(a)  BY DEF IInv
<1>4. teardown[a] \in Teardowns
      BY <1>3 DEF TypeOK
<1>5. OnlyOf(a)
      BY <1>3 DEF TypeOK, OnlyOf, RecordStop, closing, stops, starts, reads, stored
<1>6. /\ UNCHANGED <<closed, status, closer, asked, start, launch, late, pump, child>>
      /\ teardown[a].at = "stopped"
      BY <1>3 DEF TypeOK, RecordStop, closing, stops, starts, reads, stored
<1>7. teardown'[a].at = "recorded" /\ Same(teardown'[a], teardown[a])
      BY <1>3, <1>4 DEF TypeOK, RecordStop, Same, Teardowns
<1>8. \/ slot' = slot /\ (teardown[a].how = "failed" \/ ~Owns(a))
      \/ slot'.turn = NoAttempt /\ Owns(a) /\ teardown[a].how # "failed"
      \/ /\ slot'.turn = slot.turn /\ slot'.control = slot.control
         /\ Owns(a) /\ teardown[a].how # "failed"
      BY <1>3 DEF TypeOK, RecordStop, Slots, Free
<1>9. ASSUME NEW x \in Attempts PROVE Each(x)'
  <2>1. Each(x)  BY DEF IInv
  <2>. QED BY <2>1, <1>3, <1>4, <1>5, <1>6, <1>7, <1>8, NoAttemptAssumption, SMTT(30) DEF
      OnlyOf, Same, CloserInv, Each, Heard, Answering, Running, Stages, Launching, Stopping,
      Bare, Kept, Runs, Closing, MayLive, Owns
<1>. QED BY <1>1, <1>2, <1>9 DEF IInv

LEMMA ChildExitsKeeps ==
    ASSUME IInv, NEW a \in Attempts, ChildExits(a)
    PROVE  IInv'
<1>1. TypeOK'  BY ChildExitsType DEF IInv
<1>2. CloserInv'  BY DEF IInv, CloserInv, ChildExits, closing
<1>3. ASSUME NEW x \in Attempts PROVE Each(x)'
  <2>1. TypeOK /\ CloserInv /\ Each(x) /\ Each(a)  BY DEF IInv
  <2>. QED BY <2>1, NoAttemptAssumption, SMTT(30) DEF ChildExits, TypeOK, CloserInv, Each,
      Heard, Answering, Running, Stages, Launching, Stopping, Bare, Kept, Runs, Closing,
      MayLive, Owns, NoTeardown, Free, closing, stops, starts, reads, stored, hostSide
<1>. QED BY <1>1, <1>2, <1>3 DEF IInv

-----------------------------------------------------------------------------
(* Who waits for a stop settles the slot.                                   *)

LEMMA StartStoppedKeeps ==
    ASSUME IInv, NEW a \in Attempts, StartStopped(a)
    PROVE  IInv'
<1>1. TypeOK'  BY StartStoppedType DEF IInv
<1>2. CloserInv'  BY DEF IInv, CloserInv, StartStopped, closing
<1>3. ASSUME NEW x \in Attempts PROVE Each(x)'
  <2>1. TypeOK /\ CloserInv /\ Each(x) /\ Each(a)  BY DEF IInv
  <2>. QED BY <2>1, NoAttemptAssumption, SMTT(30) DEF StartStopped, Settle, Answered, PumpAt,
      Teardowns, Slots, TypeOK, CloserInv, Each, Heard, Answering, Running, Stages, Launching,
      Stopping, Bare, Kept, Runs, Closing, MayLive, Owns, NoTeardown, Free, closing, stops,
      starts, reads, stored, hostSide
<1>. QED BY <1>1, <1>2, <1>3 DEF IInv

LEMMA StartRefusedKeeps ==
    ASSUME IInv, NEW a \in Attempts, StartRefused(a)
    PROVE  IInv'
<1>1. TypeOK'  BY StartRefusedType DEF IInv
<1>2. CloserInv'  BY DEF IInv, CloserInv, StartRefused, closing
<1>3. ASSUME NEW x \in Attempts PROVE Each(x)'
  <2>1. TypeOK /\ CloserInv /\ Each(x) /\ Each(a)  BY DEF IInv
  <2>. QED BY <2>1, NoAttemptAssumption, SMTT(30) DEF StartRefused, Settle, Answered, PumpAt,
      Teardowns, Slots, TypeOK, CloserInv, Each, Heard, Answering, Running, Stages, Launching,
      Stopping, Bare, Kept, Runs, Closing, MayLive, Owns, NoTeardown, Free, closing, stops,
      starts, reads, stored, hostSide
<1>. QED BY <1>1, <1>2, <1>3 DEF IInv

LEMMA LateStoppedKeeps ==
    ASSUME IInv, NEW a \in Attempts, LateStopped(a)
    PROVE  IInv'
<1>1. TypeOK'  BY LateStoppedType DEF IInv
<1>2. CloserInv'  BY DEF IInv, CloserInv, LateStopped, closing
<1>3. ASSUME NEW x \in Attempts PROVE Each(x)'
  <2>1. TypeOK /\ CloserInv /\ Each(x) /\ Each(a)  BY DEF IInv
  <2>. QED BY <2>1, NoAttemptAssumption, SMTT(30) DEF LateStopped, Settle, Answered, PumpAt,
      Teardowns, Slots, TypeOK, CloserInv, Each, Heard, Answering, Running, Stages, Launching,
      Stopping, Bare, Kept, Runs, Closing, MayLive, Owns, NoTeardown, Free, closing, stops,
      starts, reads, stored, hostSide
<1>. QED BY <1>1, <1>2, <1>3 DEF IInv

LEMMA PumpAbandonedKeeps ==
    ASSUME IInv, NEW a \in Attempts, PumpAbandoned(a)
    PROVE  IInv'
<1>1. TypeOK'  BY PumpAbandonedType DEF IInv
<1>2. CloserInv'  BY DEF IInv, CloserInv, PumpAbandoned, closing
<1>3. ASSUME NEW x \in Attempts PROVE Each(x)'
  <2>1. TypeOK /\ CloserInv /\ Each(x) /\ Each(a)  BY DEF IInv
  <2>. QED BY <2>1, NoAttemptAssumption, SMTT(30) DEF PumpAbandoned, Settle, Answered, PumpAt,
      Teardowns, Slots, TypeOK, CloserInv, Each, Heard, Answering, Running, Stages, Launching,
      Stopping, Bare, Kept, Runs, Closing, MayLive, Owns, NoTeardown, Free, closing, stops,
      starts, reads, stored, hostSide
<1>. QED BY <1>1, <1>2, <1>3 DEF IInv

LEMMA ReapedKeeps ==
    ASSUME IInv, NEW a \in Attempts, Reaped(a)
    PROVE  IInv'
<1>1. TypeOK'  BY ReapedType DEF IInv
<1>2. CloserInv'  BY DEF IInv, CloserInv, Reaped, closing
<1>3. ASSUME NEW x \in Attempts PROVE Each(x)'
  <2>1. TypeOK /\ CloserInv /\ Each(x) /\ Each(a)  BY DEF IInv
  <2>. QED BY <2>1, NoAttemptAssumption, SMTT(30) DEF Reaped, Settle, Answered, PumpAt,
      Teardowns, Slots, TypeOK, CloserInv, Each, Heard, Answering, Running, Stages, Launching,
      Stopping, Bare, Kept, Runs, Closing, MayLive, Owns, NoTeardown, Free, closing, stops,
      starts, reads, stored, hostSide
<1>. QED BY <1>1, <1>2, <1>3 DEF IInv

LEMMA RecheckKeeps ==
    ASSUME IInv, NEW a \in Attempts, Recheck(a)
    PROVE  IInv'
<1>1. TypeOK'  BY RecheckType DEF IInv
<1>2. CloserInv'  BY DEF IInv, CloserInv, Recheck, closing
<1>3. TypeOK /\ CloserInv /\ Each(a)  BY DEF IInv
<1>4. OnlyOf(a)
      BY <1>3 DEF TypeOK, OnlyOf, Recheck, closing, stops, starts, reads, stored
<1>5. /\ UNCHANGED <<closed, status, closer, asked, teardown, launch, late, pump, child>>
      /\ start[a] = "releasing" /\ start'[a] \in {"over", "starting"}
      BY <1>3 DEF TypeOK, Recheck, closing, stops, starts, reads, stored
<1>6. \/ slot' = slot
      \/ slot'.turn = NoAttempt /\ Owns(a) /\ slot.stopped
      \/ /\ slot'.turn = slot.turn /\ slot'.control = slot.control
         /\ Owns(a) /\ ~slot.stopped /\ ~slot'.stopped
      BY <1>3 DEF TypeOK, Recheck, Settle, Slots, Free
<1>7. ASSUME NEW x \in Attempts PROVE Each(x)'
  <2>1. Each(x)  BY DEF IInv
  <2>. QED BY <2>1, <1>3, <1>4, <1>5, <1>6, NoAttemptAssumption, SMTT(30) DEF OnlyOf, Same,
      CloserInv, Each, Heard, Answering, Running, Stages, Launching, Stopping, Bare, Kept, Runs,
      Closing, MayLive, Owns
<1>. QED BY <1>1, <1>2, <1>7 DEF IInv

LEMMA ReapKeeps ==
    ASSUME IInv, NEW a \in Attempts, Reap(a)
    PROVE  IInv'
<1>1. TypeOK'  BY ReapType DEF IInv
<1>2. CloserInv'  BY DEF IInv, CloserInv, Reap, closing
<1>3. TypeOK /\ CloserInv /\ Each(a)  BY DEF IInv
<1>4. teardown[a] \in Teardowns /\ (a \notin native) \in BOOLEAN
      BY <1>3 DEF TypeOK
<1>5. OnlyOf(a)
      BY <1>3 DEF TypeOK, OnlyOf, Reap, TerminalTeardown, PumpAt, closing, stops, starts, reads,
          stored
<1>6. /\ UNCHANGED <<closed, status, closer, asked, start, launch, late, child>>
      /\ pump[a] = "deciding"
      BY <1>3 DEF TypeOK, Reap, PumpAt, closing, stops, starts, reads, stored
<1>7. \/ teardown'[a] = teardown[a]
      \/ Owns(a) /\ \E b, c \in BOOLEAN : teardown'[a] = Started(Made(teardown[a], b), c)
  <2>1. CASE teardown' = teardown  BY <2>1
  <2>2. CASE Owns(a) /\ teardown' = [teardown EXCEPT ![a] =
               Started(Made(teardown[a], a \notin native), FALSE)]
    <3>1. teardown'[a] = Started(Made(teardown[a], a \notin native), FALSE)
          BY <1>3, <2>2 DEF TypeOK
    <3>2. (a \notin native) \in BOOLEAN /\ FALSE \in BOOLEAN  BY <1>4
    <3>. QED BY <2>2, <3>1, <3>2
  <2>. QED BY <2>1, <2>2 DEF Reap, TerminalTeardown
<1>8. /\ Same(teardown'[a], teardown[a])
      /\ \/ teardown'[a].at = teardown[a].at
         \/ Owns(a) /\ teardown[a].at \in {"none", "idle"} /\ teardown'[a].at = "queued"
  <2>1. CASE teardown'[a] = teardown[a]  BY <2>1 DEF Same
  <2>2. ASSUME Owns(a), NEW b \in BOOLEAN, NEW c \in BOOLEAN,
               teardown'[a] = Started(Made(teardown[a], b), c)
        PROVE  /\ Same(teardown'[a], teardown[a])
               /\ \/ teardown'[a].at = teardown[a].at
                  \/ teardown[a].at \in {"none", "idle"} /\ teardown'[a].at = "queued"
        BY <1>4, <2>2, MadeStartedFields
  <2>. QED BY <1>7, <2>1, <2>2
<1>9. \/ slot' = slot
      \/ slot'.turn = NoAttempt /\ Owns(a) /\ slot.stopped
      \/ /\ slot'.turn = slot.turn /\ slot'.control = slot.control
         /\ Owns(a) /\ ~slot.stopped /\ ~slot'.stopped
      BY <1>3 DEF TypeOK, Reap, Settle, Slots, Free
<1>10. ASSUME NEW x \in Attempts PROVE Each(x)'
  <2>1. Each(x)  BY DEF IInv
  <2>. QED BY <2>1, <1>3, <1>4, <1>5, <1>6, <1>8, <1>9, NoAttemptAssumption, SMTT(30) DEF
      OnlyOf, Same, CloserInv, Each, Heard, Answering, Running, Stages, Launching, Stopping,
      Bare, Kept, Runs, Closing, MayLive, Owns
<1>. QED BY <1>1, <1>2, <1>10 DEF IInv

LEMMA ReapEarlyKeeps ==
    ASSUME IInv, NEW a \in Attempts, ReapEarly(a)
    PROVE  IInv'
<1>1. TypeOK'  BY ReapEarlyType DEF IInv
<1>2. CloserInv'  BY DEF IInv, CloserInv, ReapEarly, closing
<1>3. TypeOK /\ CloserInv /\ Each(a)  BY DEF IInv
<1>4. teardown[a] \in Teardowns /\ (a \notin native) \in BOOLEAN
      BY <1>3 DEF TypeOK
<1>5. OnlyOf(a)
      BY <1>3 DEF TypeOK, OnlyOf, ReapEarly, TerminalTeardown, PumpAt, closing, stops, starts,
          reads, stored
<1>6. /\ UNCHANGED <<closed, status, closer, asked, start, launch, late, child>>
      /\ pump[a] = "ended"
      BY <1>3 DEF TypeOK, ReapEarly, PumpAt, closing, stops, starts, reads, stored
<1>7. \/ teardown'[a] = teardown[a]
      \/ Owns(a) /\ \E b, c \in BOOLEAN : teardown'[a] = Started(Made(teardown[a], b), c)
  <2>1. CASE teardown' = teardown  BY <2>1
  <2>2. CASE Owns(a) /\ teardown' = [teardown EXCEPT ![a] =
               Started(Made(teardown[a], a \notin native), FALSE)]
    <3>1. teardown'[a] = Started(Made(teardown[a], a \notin native), FALSE)
          BY <1>3, <2>2 DEF TypeOK
    <3>2. (a \notin native) \in BOOLEAN /\ FALSE \in BOOLEAN  BY <1>4
    <3>. QED BY <2>2, <3>1, <3>2
  <2>. QED BY <2>1, <2>2 DEF ReapEarly, TerminalTeardown
<1>8. /\ Same(teardown'[a], teardown[a])
      /\ \/ teardown'[a].at = teardown[a].at
         \/ Owns(a) /\ teardown[a].at \in {"none", "idle"} /\ teardown'[a].at = "queued"
  <2>1. CASE teardown'[a] = teardown[a]  BY <2>1 DEF Same
  <2>2. ASSUME Owns(a), NEW b \in BOOLEAN, NEW c \in BOOLEAN,
               teardown'[a] = Started(Made(teardown[a], b), c)
        PROVE  /\ Same(teardown'[a], teardown[a])
               /\ \/ teardown'[a].at = teardown[a].at
                  \/ teardown[a].at \in {"none", "idle"} /\ teardown'[a].at = "queued"
        BY <1>4, <2>2, MadeStartedFields
  <2>. QED BY <1>7, <2>1, <2>2
<1>9. slot' = slot
      BY DEF ReapEarly
<1>10. ASSUME NEW x \in Attempts PROVE Each(x)'
  <2>1. Each(x)  BY DEF IInv
  <2>. QED BY <2>1, <1>3, <1>4, <1>5, <1>6, <1>8, <1>9, NoAttemptAssumption, SMTT(30) DEF
      OnlyOf, Same, CloserInv, Each, Heard, Answering, Running, Stages, Launching, Stopping,
      Bare, Kept, Runs, Closing, MayLive, Owns
<1>. QED BY <1>1, <1>2, <1>10 DEF IInv

-----------------------------------------------------------------------------
(* A stop is asked for.                                                     *)

\* What a claim changes: the reason, and the stop it makes and may begin.
Asks(a) ==
    /\ asked' = asked \cup {a}
    /\ Same(teardown'[a], teardown[a])
    /\ \/ teardown'[a].at = teardown[a].at /\ teardown[a].at # "none"
       \/ teardown[a].at \in {"none", "idle"} /\ slot.control /\ teardown'[a].at = "queued"
       \/ teardown[a].at = "none" /\ ~slot.control /\ teardown'[a].at = "idle"
    /\ \A y \in Attempts \ {a} : teardown'[y] = teardown[y]

LEMMA ClaimAsks ==
    ASSUME TypeOK, NEW a \in Attempts, NEW b \in BOOLEAN, ClaimStop(a, b)
    PROVE  \/ Owns(a) /\ Asks(a)
           \/ asked' = asked /\ teardown' = teardown
<1>1. teardown[a] \in Teardowns  BY DEF TypeOK
<1>2. SUFFICES ASSUME Owns(a), a \notin asked PROVE Asks(a)
      BY DEF ClaimStop
<1>3. /\ asked' = asked \cup {a}
      /\ teardown' = [teardown EXCEPT ![a] =
                        IF slot.control /\ teardown[a].at = "none"
                        THEN Started(Made(teardown[a], TRUE), b)
                        ELSE Made(teardown[a], TRUE)]
      BY <1>2 DEF ClaimStop
<1>4. \A y \in Attempts \ {a} : teardown'[y] = teardown[y]  BY <1>3 DEF TypeOK
<1>5. CASE slot.control /\ teardown[a].at = "none"
  <2>1. teardown'[a] = Started(Made(teardown[a], TRUE), b)  BY <1>3, <1>5 DEF TypeOK
  <2>2. /\ Same(Started(Made(teardown[a], TRUE), b), teardown[a])
        /\ Started(Made(teardown[a], TRUE), b).at = "queued"
        BY <1>1, <1>5, MadeStartedFields
  <2>3. Same(teardown'[a], teardown[a]) /\ teardown'[a].at = "queued"  BY <2>1, <2>2
  <2>. QED BY <1>3, <1>4, <1>5, <2>3 DEF Asks
<1>6. CASE ~(slot.control /\ teardown[a].at = "none")
  <2>1. teardown'[a] = Made(teardown[a], TRUE)  BY <1>3, <1>6 DEF TypeOK
  <2>2. /\ Same(Made(teardown[a], TRUE), teardown[a])
        /\ Made(teardown[a], TRUE).at = IF teardown[a].at = "none" THEN "idle"
                                        ELSE teardown[a].at
        BY <1>1, MadeFields
  <2>3. Same(teardown'[a], teardown[a])  BY <2>1, <2>2
  <2>4. teardown'[a].at = Made(teardown[a], TRUE).at  BY <2>1
  <2>5. teardown'[a].at = IF teardown[a].at = "none" THEN "idle" ELSE teardown[a].at
        BY <2>2, <2>4
  <2>. QED BY <1>3, <1>4, <1>6, <2>3, <2>5 DEF Asks
<1>. QED BY <1>5, <1>6

LEMMA TakeAsks ==
    ASSUME TypeOK, NEW a \in Attempts, slot.turn = a, TakeTurn
    PROVE  Asks(a)
<1>1. teardown[a] \in Teardowns  BY DEF TypeOK
<1>2. /\ asked' = asked \cup {a}
      /\ teardown' = [teardown EXCEPT ![a] =
                        IF slot.control THEN Started(Made(teardown[a], TRUE), FALSE)
                        ELSE Made(teardown[a], TRUE)]
      BY DEF TakeTurn
<1>3. \A y \in Attempts \ {a} : teardown'[y] = teardown[y]  BY <1>2 DEF TypeOK
<1>4. CASE slot.control
  <2>1. teardown'[a] = Started(Made(teardown[a], TRUE), FALSE)  BY <1>2, <1>4 DEF TypeOK
  <2>. QED BY <1>1, <1>2, <1>3, <1>4, <2>1, MadeStartedFields DEF Asks
<1>5. CASE ~slot.control
  <2>1. teardown'[a] = Made(teardown[a], TRUE)  BY <1>2, <1>5 DEF TypeOK
  <2>. QED BY <1>1, <1>2, <1>3, <1>5, <2>1, MadeFields DEF Asks
<1>. QED BY <1>4, <1>5

\* Starts and pumps go on their way, and no launch is read.
GoOn ==
    /\ UNCHANGED <<slot, launch, late, child>>
    /\ \A y \in Attempts :
         /\ \/ start'[y] = start[y]
            \/ start[y] \in {"starting", "refusing"} /\ start'[y] \in {"refusing", "over"}
         /\ \/ pump'[y] = "none"
            \/ pump[y] # "none"
            \/ start[y] = "starting" /\ start'[y] = "over"

LEMMA Asked ==
    ASSUME IInv, TypeOK', UNCHANGED <<closed, status, closer>>, GoOn,
           \/ \E a \in Attempts : Owns(a) /\ Asks(a)
           \/ asked' = asked /\ teardown' = teardown
    PROVE  IInv'
<1>1. CloserInv'  BY DEF IInv, CloserInv
<1>2. ASSUME NEW x \in Attempts PROVE Each(x)'
  <2>1. Each(x)  BY DEF IInv
  <2>2. CASE asked' = asked /\ teardown' = teardown
        BY <2>1, <2>2, SMTT(30) DEF GoOn, Each, Heard, Answering, Running, Stages, Launching,
            Stopping, Bare, Kept, Runs, Closing, MayLive, Owns
  <2>3. ASSUME NEW a \in Attempts, Owns(a), Asks(a), x # a PROVE Each(x)'
        BY <2>1, <2>3, SMTT(30) DEF GoOn, Asks, Each, Heard, Answering, Running, Stages,
            Launching, Stopping, Bare, Kept, Runs, Closing, MayLive, Owns
  <2>4. ASSUME Owns(x), Asks(x) PROVE Each(x)'
    <3>1. Heard(x)'  BY <2>1, <2>4, SMTT(30) DEF GoOn, Asks, Same, Each, Heard, Answering,
        Running, Stages, Launching, Stopping, Bare, Kept, Runs, Closing, MayLive, Owns
    <3>2. Stages(x)'  BY <2>1, <2>4, SMTT(30) DEF GoOn, Asks, Same, Each, Heard, Answering,
        Running, Stages, Launching, Stopping, Bare, Kept, Runs, Closing, MayLive, Owns
    <3>3. Launching(x)'  BY <2>1, <2>4, SMTT(30) DEF GoOn, Asks, Same, Each, Heard, Answering,
        Running, Stages, Launching, Stopping, Bare, Kept, Runs, Closing, MayLive, Owns
    <3>4. Stopping(x)'  BY <2>1, <2>4, SMTT(30) DEF GoOn, Asks, Same, Each, Heard, Answering,
        Running, Stages, Launching, Stopping, Bare, Kept, Runs, Closing, MayLive, Owns
    <3>5. Bare(x)'  BY <2>1, <2>4, SMTT(30) DEF GoOn, Asks, Same, Each, Heard, Answering,
        Running, Stages, Launching, Stopping, Bare, Kept, Runs, Closing, MayLive, Owns
    <3>6. Kept(x)'  BY <2>1, <2>4, SMTT(30) DEF GoOn, Asks, Same, Each, Heard, Answering,
        Running, Stages, Launching, Stopping, Bare, Kept, Runs, Closing, MayLive, Owns
    <3>7. Closing(x)'  BY <2>1, <2>4, SMTT(30) DEF GoOn, Asks, Same, Each, Heard, Answering,
        Running, Stages, Launching, Stopping, Bare, Kept, Runs, Closing, MayLive, Owns
    <3>. QED BY <3>1, <3>2, <3>3, <3>4, <3>5, <3>6, <3>7 DEF Each
  <2>. QED BY <2>2, <2>3, <2>4
<1>. QED BY <1>1, <1>2 DEF IInv

LEMMA HandOverKeeps ==
    ASSUME IInv, NEW a \in Attempts, HandOver(a)
    PROVE  IInv'
<1>1. TypeOK'  BY HandOverType DEF IInv
<1>2. TypeOK  BY DEF IInv
<1>3. UNCHANGED <<closed, status, closer>>  BY DEF HandOver, closing
<1>4. GoOn
  <2>1. UNCHANGED <<slot, launch, late, child>> /\ start[a] = "starting"  BY DEF HandOver
  <2>2. \/ /\ start' = [start EXCEPT ![a] = "over"]
           /\ pump' = [pump EXCEPT ![a] = "prompting"]
        \/ start' = [start EXCEPT ![a] = "refusing"] /\ pump' = pump
        BY DEF HandOver
  <2>. QED BY <1>2, <2>1, <2>2 DEF GoOn, TypeOK
<1>5. ClaimStop(a, TRUE) \/ ClaimStop(a, FALSE) \/ UNCHANGED <<asked, teardown>>
      BY DEF HandOver, stops
<1>6. (Owns(a) /\ Asks(a)) \/ (asked' = asked /\ teardown' = teardown)
  <2>1. TRUE \in BOOLEAN /\ FALSE \in BOOLEAN  OBVIOUS
  <2>. QED BY <1>2, <1>5, <2>1, ClaimAsks
<1>. QED BY <1>1, <1>3, <1>4, <1>6, Asked

LEMMA PumpShutsKeeps ==
    ASSUME IInv, NEW a \in Attempts, PumpShuts(a)
    PROVE  IInv'
<1>1. TypeOK'  BY PumpShutsType DEF IInv
<1>2. TypeOK  BY DEF IInv
<1>3. UNCHANGED <<closed, status, closer>>  BY DEF PumpShuts, closing
<1>4. GoOn
  <2>1. UNCHANGED <<slot, start, launch, late, child>>  BY DEF PumpShuts, starts
  <2>2. pump[a] # "none" /\ \E p : pump' = [pump EXCEPT ![a] = p]  BY DEF PumpShuts, PumpAt
  <2>. QED BY <1>2, <2>1, <2>2 DEF GoOn, TypeOK
<1>5. ClaimStop(a, TRUE) \/ ClaimStop(a, FALSE) \/ UNCHANGED <<asked, teardown>>
      BY DEF PumpShuts, stops
<1>6. (Owns(a) /\ Asks(a)) \/ (asked' = asked /\ teardown' = teardown)
  <2>1. TRUE \in BOOLEAN /\ FALSE \in BOOLEAN  OBVIOUS
  <2>. QED BY <1>2, <1>5, <2>1, ClaimAsks
<1>. QED BY <1>1, <1>3, <1>4, <1>6, Asked

LEMMA PumpAbandonsKeeps ==
    ASSUME IInv, NEW a \in Attempts, PumpAbandons(a)
    PROVE  IInv'
<1>1. TypeOK'  BY PumpAbandonsType DEF IInv
<1>2. TypeOK  BY DEF IInv
<1>3. UNCHANGED <<closed, status, closer>>  BY DEF PumpAbandons, closing
<1>4. GoOn
  <2>1. UNCHANGED <<slot, start, launch, late, child>>  BY DEF PumpAbandons, starts
  <2>2. pump[a] # "none" /\ \E p : pump' = [pump EXCEPT ![a] = p]  BY DEF PumpAbandons, PumpAt
  <2>. QED BY <1>2, <2>1, <2>2 DEF GoOn, TypeOK
<1>5. ClaimStop(a, TRUE) \/ ClaimStop(a, FALSE) \/ UNCHANGED <<asked, teardown>>
      BY DEF PumpAbandons, stops
<1>6. (Owns(a) /\ Asks(a)) \/ (asked' = asked /\ teardown' = teardown)
  <2>1. TRUE \in BOOLEAN /\ FALSE \in BOOLEAN  OBVIOUS
  <2>. QED BY <1>2, <1>5, <2>1, ClaimAsks
<1>. QED BY <1>1, <1>3, <1>4, <1>6, Asked

LEMMA CancelKeeps ==
    ASSUME IInv, Cancel
    PROVE  IInv'
<1>1. TypeOK'  BY CancelType DEF IInv
<1>2. TypeOK /\ FALSE \in BOOLEAN  BY DEF IInv
<1>3. UNCHANGED <<closed, status, closer>>  BY DEF Cancel, closing
<1>4. GoOn
  <2>1. UNCHANGED <<slot, start, launch, late, pump, child>>  BY DEF Cancel, reads, starts
  <2>. QED BY <2>1 DEF GoOn
<1>5. slot.turn \in Attempts  BY <1>2 DEF Cancel, TypeOK, Slots, Named
<1>6. (Owns(slot.turn) /\ Asks(slot.turn)) \/ (asked' = asked /\ teardown' = teardown)
  <2>1. ClaimStop(slot.turn, FALSE) /\ Owns(slot.turn)  BY DEF Cancel, Owns
  <2>. QED BY <1>2, <1>5, <2>1, ClaimAsks
<1>. QED BY <1>1, <1>3, <1>4, <1>5, <1>6, Asked

LEMMA DropSessionKeeps ==
    ASSUME IInv, DropSession
    PROVE  IInv'
<1>1. TypeOK'  BY DropSessionType DEF IInv
<1>2. UNCHANGED <<closed, status, closer>>  BY DEF DropSession, closing
<1>3. GoOn
  <2>1. UNCHANGED <<slot, start, launch, late, pump, child>>  BY DEF DropSession, reads, starts
  <2>. QED BY <2>1 DEF GoOn
<1>4. \/ slot.turn \in Attempts /\ Asks(slot.turn)
      \/ asked' = asked /\ teardown' = teardown
  <2>1. \/ slot.turn \in Attempts /\ TakeTurn
        \/ asked' = asked /\ teardown' = teardown
        BY DEF DropSession
  <2>. QED BY <2>1, TakeAsks DEF IInv
<1>. QED BY <1>1, <1>2, <1>3, <1>4, Asked DEF Owns

LEMMA CloseKeeps ==
    ASSUME IInv, Close
    PROVE  IInv'
<1>1. TypeOK'  BY CloseType DEF IInv
<1>2. TypeOK /\ CloserInv  BY DEF IInv
<1>3. /\ ~closed /\ closed' /\ status' = "closing"
      /\ closer'.at = "waiting" /\ closer'.on = slot.turn /\ closer'.proven = closer.proven
      BY <1>2 DEF Close, TypeOK, Closers
<1>4. GoOn
  <2>1. UNCHANGED <<slot, start, launch, late, pump, child>>  BY DEF Close, reads, starts
  <2>. QED BY <2>1 DEF GoOn
<1>5. CloserInv'  BY <1>2, <1>3 DEF CloserInv
<1>6. \/ slot.turn \in Attempts /\ Asks(slot.turn)
      \/ slot.turn = NoAttempt /\ asked' = asked /\ teardown' = teardown
      BY <1>2, TakeAsks DEF Close, TypeOK, Slots, Named
<1>7. ASSUME NEW x \in Attempts PROVE Each(x)'
  <2>1. Each(x)  BY DEF IInv
  <2>2. CASE ~Owns(x)
    <3>1. teardown'[x] = teardown[x]  BY <1>6, <2>2 DEF Asks, Owns
    <3>. QED BY <1>2, <1>3, <1>4, <2>1, <2>2, <3>1, SMTT(30) DEF CloserInv, GoOn, Each, Heard,
        Answering, Running, Stages, Launching, Stopping, Bare, Kept, Runs, Closing, MayLive,
        Owns
  <2>3. CASE Owns(x)
    <3>0. Asks(x)  BY <1>6, <2>3, NoAttemptAssumption DEF Owns
    <3>1. Heard(x)'  BY <1>2, <1>3, <1>4, <2>1, <2>3, <3>0, SMTT(30) DEF CloserInv, GoOn, Asks,
        Same, Each, Heard, Answering, Running, Stages, Launching, Stopping, Bare, Kept, Runs,
        Closing, MayLive, Owns
    <3>2. Stages(x)'  BY <1>2, <1>3, <1>4, <2>1, <2>3, <3>0, SMTT(30) DEF CloserInv, GoOn, Asks,
        Same, Each, Heard, Answering, Running, Stages, Launching, Stopping, Bare, Kept, Runs,
        Closing, MayLive, Owns
    <3>3. Launching(x)'  BY <1>2, <1>3, <1>4, <2>1, <2>3, <3>0, SMTT(30) DEF CloserInv, GoOn,
        Asks, Same, Each, Heard, Answering, Running, Stages, Launching, Stopping, Bare, Kept,
        Runs, Closing, MayLive, Owns
    <3>4. Stopping(x)'  BY <1>2, <1>3, <1>4, <2>1, <2>3, <3>0, SMTT(30) DEF CloserInv, GoOn,
        Asks, Same, Each, Heard, Answering, Running, Stages, Launching, Stopping, Bare, Kept,
        Runs, Closing, MayLive, Owns
    <3>5. Bare(x)'  BY <1>2, <1>3, <1>4, <2>1, <2>3, <3>0, SMTT(30) DEF CloserInv, GoOn, Asks,
        Same, Each, Heard, Answering, Running, Stages, Launching, Stopping, Bare, Kept, Runs,
        Closing, MayLive, Owns
    <3>6. Kept(x)'  BY <1>2, <1>3, <1>4, <2>1, <2>3, <3>0, SMTT(30) DEF CloserInv, GoOn, Asks,
        Same, Each, Heard, Answering, Running, Stages, Launching, Stopping, Bare, Kept, Runs,
        Closing, MayLive, Owns
    <3>7. Closing(x)'  BY <1>2, <1>3, <1>4, <2>1, <2>3, <3>0, SMTT(30) DEF CloserInv, GoOn,
        Asks, Same, Each, Heard, Answering, Running, Stages, Launching, Stopping, Bare, Kept,
        Runs, Closing, MayLive, Owns
    <3>. QED BY <3>1, <3>2, <3>3, <3>4, <3>5, <3>6, <3>7 DEF Each
  <2>. QED BY <2>2, <2>3
<1>. QED BY <1>1, <1>5, <1>7 DEF IInv

-----------------------------------------------------------------------------
(* The close worker.                                                        *)

\* It moves nothing but the close, once the turn it was on is without a child.
LEMMA Closes ==
    ASSUME IInv, TypeOK', closed, closed' = closed, closer'.at # "none",
           UNCHANGED <<slot, asked, teardown, start, launch, late, pump, child>>,
           closer'.on = closer.on,
           \/ status' = status
           \/ \A x \in Attempts : ~MayLive(x),
           \/ closer'.at # "removing" /\ closer'.proven = closer.proven
           \/ \A x \in Attempts : closer.on = x => ~MayLive(x)
    PROVE  IInv'
<1>1. CloserInv'  BY DEF IInv, CloserInv
<1>2. ASSUME NEW x \in Attempts PROVE Each(x)'
  <2>1. Each(x)  BY DEF IInv
  <2>. QED BY <2>1, SMTT(30) DEF Each, Heard, Answering, Running, Stages, Launching, Stopping,
      Bare, Kept, Runs, Closing, MayLive, Owns
<1>. QED BY <1>1, <1>2 DEF IInv

\* A closed session has no child but that of the turn its close was on.
LEMMA OnlyOn ==
    ASSUME IInv, closed, \A x \in Attempts : closer.on = x => ~MayLive(x)
    PROVE  \A x \in Attempts : ~MayLive(x)
<1> SUFFICES ASSUME NEW x \in Attempts PROVE ~MayLive(x)  OBVIOUS
<1>1. Each(x)  BY DEF IInv
<1>. QED BY <1>1 DEF Each, Kept, Runs, Launching, Closing, MayLive

LEMMA CloserStoppedKeeps ==
    ASSUME IInv, CloserStopped
    PROVE  IInv'
<1>1. TypeOK'  BY CloserStoppedType DEF IInv
<1>2. UNCHANGED <<closed, slot, asked, teardown, start, launch, late, pump, child>>
      BY DEF CloserStopped, stops, starts, reads
<1>3. TypeOK /\ CloserInv  BY DEF IInv
<1>4. \A x \in Attempts : Each(x)  BY DEF IInv
<1>5. /\ closed /\ closer'.at # "none" /\ closer'.on = closer.on /\ status' = status
      /\ (closer'.at = "removing" \/ closer'.proven # closer.proven) => StopOf.outcome = "ok"
      BY <1>3, ZenonT(60) DEF CloserStopped, CloserAt, TypeOK, Closers, CloserInv
<1>6. \A x \in Attempts : closer.on = x /\ StopOf.outcome = "ok" => ~MayLive(x)
      BY <1>4, NoAttemptAssumption DEF StopOf, Each, Kept
<1>. QED BY <1>1, <1>2, <1>5, <1>6, Closes

LEMMA CloserGivesUpKeeps ==
    ASSUME IInv, CloserGivesUp
    PROVE  IInv'
<1>1. TypeOK'  BY CloserGivesUpType DEF IInv
<1>2. UNCHANGED <<closed, slot, asked, teardown, start, launch, late, pump, child>>
      BY DEF CloserGivesUp, stops, starts, reads
<1>3. TypeOK /\ CloserInv  BY DEF IInv
<1>4. /\ closed /\ closer'.at = "over" /\ closer'.on = closer.on /\ status' = status
      /\ closer'.proven = closer.proven
      BY <1>3 DEF CloserGivesUp, CloserAt, TypeOK, Closers, CloserInv
<1>. QED BY <1>1, <1>2, <1>4, Closes

LEMMA CloserRemovedKeeps ==
    ASSUME IInv, CloserRemoved
    PROVE  IInv'
<1>1. TypeOK'  BY CloserRemovedType DEF IInv
<1>2. UNCHANGED <<closed, slot, asked, teardown, start, launch, late, pump, child>>
      BY DEF CloserRemoved, stops, starts, reads
<1>3. TypeOK /\ CloserInv  BY DEF IInv
<1>4. /\ closed /\ closer'.at = "over" /\ closer'.on = closer.on
      /\ closer'.proven = closer.proven
      BY <1>3 DEF CloserRemoved, CloserAt, TypeOK, Closers, CloserInv
<1>5. \A x \in Attempts : closer.on = x => ~MayLive(x)
      BY DEF IInv, Each, Closing, CloserRemoved
<1>6. \A x \in Attempts : ~MayLive(x)  BY <1>4, <1>5, OnlyOn
<1>. QED BY <1>1, <1>2, <1>4, <1>6, Closes

LEMMA LoseCloserKeeps ==
    ASSUME IInv, LoseCloser
    PROVE  IInv'
<1>1. TypeOK'  BY LoseCloserType DEF IInv
<1>2. UNCHANGED <<closed, slot, asked, teardown, start, launch, late, pump, child>>
      BY DEF LoseCloser, stops, starts, reads
<1>3. TypeOK /\ CloserInv  BY DEF IInv
<1>4. \A x \in Attempts : Each(x)  BY DEF IInv
<1>5. /\ closed /\ closer'.at = "over" /\ closer'.on = closer.on
      /\ closer'.proven = closer.proven
      /\ \/ status' = status
         \/ closer.proven \/ StopOf.proven \/ StopOf.outcome = "ok"
      BY <1>3 DEF LoseCloser, CloserAt, TypeOK, Closers, CloserInv
<1>6. closer.proven \/ StopOf.proven \/ StopOf.outcome = "ok" =>
        \A x \in Attempts : closer.on = x => ~MayLive(x)
      BY <1>4, NoAttemptAssumption DEF StopOf, Each, Kept, Closing
<1>7. CASE status' = status  BY <1>1, <1>2, <1>5, <1>7, Closes
<1>8. CASE closer.proven \/ StopOf.proven \/ StopOf.outcome = "ok"
  <2>1. \A x \in Attempts : ~MayLive(x)  BY <1>5, <1>6, <1>8, OnlyOn
  <2>. QED BY <1>1, <1>2, <1>5, <2>1, Closes
<1>. QED BY <1>5, <1>7, <1>8

LEMMA CloseAgainKeeps ==
    ASSUME IInv, CloseAgain
    PROVE  IInv'
<1>1. TypeOK'  BY CloseAgainType DEF IInv
<1>2. UNCHANGED <<closed, slot, asked, teardown, start, launch, late, pump, child>>
      BY DEF CloseAgain, stops, starts, reads
<1>3. TypeOK /\ CloserInv  BY DEF IInv
<1>4. /\ closed /\ closer'.at = "over" /\ closer'.on = closer.on
      /\ closer'.proven = closer.proven
      BY <1>3 DEF CloseAgain, CloserAt, TypeOK, Closers, CloserInv
<1>5. ASSUME NEW x \in Attempts PROVE ~MayLive(x)
  <2>1. Each(x)  BY DEF IInv
  <2>. QED BY <2>1 DEF CloseAgain, Each, Kept, Runs, Launching, MayLive
<1>. QED BY <1>1, <1>2, <1>4, <1>5, Closes

-----------------------------------------------------------------------------
(* The theorems.                                                            *)

LEMMA InitHolds == Init => IInv
<1> SUFFICES ASSUME Init PROVE IInv  OBVIOUS
<1>1. TypeOK
  <2>1. slot \in Slots  BY DEF Init, Slots, Free, Named
  <2>2. teardown \in [Attempts -> Teardowns]  BY NoTeardownType DEF Init
  <2>3. story \in Stories  BY DEF Init, Stories
  <2>4. artifact \in Artifacts  BY DEF Init, Artifacts
  <2>5. closer \in Closers  BY DEF Init, Closers, Named, Outcomes
  <2>6. past \in Pasts  BY DEF Init, Pasts
  <2>. QED BY <2>1, <2>2, <2>3, <2>4, <2>5, <2>6 DEF Init, TypeOK, PumpPlaces
<1>2. CloserInv  BY DEF Init, CloserInv
<1>3. ASSUME NEW x \in Attempts PROVE Each(x)
  <2>1. ~Owns(x)  BY NoAttemptAssumption DEF Init, Owns, Free
  <2>2. /\ teardown[x].at = "none" /\ teardown[x].outcome = "none"
        /\ ~teardown[x].proven
        BY DEF Init, NoTeardown
  <2>. QED BY <2>1, <2>2, NoAttemptAssumption DEF Init, Each, Heard, Answering, Running, Stages,
      Launching, Stopping, Bare, Kept, Runs, Closing, MayLive
<1>. QED BY <1>1, <1>2, <1>3 DEF IInv

LEMMA NextKeeps == IInv /\ [Next]_vars => IInv'
<1> SUFFICES ASSUME IInv, [Next]_vars PROVE IInv'  OBVIOUS
<1>1. ASSUME NEW a \in Attempts, Start(a) PROVE IInv'
      BY <1>1, AdmitKeeps, StartFailsKeeps, InstallKeeps, StartStoppedKeeps, ReleaseLeaseKeeps,
          RecheckKeeps, HandOverKeeps, StartRefusedKeeps, DropStartKeeps DEF Start
<1>2. ASSUME NEW a \in Attempts, Late(a) PROVE IInv'
      BY <1>2, LateLaunchKeeps, LateStopKeeps, LateStoppedKeeps, LoseLateKeeps DEF Late
<1>3. ASSUME NEW a \in Attempts, Worker(a) PROVE IInv'
      BY <1>3, AskStopKeeps, StopReturnsKeeps, RecordStopKeeps, PublishOutcomeKeeps,
          LoseWorkerKeeps DEF Worker
<1>4. ASSUME NEW a \in Attempts, PumpSteps(a) PROVE IInv'
      BY <1>4, PromptedKeeps, PumpStoppedKeeps, PumpShutsKeeps, PumpAbandonsKeeps,
          EventRefusedKeeps, PumpAbandonedKeeps, ReadInitKeeps, ReadResultKeeps, ReapEarlyKeeps,
          ReportedKeeps, ReadEndsKeeps, FinishKeeps, ReapKeeps, ReapedKeeps DEF PumpSteps
<1>5. ASSUME Closer PROVE IInv'
      BY <1>5, CloserStoppedKeeps, CloserGivesUpKeeps, CloserRemovedKeeps, LoseCloserKeeps DEF
          Closer
<1>6. ASSUME UNCHANGED vars PROVE IInv'
  <2>1. TypeOK'
        BY <1>6 DEF IInv, TypeOK, vars, hostSide, closing, stops, starts, reads, stored
  <2>. QED BY <1>6, <2>1, Quiet DEF vars, closing, stops, starts, reads
<1>. QED BY <1>1, <1>2, <1>3, <1>4, <1>5, <1>6, LauncherReturnsKeeps, ChildExitsKeeps,
    StreamDroppedKeeps, RuntimeEndsKeeps, HostShutsDownKeeps, CancelKeeps, DropSessionKeeps,
    CloseKeeps, CloseAgainKeeps DEF Next

\* The invariant holds of every behaviour.
LEMMA Invariant == Spec => []IInv
<1>. QED BY InitHolds, NextKeeps, PTL DEF Spec

\* Every variable of a session keeps its type.
THEOREM TypeCorrect == Spec => []TypeOK
<1>1. IInv => TypeOK  BY DEF IInv
<1>. QED BY <1>1, Invariant, PTL

\* Whoever waits for the stop of a turn hears of it, for any number of starts.
THEOREM StopHasAnAnswererHolds == Spec => []StopHasAnAnswerer
<1>1. IInv => StopHasAnAnswerer
      BY DEF IInv, Each, Heard, Answering, Running, StopHasAnAnswerer
<1>. QED BY <1>1, Invariant, PTL

\* A child that runs or may yet run holds the slot of a session that is not closed.
THEOREM ChildIsAccountedForHolds == Spec => []ChildIsAccountedFor
<1>1. ASSUME IInv, NEW a \in Attempts, MayLive(a) PROVE Owns(a) /\ status # "closed"
  <2>1. Each(a)  BY <1>1 DEF IInv
  <2>. QED BY <1>1, <2>1 DEF Each, Kept, Runs, Launching, Closing, MayLive
<1>2. IInv => ChildIsAccountedFor  BY <1>1 DEF ChildIsAccountedFor
<1>. QED BY <1>2, Invariant, PTL

-----------------------------------------------------------------------------
(* What becomes of the slot, of the configuration and of the story.         *)

\* The configuration: whoever launches holds a share of it until the control of the
\* child is installed, and a close lets go only of a child whose stop it knows.
Leased(a) ==
    /\ closed /\ Owns(a) /\ slot.control => teardown[a].at \notin {"none", "idle"}
    /\ start[a] \in {"releasing", "starting", "refusing"} /\ Owns(a) => slot.control
    /\ runtime /\ MayLive(a) /\ ~artifact.kept =>
          /\ ~slot.control => a \in artifact.held
          /\ artifact.by = "nobody" => ~slot.control

\* Somebody of the attempt is left to settle the slot, or its worker will, or a stop
\* that failed keeps it, or a stop that was recorded found nobody left to settle it.
Attended(a) ==
    \/ start[a] # "over"
    \/ late[a] \in {"waiting", "holding", "stopping"}
    \/ pump[a] \notin {"none", "over"}

Decided(a) ==
    \/ teardown[a].outcome \in {"owed", "lost"}
    \/ /\ teardown[a].at \in {"queued", "stopping", "stopped"}
       /\ slot.settled \/ teardown[a].settles
    \/ teardown[a].at = "recorded" /\ teardown[a].how = "failed"
    \/ /\ teardown[a].at \in {"recorded", "over"}
       /\ slot.stopped /\ late[a] = "none" /\ pump[a] = "none"

\* The stop of a turn that was asked to stop has begun, or waits for its launch.
Begun(a) ==
    /\ teardown[a].at = "idle" => a \in asked
    /\ Owns(a) =>
        /\ start[a] = "refusing" \/ pump[a] = "abandoning" => a \in asked
        /\ pump[a] = "reaping" => teardown[a].at \notin {"none", "idle"}
        /\ pump[a] # "none" => slot.control
        /\ runtime /\ slot.control /\ a \in asked =>
              teardown[a].at \notin {"none", "idle"} \/ late[a] \in {"waiting", "holding"}

\* The slot knows of a stop that went well before anybody hears of it.
Settling(a) ==
    /\ runtime /\ teardown[a].outcome # "none" => teardown[a].at = "over"
    /\ Owns(a) /\ teardown[a].at = "recorded" /\ teardown[a].how # "failed" => slot.stopped
    /\ Owns(a) /\ teardown[a].outcome = "ok" => slot.stopped
    /\ runtime /\ Owns(a) /\ ~Attended(a) => Decided(a)

\* Who starts and reads owns the slot, and so does a worker until it has recorded; the
\* slot is not given up before they are through.
Owning(a) ==
    /\ pump[a] \notin {"none", "over", "abandoning"} \/ start[a] = "starting" => Owns(a)
    /\ teardown[a].at \in {"queued", "stopping", "stopped"} => Owns(a)
    /\ teardown[a].settles => /\ start[a] \in {"stopping", "refusing", "over"}
                              /\ pump[a] \in {"none", "abandoning", "over"}
    /\ Owns(a) /\ slot.settled => start[a] = "over" /\ pump[a] \in {"none", "over"}

\* A child that was killed before the vendor finished its turn refuses the next turn,
\* or keeps the slot; a story that reads as finished is that of a turn the vendor
\* finished, or of a child that went by itself.
Earning(a) ==
    /\ ~teardown[a].taints => a \in native
    /\ teardown[a].at \in {"none", "idle", "queued", "stopping"} => teardown[a].how = "none"
    /\ teardown[a].at \in {"stopped", "recorded"} => teardown[a].how # "none"
    /\ a \notin native /\ teardown[a].at \in {"recorded", "over"} /\ teardown[a].how = "killed" =>
          story.refused \/ (Owns(a) /\ ~slot.stopped)
    /\ story.taint = "none" /\ story.finished /\ a \notin native /\ Owns(a) =>
          teardown[a].how = "interrupted"

Good(a) == Leased(a) /\ Begun(a) /\ Settling(a) /\ Owning(a) /\ Earning(a)

\* The close that took the lifecycle took the configuration with it.
Handed == artifact.by = "session" <=> ~closed

\* What is published of the story is true of it.
Told ==
    /\ story.refused => story.taint # "none"
    /\ verdict = "resumable" => story.taint = "none" /\ story.finished

Care == Handed /\ Told /\ \A a \in Attempts : Good(a)

-----------------------------------------------------------------------------
(* What a step does to the attempts it is not of.                           *)

\* A step of a leaves the slot, the shares and the story of another as they are.
Beside(a) ==
    /\ UNCHANGED <<closed, runtime>>
    /\ slot' = slot \/ (slot.turn \in {a, NoAttempt} /\ slot'.turn \in {a, NoAttempt})
    /\ artifact'.by = artifact.by
    /\ artifact.kept => artifact'.kept
    /\ story.refused => story'.refused
    /\ \A y \in Attempts \ {a} :
          /\ (y \in asked' <=> y \in asked) /\ (y \in native' <=> y \in native)
          /\ y \in artifact.held => y \in artifact'.held
          /\ Owns(y) /\ story'.taint = "none" /\ story'.finished =>
                story.taint = "none" /\ story.finished

LEMMA Bystander ==
    ASSUME NEW a \in Attempts, OnlyOf(a), Beside(a), NEW x \in Attempts \ {a},
           Each(x), Good(x)
    PROVE  Good(x)'
<1>1. /\ teardown'[x] = teardown[x] /\ start'[x] = start[x] /\ launch'[x] = launch[x]
      /\ late'[x] = late[x] /\ pump'[x] = pump[x] /\ child'[x] = child[x]
      /\ UNCHANGED <<closed, runtime>> /\ (x \in asked' <=> x \in asked)
      /\ (x \in native' <=> x \in native) /\ (x \in artifact.held => x \in artifact'.held)
      /\ artifact'.by = artifact.by /\ (artifact.kept => artifact'.kept)
      BY DEF OnlyOf, Beside
<1>2. (Owns(x)' <=> Owns(x)) /\ (Owns(x) => slot' = slot)
      BY NoAttemptAssumption DEF Beside, Owns
<1>3. Leased(x)'
  <2>1. MayLive(x) => Owns(x)  BY DEF Each, Kept, Runs, Launching, MayLive
  <2>2. MayLive(x)' <=> MayLive(x)  BY <1>1 DEF MayLive
  <2>. QED BY <1>1, <1>2, <2>1, <2>2 DEF Good, Leased
<1>4. Begun(x)'  BY <1>1, <1>2 DEF Good, Begun
<1>5. Settling(x)'  BY <1>1, <1>2 DEF Good, Settling, Attended, Decided
<1>6. Owning(x)'  BY <1>1, <1>2 DEF Good, Owning
<1>7. Earning(x)'  BY <1>1, <1>2 DEF Good, Earning, Beside
<1>. QED BY <1>3, <1>4, <1>5, <1>6, <1>7 DEF Good

LEMMA Telling ==
    ASSUME TypeOK', Told, story'.refused => story'.taint # "none",
           Publish \/ UNCHANGED <<story, verdict>>
    PROVE  Told'
BY DEF Told, Publish, Verdict, TypeOK, Stories

\* A step of one attempt keeps the whole, once it keeps what concerns the attempt.
LEMMA OfOne ==
    ASSUME IInv, IInv', Care, NEW a \in Attempts, OnlyOf(a), Beside(a),
           story'.refused => story'.taint # "none",
           Publish \/ UNCHANGED <<story, verdict>>, Good(a)'
    PROVE  Care'
<1>1. Told'  BY Telling DEF Care, IInv
<1>2. Handed'  BY DEF Care, Handed, Beside
<1>3. ASSUME NEW x \in Attempts PROVE Good(x)'  BY <1>3, Bystander DEF Care, IInv
<1>. QED BY <1>1, <1>2, <1>3 DEF Care

-----------------------------------------------------------------------------
(* The slot, the share and the flags, field by field.                       *)

LEMMA SettleFields ==
    ASSUME TypeOK, NEW a \in Attempts, Settle(a)
    PROVE  /\ ~Owns(a) => slot' = slot
           /\ Owns(a) /\ slot.stopped => slot'.turn = NoAttempt
           /\ Owns(a) /\ ~slot.stopped =>
                 slot'.turn = a /\ slot'.control = slot.control /\ ~slot'.stopped /\ slot'.settled
BY DEF Settle, TypeOK, Slots, Free, Owns

LEMMA ReleaseFields ==
    ASSUME TypeOK, NEW a \in Attempts, NEW b, Release(a, b)
    PROVE  /\ artifact'.held = artifact.held \ {a} /\ artifact'.by = artifact.by
           /\ artifact'.kept <=> artifact.kept \/ (a \in artifact.held /\ ~b)
BY DEF Release, TypeOK, Artifacts

LEMMA MadeFlags ==
    ASSUME NEW t \in Teardowns, NEW b
    PROVE  /\ Made(t, b).settles = t.settles
           /\ Made(t, b).taints = IF t.at = "none" THEN b ELSE t.taints
BY DEF Made, Teardowns

LEMMA StartedFlags ==
    ASSUME NEW t \in Teardowns, NEW b
    PROVE  /\ Started(t, b).taints = t.taints
           /\ Started(t, b).settles = IF t.at = "idle" THEN b ELSE t.settles
BY DEF Started, Teardowns

\* What a stop that is made and begun at once looks like.
LEMMA MadeStartedFlags ==
    ASSUME NEW t \in Teardowns, NEW b \in BOOLEAN, NEW c \in BOOLEAN
    PROVE  /\ Started(Made(t, b), c).taints = IF t.at = "none" THEN b ELSE t.taints
           /\ Started(Made(t, b), c).settles = IF t.at \in {"none", "idle"} THEN c ELSE t.settles
<1>1. Made(t, b) \in Teardowns  BY TeardownType
<1>2. Made(t, b).at = IF t.at = "none" THEN "idle" ELSE t.at  BY MadeFields
<1>. QED BY <1>1, <1>2, MadeFlags, StartedFlags

-----------------------------------------------------------------------------
(* What waited for a stop settles the slot.                                 *)

LEMMA StartStoppedCares ==
    ASSUME IInv, IInv', Care, NEW a \in Attempts, StartStopped(a)
    PROVE  Care'
<1>1. TypeOK /\ Each(a) /\ Each(a)' /\ Good(a) /\ Told  BY DEF IInv, Care
<1>2. /\ teardown[a] \in Teardowns /\ teardown[a].at \in Places
      /\ teardown[a].outcome \in Outcomes
      BY <1>1 DEF TypeOK, Teardowns
<1>3. OnlyOf(a)  BY <1>1 DEF TypeOK, OnlyOf, StartStopped, closing, stops, starts, reads,
    stored
<1>4. /\ UNCHANGED <<closed, runtime, asked, teardown, launch, late, pump, native, child,
                     story, verdict>>
      /\ start[a] = "stopping" /\ start'[a] = "over" /\ Answered(a)
      BY <1>1 DEF TypeOK, StartStopped, closing, hostSide, stops, starts, reads, stored
<1>5. /\ ~Owns(a) => slot' = slot
      /\ Owns(a) /\ slot.stopped => slot'.turn = NoAttempt
      /\ Owns(a) /\ ~slot.stopped =>
            slot'.turn = a /\ slot'.control = slot.control /\ ~slot'.stopped /\ slot'.settled
      BY <1>1, SettleFields DEF StartStopped
<1>6. /\ artifact'.held = artifact.held \ {a} /\ artifact'.by = artifact.by
      /\ artifact'.kept <=> artifact.kept \/ (a \in artifact.held /\ ~(teardown[a].outcome \in {"ok", "none"}))
      BY <1>1, ReleaseFields DEF StartStopped
<1>7. Beside(a)  BY <1>4, <1>5, <1>6 DEF Beside, Owns
<1>8. (story'.refused => story'.taint # "none") /\ (Publish \/ UNCHANGED <<story, verdict>>)
      BY <1>1, <1>4, <1>5, <1>6 DEF Told
<1>9. Leased(a)'  BY <1>1, <1>4, <1>5, <1>6 DEF Good, Leased, Each, Launching, Stopping,
    Kept, Runs, MayLive, Owns, Answered
<1>10. Begun(a)'  BY <1>1, <1>4, <1>5, NoAttemptAssumption DEF Good, Begun, Owns
<1>11. Settling(a)'  BY <1>1, <1>2, <1>4, <1>5, NoAttemptAssumption DEF Good, Settling,
    Decided, Each, Stopping, Owns, Places, Outcomes
<1>12. Owning(a)'  BY <1>1, <1>4, <1>5 DEF Good, Owning, Each, Stages, Stopping, Owns
<1>13. Earning(a)'  BY <1>1, <1>4, <1>5 DEF Good, Earning, Owns
<1>. QED BY <1>3, <1>7, <1>8, <1>9, <1>10, <1>11, <1>12, <1>13, OfOne DEF Good

LEMMA StartRefusedCares ==
    ASSUME IInv, IInv', Care, NEW a \in Attempts, StartRefused(a)
    PROVE  Care'
<1>1. TypeOK /\ Each(a) /\ Each(a)' /\ Good(a) /\ Told  BY DEF IInv, Care
<1>2. /\ teardown[a] \in Teardowns /\ teardown[a].at \in Places
      /\ teardown[a].outcome \in Outcomes
      BY <1>1 DEF TypeOK, Teardowns
<1>3. OnlyOf(a)  BY <1>1 DEF TypeOK, OnlyOf, StartRefused, closing, stops, starts, reads,
    stored
<1>4. /\ UNCHANGED <<closed, runtime, asked, teardown, launch, late, pump, native, child,
                     story, verdict,
                     artifact>>
      /\ start[a] = "refusing" /\ start'[a] = "over" /\ Answered(a)
      BY <1>1 DEF TypeOK, StartRefused, closing, hostSide, stops, starts, reads, stored
<1>5. /\ ~Owns(a) => slot' = slot
      /\ Owns(a) /\ slot.stopped => slot'.turn = NoAttempt
      /\ Owns(a) /\ ~slot.stopped =>
            slot'.turn = a /\ slot'.control = slot.control /\ ~slot'.stopped /\ slot'.settled
      BY <1>1, SettleFields DEF StartRefused
<1>6. Beside(a)  BY <1>4, <1>5 DEF Beside, Owns
<1>7. (story'.refused => story'.taint # "none") /\ (Publish \/ UNCHANGED <<story, verdict>>)
      BY <1>1, <1>4, <1>5 DEF Told
<1>8. Leased(a)'  BY <1>1, <1>4, <1>5 DEF Good, Leased, Each, Launching, Kept, Runs,
    MayLive, Owns
<1>9. Begun(a)'  BY <1>1, <1>4, <1>5, NoAttemptAssumption DEF Good, Begun, Owns
<1>10. Settling(a)'  BY <1>1, <1>2, <1>4, <1>5, NoAttemptAssumption DEF Good, Leased, Begun,
    Settling, Attended, Decided, Owns, Outcomes, Answered
<1>11. Owning(a)'  BY <1>1, <1>4, <1>5 DEF Good, Owning, Each, Stages, Stopping, Owns
<1>12. Earning(a)'  BY <1>1, <1>4, <1>5 DEF Good, Earning, Owns
<1>. QED BY <1>3, <1>6, <1>7, <1>8, <1>9, <1>10, <1>11, <1>12, OfOne DEF Good

LEMMA LateStoppedCares ==
    ASSUME IInv, IInv', Care, NEW a \in Attempts, LateStopped(a)
    PROVE  Care'
<1>1. TypeOK /\ Each(a) /\ Each(a)' /\ Good(a) /\ Told  BY DEF IInv, Care
<1>2. /\ teardown[a] \in Teardowns /\ teardown[a].at \in Places
      /\ teardown[a].outcome \in Outcomes
      BY <1>1 DEF TypeOK, Teardowns
<1>3. OnlyOf(a)  BY <1>1 DEF TypeOK, OnlyOf, LateStopped, closing, stops, starts, reads,
    stored
<1>4. /\ UNCHANGED <<closed, runtime, asked, teardown, launch, start, pump, native, child,
                     story, verdict>>
      /\ late[a] = "stopping" /\ late'[a] = "over" /\ Answered(a)
      BY <1>1 DEF TypeOK, LateStopped, closing, hostSide, stops, starts, reads, stored
<1>5. /\ ~Owns(a) => slot' = slot
      /\ Owns(a) /\ slot.stopped => slot'.turn = NoAttempt
      /\ Owns(a) /\ ~slot.stopped =>
            slot'.turn = a /\ slot'.control = slot.control /\ ~slot'.stopped /\ slot'.settled
      BY <1>1, SettleFields DEF LateStopped
<1>6. /\ artifact'.held = artifact.held \ {a} /\ artifact'.by = artifact.by
      /\ artifact'.kept <=> artifact.kept \/ (a \in artifact.held /\ ~(teardown[a].outcome \in {"ok", "none"}))
      BY <1>1, ReleaseFields DEF LateStopped
<1>7. Beside(a)  BY <1>4, <1>5, <1>6 DEF Beside, Owns
<1>8. (story'.refused => story'.taint # "none") /\ (Publish \/ UNCHANGED <<story, verdict>>)
      BY <1>1, <1>4, <1>5, <1>6 DEF Told
<1>9. Leased(a)'  BY <1>1, <1>4, <1>5, <1>6, NoAttemptAssumption DEF Good, Leased, Each,
    Launching, Stopping, Kept, Runs, MayLive, Owns, Answered
<1>10. Begun(a)'  BY <1>1, <1>4, <1>5, NoAttemptAssumption DEF Good, Begun, Owns
<1>11. Settling(a)'  BY <1>1, <1>2, <1>4, <1>5, NoAttemptAssumption DEF Good, Settling,
    Decided, Each, Stopping, Owns, Places, Outcomes
<1>12. Owning(a)'  BY <1>1, <1>4, <1>5 DEF Good, Owning, Each, Stages, Stopping, Owns
<1>13. Earning(a)'  BY <1>1, <1>4, <1>5 DEF Good, Earning, Owns
<1>. QED BY <1>3, <1>7, <1>8, <1>9, <1>10, <1>11, <1>12, <1>13, OfOne DEF Good

LEMMA PumpAbandonedCares ==
    ASSUME IInv, IInv', Care, NEW a \in Attempts, PumpAbandoned(a)
    PROVE  Care'
<1>1. TypeOK /\ Each(a) /\ Each(a)' /\ Good(a) /\ Told  BY DEF IInv, Care
<1>2. /\ teardown[a] \in Teardowns /\ teardown[a].at \in Places
      /\ teardown[a].outcome \in Outcomes
      BY <1>1 DEF TypeOK, Teardowns
<1>3. OnlyOf(a)  BY <1>1 DEF TypeOK, OnlyOf, PumpAbandoned, PumpAt, closing, stops, starts,
    reads, stored
<1>4. /\ UNCHANGED <<closed, runtime, asked, teardown, start, launch, late, native, child,
                     story, verdict,
                     artifact>>
      /\ pump[a] = "abandoning" /\ pump'[a] = "over" /\ Answered(a)
      BY <1>1 DEF TypeOK, PumpAbandoned, PumpAt, closing, hostSide, stops, starts, reads, stored
<1>5. /\ ~Owns(a) => slot' = slot
      /\ Owns(a) /\ slot.stopped => slot'.turn = NoAttempt
      /\ Owns(a) /\ ~slot.stopped =>
            slot'.turn = a /\ slot'.control = slot.control /\ ~slot'.stopped /\ slot'.settled
      BY <1>1, SettleFields DEF PumpAbandoned
<1>6. Beside(a)  BY <1>4, <1>5 DEF Beside, Owns
<1>7. (story'.refused => story'.taint # "none") /\ (Publish \/ UNCHANGED <<story, verdict>>)
      BY <1>1, <1>4, <1>5 DEF Told
<1>8. Leased(a)'  BY <1>1, <1>4, <1>5, NoAttemptAssumption DEF Good, Leased, Each,
    Launching, Kept, Runs, MayLive, Owns
<1>9. Begun(a)'  BY <1>1, <1>4, <1>5, NoAttemptAssumption DEF Good, Begun, Owns
<1>10. Settling(a)'  BY <1>1, <1>2, <1>4, <1>5, NoAttemptAssumption DEF Good, Begun,
    Settling, Attended, Decided, Owns, Outcomes, Answered
<1>11. Owning(a)'  BY <1>1, <1>4, <1>5 DEF Good, Owning, Each, Stages, Stopping, Owns
<1>12. Earning(a)'  BY <1>1, <1>4, <1>5 DEF Good, Earning, Owns
<1>. QED BY <1>3, <1>6, <1>7, <1>8, <1>9, <1>10, <1>11, <1>12, OfOne DEF Good

LEMMA ReapedCares ==
    ASSUME IInv, IInv', Care, NEW a \in Attempts, Reaped(a)
    PROVE  Care'
<1>1. TypeOK /\ Each(a) /\ Each(a)' /\ Good(a) /\ Told  BY DEF IInv, Care
<1>2. /\ teardown[a] \in Teardowns /\ teardown[a].at \in Places
      /\ teardown[a].outcome \in Outcomes
      BY <1>1 DEF TypeOK, Teardowns
<1>3. OnlyOf(a)  BY <1>1 DEF TypeOK, OnlyOf, Reaped, PumpAt, closing, stops, starts, reads,
    stored
<1>4. /\ UNCHANGED <<closed, runtime, asked, teardown, start, launch, late, native, child,
                     story, verdict,
                     artifact>>
      /\ pump[a] = "reaping" /\ pump'[a] = "over" /\ Answered(a)
      BY <1>1 DEF TypeOK, Reaped, PumpAt, closing, hostSide, stops, starts, reads, stored
<1>5. /\ ~Owns(a) => slot' = slot
      /\ Owns(a) /\ slot.stopped => slot'.turn = NoAttempt
      /\ Owns(a) /\ ~slot.stopped =>
            slot'.turn = a /\ slot'.control = slot.control /\ ~slot'.stopped /\ slot'.settled
      BY <1>1, SettleFields DEF Reaped
<1>6. Beside(a)  BY <1>4, <1>5 DEF Beside, Owns
<1>7. (story'.refused => story'.taint # "none") /\ (Publish \/ UNCHANGED <<story, verdict>>)
      BY <1>1, <1>4, <1>5 DEF Told
<1>8. Leased(a)'  BY <1>1, <1>4, <1>5, NoAttemptAssumption DEF Good, Leased, Each,
    Launching, Kept, Runs, MayLive, Owns
<1>9. Begun(a)'  BY <1>1, <1>4, <1>5, NoAttemptAssumption DEF Good, Begun, Owns
<1>10. Settling(a)'  BY <1>1, <1>2, <1>4, <1>5, NoAttemptAssumption DEF Good, Begun,
    Settling, Decided, Owns, Outcomes, Answered
<1>11. Owning(a)'  BY <1>1, <1>4, <1>5 DEF Good, Owning, Each, Stages, Stopping, Owns
<1>12. Earning(a)'  BY <1>1, <1>4, <1>5 DEF Good, Earning, Owns
<1>. QED BY <1>3, <1>6, <1>7, <1>8, <1>9, <1>10, <1>11, <1>12, OfOne DEF Good

-----------------------------------------------------------------------------
(* What only reads: the pump goes on, or nothing of this moves at all.      *)

\* The story may be found wanting, and is never found better.
Sours ==
    /\ story.refused => story'.refused
    /\ story'.refused => story'.taint # "none"
    /\ story'.taint = "none" /\ story'.finished => story.taint = "none" /\ story.finished

LEMMA Still ==
    ASSUME IInv, IInv', Care,
           UNCHANGED <<closed, runtime, slot, asked, teardown, start, launch, late, native,
                       pump, story, verdict, artifact>>,
           \A x \in Attempts : MayLive(x)' <=> MayLive(x)
    PROVE  Care'
<1>1. Handed' /\ Told'  BY DEF Care, Handed, Told
<1>2. ASSUME NEW x \in Attempts PROVE Good(x)'
  <2>1. Good(x)  BY DEF Care
  <2>2. Leased(x)'  BY <2>1 DEF Good, Leased, Owns
  <2>3. Begun(x)' /\ Settling(x)' /\ Owning(x)' /\ Earning(x)'
        BY <2>1 DEF Good, Begun, Settling, Attended, Decided, Owning, Earning, Owns
  <2>. QED BY <2>2, <2>3 DEF Good
<1>. QED BY <1>1, <1>2 DEF Care

LEMMA Reading ==
    ASSUME IInv, IInv', Care, NEW a \in Attempts,
           UNCHANGED <<closed, runtime, slot, asked, teardown, start, launch, late, native,
                       child, artifact>>,
           NEW place, pump' = [pump EXCEPT ![a] = place],
           pump[a] \notin {"none", "abandoning", "over"},
           place \notin {"none", "abandoning", "reaping", "over"},
           Sours, Publish \/ UNCHANGED <<story, verdict>>
    PROVE  Care'
<1>1. TypeOK /\ Told /\ Good(a)  BY DEF IInv, Care
<1>2. pump'[a] = place /\ \A y \in Attempts \ {a} : pump'[y] = pump[y]  BY <1>1 DEF TypeOK
<1>3. OnlyOf(a) /\ Beside(a)  BY <1>2 DEF OnlyOf, Beside, Sours, Owns
<1>4. Leased(a)'  BY <1>1 DEF Good, Leased, MayLive, Owns
<1>5. Begun(a)' /\ Settling(a)' /\ Owning(a)'
      BY <1>1, <1>2 DEF Good, Begun, Settling, Attended, Decided, Owning, Owns
<1>6. Earning(a)'  BY <1>1 DEF Good, Earning, Sours, Owns
<1>. QED BY <1>3, <1>4, <1>5, <1>6, OfOne DEF Good, Sours

LEMMA StorySours ==
    ASSUME story \in Stories, Told, NEW cause \in {"unfinished", "unverified"},
           story' \in {story, Tainted(story, cause), Refused(story, cause)}
    PROVE  Sours
BY DEF Stories, Told, Tainted, Refused, Sours

LEMMA UnconfirmedSours ==
    ASSUME story \in Stories, Told, NEW a \in Attempts, story' = Unconfirmed(a)
    PROVE  Sours
BY StorySours DEF Unconfirmed

LEMMA PromptedCares ==
    ASSUME IInv, IInv', Care, NEW a \in Attempts, Prompted(a)
    PROVE  Care'
<1>1. TypeOK /\ Told  BY DEF IInv, Care
<1>2. /\ UNCHANGED <<closed, runtime, slot, asked, teardown, start, launch, late, native,
                     child, artifact, story, verdict>>
      /\ pump[a] = "prompting"
      BY DEF Prompted, hostSide, closing, stops, starts, stored
<1>3. PICK place \in {"reading", "finishing"} : pump' = [pump EXCEPT ![a] = place]
      BY DEF Prompted, PumpAt
<1>4. Sours  BY <1>1, <1>2 DEF Sours, Told
<1>. QED BY <1>2, <1>3, <1>4, Reading

LEMMA PumpStoppedCares ==
    ASSUME IInv, IInv', Care, NEW a \in Attempts, PumpStopped(a)
    PROVE  Care'
<1>1. TypeOK /\ Told  BY DEF IInv, Care
<1>2. /\ UNCHANGED <<closed, runtime, slot, asked, teardown, start, launch, late, native,
                     child, artifact, story, verdict>>
      /\ pump[a] \in {"prompting", "reading"}
      /\ pump' = [pump EXCEPT ![a] = "finishing"]
      BY DEF PumpStopped, PumpAt, hostSide, closing, stops, starts, stored
<1>3. Sours  BY <1>1, <1>2 DEF Sours, Told
<1>. QED BY <1>2, <1>3, Reading

LEMMA ReadInitCares ==
    ASSUME IInv, IInv', Care, NEW a \in Attempts, ReadInit(a)
    PROVE  Care'
<1>1. TypeOK /\ Told /\ story \in Stories  BY DEF IInv, Care, TypeOK
<1>2. /\ UNCHANGED <<closed, runtime, slot, asked, teardown, start, launch, late, native,
                     child, artifact>>
      /\ pump[a] = "reading"
      BY DEF ReadInit, hostSide, closing, stops, starts
<1>3. \E place \in {"reading", "finishing"} : pump' = [pump EXCEPT ![a] = place]
      BY <1>1, <1>2 DEF ReadInit, PumpAt, TypeOK
<1>4. Sours
  <2>1. CASE story' \in {story, [story EXCEPT !.established = TRUE, !.pending = FALSE]}
        BY <1>1, <2>1 DEF Stories, Told, Sours
  <2>2. CASE story' = Unconfirmed(a)  BY <1>1, <2>2, UnconfirmedSours
  <2>. QED BY <2>1, <2>2 DEF ReadInit
<1>5. Publish \/ UNCHANGED <<story, verdict>>  BY DEF ReadInit
<1>. QED BY <1>2, <1>3, <1>4, <1>5, Reading

LEMMA ReportedCares ==
    ASSUME IInv, IInv', Care, NEW a \in Attempts, Reported(a)
    PROVE  Care'
<1>1. TypeOK /\ Told  BY DEF IInv, Care
<1>2. /\ UNCHANGED <<closed, runtime, slot, asked, teardown, start, launch, late, native,
                     child, artifact, story, verdict>>
      /\ pump[a] = "reporting" /\ pump' = [pump EXCEPT ![a] = "finishing"]
      BY DEF Reported, PumpAt, hostSide, closing, stops, starts, stored
<1>3. Sours  BY <1>1, <1>2 DEF Sours, Told
<1>. QED BY <1>2, <1>3, Reading

LEMMA ReadEndsCares ==
    ASSUME IInv, IInv', Care, NEW a \in Attempts, ReadEnds(a)
    PROVE  Care'
<1>1. TypeOK /\ Told /\ story \in Stories  BY DEF IInv, Care, TypeOK
<1>2. /\ UNCHANGED <<closed, runtime, slot, asked, teardown, start, launch, late, native,
                     child, artifact>>
      /\ pump[a] = "reading" /\ pump' = [pump EXCEPT ![a] = "finishing"]
      BY DEF ReadEnds, PumpAt, hostSide, closing, stops, starts
<1>3. story' = story \/ story' = Unconfirmed(a)  BY DEF ReadEnds
<1>4. Sours  BY <1>1, <1>3, UnconfirmedSours DEF Sours, Told
<1>5. Publish \/ UNCHANGED <<story, verdict>>  BY DEF ReadEnds
<1>. QED BY <1>2, <1>4, <1>5, Reading

LEMMA FinishCares ==
    ASSUME IInv, IInv', Care, NEW a \in Attempts, Finish(a)
    PROVE  Care'
<1>1. TypeOK /\ Told /\ story \in Stories  BY DEF IInv, Care, TypeOK
<1>2. /\ UNCHANGED <<closed, runtime, slot, asked, teardown, start, launch, late, native,
                     child, artifact>>
      /\ pump[a] \in {"finishing", "exiting"}
      BY DEF Finish, hostSide, closing, stops, starts
<1>3. \E place \in {"deciding", "exiting"} : pump' = [pump EXCEPT ![a] = place]
      BY DEF Finish, PumpAt
<1>4. story' = story \/ story' = Tainted(story, "unfinished")  BY DEF Finish, stored
<1>5. Sours  BY <1>1, <1>4, StorySours DEF Sours, Told
<1>6. Publish \/ UNCHANGED <<story, verdict>>  BY DEF Finish, stored
<1>. QED BY <1>2, <1>3, <1>5, <1>6, Reading

LEMMA EventRefusedCares ==
    ASSUME IInv, IInv', Care, NEW a \in Attempts, EventRefused(a)
    PROVE  Care'
<1>1. TypeOK /\ Told /\ story \in Stories  BY DEF IInv, Care, TypeOK
<1>2. /\ UNCHANGED <<closed, runtime, slot, asked, teardown, start, launch, late, native,
                     child, artifact>>
      /\ pump[a] \in {"reading", "reporting"}
      /\ pump' = [pump EXCEPT ![a] = "refused"]
      BY DEF EventRefused, PumpAt, hostSide, closing, stops, starts
<1>3. Sours  BY <1>1, StorySours DEF EventRefused
<1>4. Publish  BY DEF EventRefused
<1>. QED BY <1>2, <1>3, <1>4, Reading

LEMMA StreamDroppedCares ==
    ASSUME IInv, IInv', Care, NEW a \in Attempts, StreamDropped(a)
    PROVE  Care'
BY Still DEF StreamDropped, hostSide, closing, stops, starts, stored, MayLive

LEMMA ChildExitsCares ==
    ASSUME IInv, IInv', Care, NEW a \in Attempts, ChildExits(a)
    PROVE  Care'
<1>1. child \in [Attempts -> {"none", "live", "exited", "gone"}]  BY DEF IInv, TypeOK
<1>2. /\ UNCHANGED <<closed, runtime, slot, asked, teardown, start, launch, late, native,
                     pump, story, verdict, artifact>>
      /\ child[a] = "live" /\ child' = [child EXCEPT ![a] = "exited"]
      BY DEF ChildExits, hostSide, closing, stops, starts, reads, stored
<1>3. \A x \in Attempts : MayLive(x)' <=> MayLive(x)  BY <1>1, <1>2 DEF MayLive
<1>. QED BY <1>2, <1>3, Still

LEMMA HostShutsDownCares ==
    ASSUME IInv, IInv', Care, HostShutsDown
    PROVE  Care'
BY Still DEF HostShutsDown, hostSide, closing, stops, starts, reads, stored, MayLive

LEMMA RuntimeEndsCares ==
    ASSUME IInv, IInv', Care, RuntimeEnds
    PROVE  Care'
<1>1. /\ UNCHANGED <<closed, slot, asked, teardown, start, launch, late, native, child,
                     pump, story, verdict, artifact>>
      /\ runtime' = FALSE
      BY DEF RuntimeEnds, closing, stops, starts, reads, stored
<1>2. Handed' /\ Told'  BY <1>1 DEF Care, Handed, Told
<1>3. ASSUME NEW x \in Attempts PROVE Good(x)'
  <2>1. Good(x)  BY DEF Care
  <2>. QED BY <1>1, <2>1 DEF Good, Leased, Begun, Settling, Attended, Decided, Owning, Earning,
       Owns
<1>. QED BY <1>2, <1>3 DEF Care

-----------------------------------------------------------------------------
(* Who asks for a stop.                                                     *)

\* The flags a claim leaves: what taints goes on to, and only it begins to settle.
Flags(a, settles) ==
    /\ ~teardown'[a].taints => ~teardown[a].taints
    /\ teardown'[a].settles => teardown[a].settles \/ settles
    /\ teardown[a].at \notin {"none", "idle"} => teardown'[a].settles = teardown[a].settles

LEMMA EitherFlags ==
    ASSUME NEW t \in Teardowns, NEW b \in BOOLEAN, NEW u,
           u = Made(t, TRUE) \/ u = Started(Made(t, TRUE), b)
    PROVE  /\ u.taints = TRUE \/ u.taints = t.taints
           /\ \/ u.settles = t.settles
              \/ t.at \in {"none", "idle"} /\ u.settles = b
<1>1. TRUE \in BOOLEAN  OBVIOUS
<1>2. CASE u = Made(t, TRUE)
  <2>1. /\ Made(t, TRUE).settles = t.settles
        /\ Made(t, TRUE).taints = IF t.at = "none" THEN TRUE ELSE t.taints
        BY MadeFlags
  <2>. QED BY <1>2, <2>1
<1>3. CASE u = Started(Made(t, TRUE), b)
  <2>1. /\ Started(Made(t, TRUE), b).taints = IF t.at = "none" THEN TRUE ELSE t.taints
        /\ Started(Made(t, TRUE), b).settles = IF t.at \in {"none", "idle"} THEN b ELSE t.settles
        BY <1>1, MadeStartedFlags
  <2>. QED BY <1>3, <2>1
<1>. QED BY <1>2, <1>3

LEMMA Claims ==
    ASSUME TypeOK, NEW a \in Attempts, NEW b \in BOOLEAN, ClaimStop(a, b)
    PROVE  \/ Owns(a) /\ a \notin asked /\ Asks(a) /\ Flags(a, b) /\ Publish
           \/ (~Owns(a) \/ a \in asked) /\ UNCHANGED <<asked, teardown, verdict>>
<1>1. CASE ~(Owns(a) /\ a \notin asked)  BY <1>1 DEF ClaimStop
<1>2. CASE Owns(a) /\ a \notin asked
  <2>1. teardown[a] \in Teardowns /\ TRUE \in BOOLEAN  BY DEF TypeOK
  <2>2. Publish  BY <1>2 DEF ClaimStop
  <2>3. Asks(a)
    <3>1. asked' # asked  BY <1>2 DEF ClaimStop
    <3>. QED BY <3>1, ClaimAsks
  <2>4. \/ teardown'[a] = Started(Made(teardown[a], TRUE), b)
        \/ teardown'[a] = Made(teardown[a], TRUE)
        BY <1>2 DEF ClaimStop, TypeOK
  <2>5. Flags(a, b)
    <3>1. /\ teardown'[a].taints = TRUE \/ teardown'[a].taints = teardown[a].taints
          /\ \/ teardown'[a].settles = teardown[a].settles
             \/ teardown[a].at \in {"none", "idle"} /\ teardown'[a].settles = b
          BY <2>1, <2>4, EitherFlags, Zenon
    <3>. QED BY <2>1, <3>1 DEF Flags, Teardowns
  <2>. QED BY <1>2, <2>2, <2>3, <2>5
<1>. QED BY <1>1, <1>2

LEMMA Takes ==
    ASSUME TypeOK, NEW a \in Attempts, slot.turn = a, TakeTurn
    PROVE  /\ Asks(a) /\ Flags(a, FALSE)
           /\ slot.control => teardown'[a].at \notin {"none", "idle"}
           /\ Publish \/ verdict' = verdict
<1>1. teardown[a] \in Teardowns /\ TRUE \in BOOLEAN /\ FALSE \in BOOLEAN  BY DEF TypeOK
<1>2. Asks(a)  BY TakeAsks
<1>3. teardown'[a] = IF slot.control THEN Started(Made(teardown[a], TRUE), FALSE)
                     ELSE Made(teardown[a], TRUE)
      BY DEF TakeTurn, TypeOK
<1>4. Flags(a, FALSE)
  <2>1. /\ teardown'[a].taints = TRUE \/ teardown'[a].taints = teardown[a].taints
        /\ \/ teardown'[a].settles = teardown[a].settles
           \/ teardown[a].at \in {"none", "idle"} /\ teardown'[a].settles = FALSE
        BY <1>1, <1>3, EitherFlags, Zenon
  <2>. QED BY <1>1, <2>1 DEF Flags, Teardowns
<1>5. slot.control => teardown'[a].at \notin {"none", "idle"}
      BY <1>1, <1>3, MadeStartedFields
<1>. QED BY <1>2, <1>4, <1>5 DEF TakeTurn

LEMMA HandOverCares ==
    ASSUME IInv, IInv', Care, NEW a \in Attempts, HandOver(a)
    PROVE  Care'
<1>1. TypeOK /\ Each(a) /\ Each(a)' /\ Good(a) /\ Told  BY DEF IInv, Care
<1>2. /\ teardown[a] \in Teardowns /\ teardown[a].at \in Places
      /\ teardown[a].outcome \in Outcomes
      BY <1>1 DEF TypeOK, Teardowns
<1>3. OnlyOf(a)  BY <1>1 DEF TypeOK, OnlyOf, HandOver, ClaimStop, PumpAt, closing, stops,
    starts, reads, stored
<1>4. /\ UNCHANGED <<closed, runtime, slot, launch, late, native, child, story, artifact>>
      /\ start[a] = "starting"
      BY DEF HandOver, closing, hostSide
<1>5. \/ /\ start'[a] = "over" /\ pump'[a] = "prompting"
         /\ UNCHANGED <<asked, teardown, verdict>>
      \/ /\ start'[a] = "refusing" /\ pump'[a] = pump[a]
         /\ \/ Owns(a) /\ a \notin asked /\ Asks(a) /\ Flags(a, TRUE) /\ Publish
            \/ (~Owns(a) \/ a \in asked) /\ UNCHANGED <<asked, teardown, verdict>>
      BY <1>1, Claims DEF HandOver, TypeOK
<1>6. \A y \in Attempts \ {a} : y \in asked' <=> y \in asked
      BY <1>1, <1>4, <1>5 DEF Asks
<1>7. Beside(a)  BY <1>4, <1>6 DEF Beside
<1>8. (story'.refused => story'.taint # "none") /\ (Publish \/ UNCHANGED <<story, verdict>>)
      BY <1>1, <1>4, <1>5 DEF Told
<1>9. Leased(a)'  BY <1>1, <1>4, <1>5 DEF Good, Leased, MayLive, Owns, Asks, Flags
<1>10. Begun(a)'  BY <1>1, <1>4, <1>5 DEF Good, Leased, Begun, Owns, Asks, Flags
<1>11. Settling(a)'  BY <1>1, <1>4, <1>5 DEF Good, Settling, Attended, Owns, Asks, Flags,
    Same
<1>12. Owning(a)'  BY <1>1, <1>4, <1>5 DEF Good, Owning, Each, Stages, Owns, Flags
<1>13. Earning(a)'  BY <1>1, <1>4, <1>5 DEF Good, Earning, Owns, Asks, Flags, Same
<1>. QED BY <1>3, <1>7, <1>8, <1>9, <1>10, <1>11, <1>12, <1>13, OfOne DEF Good


LEMMA PumpAbandonsCares ==
    ASSUME IInv, IInv', Care, NEW a \in Attempts, PumpAbandons(a)
    PROVE  Care'
<1>1. TypeOK /\ Each(a) /\ Each(a)' /\ Good(a) /\ Told  BY DEF IInv, Care
<1>2. /\ teardown[a] \in Teardowns /\ teardown[a].at \in Places
      /\ teardown[a].outcome \in Outcomes
      BY <1>1 DEF TypeOK, Teardowns
<1>3. OnlyOf(a)  BY <1>1 DEF TypeOK, OnlyOf, PumpAbandons, ClaimStop, PumpAt, closing,
    stops, starts, reads, stored
<1>4. /\ UNCHANGED <<closed, runtime, slot, start, launch, late, native, child, artifact,
                     story>>
      /\ pump[a] \in {"prompting", "reading", "reporting", "refused"} /\ pump'[a] = "abandoning"
      BY <1>1 DEF PumpAbandons, PumpAt, TypeOK, closing, hostSide, starts
<1>5. \/ Owns(a) /\ a \notin asked /\ Asks(a) /\ Flags(a, TRUE) /\ Publish
      \/ (~Owns(a) \/ a \in asked) /\ UNCHANGED <<asked, teardown, verdict>>
      BY <1>1, Claims DEF PumpAbandons
<1>6. \A y \in Attempts \ {a} : y \in asked' <=> y \in asked
      BY <1>1, <1>4, <1>5 DEF Asks
<1>7. Beside(a)  BY <1>4, <1>6 DEF Beside
<1>8. (story'.refused => story'.taint # "none") /\ (Publish \/ UNCHANGED <<story, verdict>>)
      BY <1>1, <1>4, <1>5 DEF Told
<1>9. Leased(a)'  BY <1>1, <1>4, <1>5 DEF Good, Leased, MayLive, Owns, Asks, Flags
<1>10. Begun(a)'  BY <1>1, <1>4, <1>5 DEF Good, Begun, Owns, Asks, Flags
<1>11. Settling(a)'  BY <1>1, <1>4, <1>5 DEF Good, Settling, Attended, Owns, Asks, Flags,
    Same
<1>12. Owning(a)'  BY <1>1, <1>4 DEF Good, Owning, Each, Stages, Owns
<1>13. Earning(a)'  BY <1>1, <1>4, <1>5 DEF Good, Earning, Owns, Asks, Flags, Same
<1>. QED BY <1>3, <1>7, <1>8, <1>9, <1>10, <1>11, <1>12, <1>13, OfOne DEF Good

LEMMA PumpShutsCares ==
    ASSUME IInv, IInv', Care, NEW a \in Attempts, PumpShuts(a)
    PROVE  Care'
<1>1. TypeOK /\ Each(a) /\ Each(a)' /\ Good(a) /\ Told  BY DEF IInv, Care
<1>2. /\ teardown[a] \in Teardowns /\ teardown[a].at \in Places
      /\ teardown[a].outcome \in Outcomes
      BY <1>1 DEF TypeOK, Teardowns
<1>3. OnlyOf(a)  BY <1>1 DEF TypeOK, OnlyOf, PumpShuts, ClaimStop, PumpAt, closing, stops,
    starts, reads, stored
<1>4. /\ UNCHANGED <<closed, runtime, slot, start, launch, late, native, child, story,
                     artifact>>
      BY DEF PumpShuts, closing, hostSide, starts
<1>5. \/ /\ pump[a] \in {"prompting", "reading"} /\ pump'[a] = "shutting"
         /\ \/ Owns(a) /\ a \notin asked /\ Asks(a) /\ Flags(a, FALSE) /\ Publish
            \/ (~Owns(a) \/ a \in asked) /\ UNCHANGED <<asked, teardown, verdict>>
      \/ /\ pump[a] = "shutting" /\ pump'[a] = "finishing"
         /\ UNCHANGED <<asked, teardown, verdict>>
    <2>1. FALSE \in BOOLEAN  OBVIOUS
    <2>. QED BY <1>1, <2>1, Claims DEF PumpShuts, PumpAt, TypeOK
<1>6. \A y \in Attempts \ {a} : y \in asked' <=> y \in asked
      BY <1>1, <1>4, <1>5 DEF Asks
<1>7. Beside(a)  BY <1>4, <1>6 DEF Beside
<1>8. (story'.refused => story'.taint # "none") /\ (Publish \/ UNCHANGED <<story, verdict>>)
      BY <1>1, <1>4, <1>5 DEF Told
<1>9. Leased(a)'  BY <1>1, <1>4, <1>5 DEF Good, Leased, MayLive, Owns, Asks, Flags
<1>10. Begun(a)'  BY <1>1, <1>4, <1>5 DEF Good, Begun, Owns, Asks, Flags
<1>11. Settling(a)'  BY <1>1, <1>4, <1>5 DEF Good, Settling, Attended, Owns, Asks, Flags,
    Same
<1>12. Owning(a)'  BY <1>1, <1>4, <1>5 DEF Good, Owning, Owns, Flags
<1>13. Earning(a)'  BY <1>1, <1>4, <1>5 DEF Good, Earning, Owns, Asks, Flags, Same
<1>. QED BY <1>3, <1>7, <1>8, <1>9, <1>10, <1>11, <1>12, <1>13, OfOne DEF Good

LEMMA CancelCares ==
    ASSUME IInv, IInv', Care, NEW a \in Attempts, Owns(a), Cancel
    PROVE  Care'
<1>1. TypeOK /\ Each(a) /\ Each(a)' /\ Good(a) /\ Told  BY DEF IInv, Care
<1>2. /\ teardown[a] \in Teardowns /\ teardown[a].at \in Places
      /\ teardown[a].outcome \in Outcomes
      BY <1>1 DEF TypeOK, Teardowns
<1>3. /\ UNCHANGED <<closed, runtime, slot, start, launch, late, pump, native, child, story,
                     artifact>>
      /\ slot.turn = a
      BY DEF Cancel, closing, hostSide, starts, reads, Owns
<1>4. \/ Owns(a) /\ a \notin asked /\ Asks(a) /\ Flags(a, FALSE) /\ Publish
      \/ (~Owns(a) \/ a \in asked) /\ UNCHANGED <<asked, teardown, verdict>>
    <2>1. FALSE \in BOOLEAN /\ ClaimStop(a, FALSE)  BY <1>3 DEF Cancel
    <2>. QED BY <1>1, <2>1, Claims
<1>5. OnlyOf(a)  BY <1>1, <1>3, <1>4 DEF OnlyOf, Asks
<1>6. \A y \in Attempts \ {a} : y \in asked' <=> y \in asked
      BY <1>1, <1>3, <1>4 DEF Asks
<1>7. Beside(a)  BY <1>3, <1>6 DEF Beside
<1>8. (story'.refused => story'.taint # "none") /\ (Publish \/ UNCHANGED <<story, verdict>>)
      BY <1>1, <1>3, <1>4 DEF Told
<1>9. Leased(a)'  BY <1>1, <1>3, <1>4 DEF Good, Leased, MayLive, Asks, Flags
<1>10. Begun(a)'  BY <1>1, <1>3, <1>4 DEF Good, Begun, Asks, Flags
<1>11. Settling(a)'  BY <1>1, <1>3, <1>4 DEF Good, Settling, Attended, Decided, Asks, Flags,
    Same
<1>12. Owning(a)'  BY <1>1, <1>3, <1>4 DEF Good, Owning, Owns, Flags
<1>13. Earning(a)'  BY <1>1, <1>3, <1>4 DEF Good, Earning, Owns, Asks, Flags, Same
<1>. QED BY <1>5, <1>7, <1>8, <1>9, <1>10, <1>11, <1>12, <1>13, OfOne DEF Good

LEMMA Taken ==
    ASSUME IInv, IInv', Care, NEW a \in Attempts, Owns(a), TakeTurn,
           UNCHANGED <<runtime, slot, start, launch, late, pump, native, child, story>>,
           artifact'.held = artifact.held, artifact'.kept = artifact.kept,
           artifact'.by \in {artifact.by, "close"}
    PROVE  Told' /\ \A x \in Attempts : Good(x)'
<1>1. TypeOK /\ Told  BY DEF IInv, Care
<1>2. Asks(a) /\ Flags(a, FALSE) /\ (slot.control => teardown'[a].at \notin {"none", "idle"})
      BY <1>1, Takes DEF Owns
<1>3. Publish \/ verdict' = verdict  BY <1>1, Takes DEF Owns
<1>4. Told'  BY <1>1, <1>3, Telling DEF Told, IInv
<1>5. ASSUME NEW x \in Attempts \ {a} PROVE Good(x)'
  <2>1. Good(x) /\ Each(x) /\ ~Owns(x) /\ teardown'[x] = teardown[x]
        BY <1>2, <1>5 DEF Care, IInv, Asks, Owns
  <2>2. x \in asked' <=> x \in asked  BY <1>2 DEF Asks
  <2>. QED BY <2>1, <2>2, SMTT(30) DEF Good, Leased, Begun, Settling, Attended, Decided, Owning,
       Earning, Each, Kept, Runs, Launching, MayLive, Owns
<1>6. Good(a)'
  <2>1. Good(a) /\ Each(a) /\ Each(a)' /\ a \in asked'  BY <1>2 DEF Care, IInv, Asks
  <2>2. Leased(a)'  BY <1>2, <2>1, SMTT(30) DEF Good, Leased, Begun, Settling, Attended,
       Decided,
       Owning, Earning, Asks, Flags, Same, Each, Heard, Answering, Running, Stages, Launching,
       Stopping, Bare, Kept, Runs, Closing, MayLive, Owns
  <2>3. Begun(a)'  BY <1>2, <2>1, SMTT(30) DEF Good, Leased, Begun, Settling, Attended, Decided,
       Owning, Earning, Asks, Flags, Same, Each, Heard, Answering, Running, Stages, Launching,
       Stopping, Bare, Kept, Runs, Closing, MayLive, Owns
  <2>4. Settling(a)'  BY <1>2, <2>1, SMTT(30) DEF Good, Leased, Begun, Settling, Attended,
       Decided,
       Owning, Earning, Asks, Flags, Same, Each, Heard, Answering, Running, Stages, Launching,
       Stopping, Bare, Kept, Runs, Closing, MayLive, Owns
  <2>5. Owning(a)'  BY <1>2, <2>1, SMTT(30) DEF Good, Leased, Begun, Settling, Attended,
       Decided,
       Owning, Earning, Asks, Flags, Same, Each, Heard, Answering, Running, Stages, Launching,
       Stopping, Bare, Kept, Runs, Closing, MayLive, Owns
  <2>6. Earning(a)'  BY <1>2, <2>1, SMTT(30) DEF Good, Leased, Begun, Settling, Attended,
       Decided,
       Owning, Earning, Asks, Flags, Same, Each, Heard, Answering, Running, Stages, Launching,
       Stopping, Bare, Kept, Runs, Closing, MayLive, Owns
  <2>. QED BY <2>2, <2>3, <2>4, <2>5, <2>6 DEF Good
<1>. QED BY <1>4, <1>5, <1>6

LEMMA DropSessionCares ==
    ASSUME IInv, IInv', Care, DropSession
    PROVE  Care'
<1>1. UNCHANGED <<closed, runtime, slot, start, launch, late, pump, native, child, story,
                  artifact>>
      BY DEF DropSession, hostSide, closing, starts, reads
<1>2. CASE slot.turn \in Attempts \ asked
  <2>1. TakeTurn  BY <1>2 DEF DropSession
  <2>2. Told' /\ \A x \in Attempts : Good(x)'  BY <1>1, <1>2, <2>1, Taken DEF Owns
  <2>3. Handed'  BY <1>1 DEF Care, Handed
  <2>. QED BY <2>2, <2>3 DEF Care
<1>3. CASE slot.turn \notin Attempts \ asked
      BY <1>1, <1>3, Still DEF DropSession, MayLive
<1>. QED BY <1>2, <1>3

LEMMA CloseCares ==
    ASSUME IInv, IInv', Care, Close
    PROVE  Care'
<1>1. /\ UNCHANGED <<runtime, slot, start, launch, late, pump, native, child, story>>
      /\ closed'
      BY DEF Close, hostSide, starts, reads
<1>2. /\ artifact'.held = artifact.held /\ artifact'.kept = artifact.kept
      /\ artifact'.by = "close"
      BY DEF Close, IInv, TypeOK, Artifacts
<1>3. Handed'  BY <1>1, <1>2 DEF Handed
<1>4. Told' /\ \A x \in Attempts : Good(x)'
  <2>1. CASE slot.turn # NoAttempt
    <3>1. slot.turn \in Attempts  BY <2>1 DEF IInv, TypeOK, Slots, Named
    <3>2. TakeTurn  BY <2>1 DEF Close
    <3>. QED BY <1>1, <1>2, <3>1, <3>2, Taken DEF Owns
  <2>2. CASE slot.turn = NoAttempt
    <3>1. UNCHANGED <<asked, teardown, verdict>>  BY <2>2 DEF Close
    <3>2. Told'  BY <1>1, <3>1 DEF Care, Told
    <3>3. ASSUME NEW x \in Attempts PROVE Good(x)'
      <4>1. Good(x) /\ Each(x) /\ ~Owns(x)  BY <2>2, NoAttemptAssumption DEF Care, IInv, Owns
      <4>. QED BY <1>1, <1>2, <3>1, <4>1, SMTT(30) DEF Good, Leased, Begun, Settling, Attended,
           Decided, Owning, Earning, Each, Kept, Runs, Launching, MayLive, Owns
    <3>. QED BY <3>2, <3>3
  <2>. QED BY <2>1, <2>2
<1>. QED BY <1>3, <1>4 DEF Care

-----------------------------------------------------------------------------
(* The result, and the stop the pump begins itself.                         *)

LEMMA ReadResultCares ==
    ASSUME IInv, IInv', Care, NEW a \in Attempts, ReadResult(a)
    PROVE  Care'
<1>1. TypeOK /\ Each(a) /\ Each(a)' /\ Good(a) /\ Told  BY DEF IInv, Care
<1>2. /\ teardown[a] \in Teardowns /\ teardown[a].at \in Places
      /\ teardown[a].outcome \in Outcomes
      BY <1>1 DEF TypeOK, Teardowns
<1>3. OnlyOf(a)  BY <1>1 DEF TypeOK, OnlyOf, ReadResult, PumpAt, closing, stops, starts,
    reads, stored
<1>4. /\ UNCHANGED <<closed, runtime, slot, asked, teardown, start, launch, late, child,
                     artifact>>
      /\ pump[a] = "reading" /\ Owns(a)
    <2>1. UNCHANGED <<closed, runtime, slot, asked, teardown, start, launch, late, child,
                      artifact>> /\ pump[a] = "reading"
      BY DEF ReadResult, closing, hostSide, stops, starts
    <2>. QED BY <1>1, <2>1 DEF Good, Owning
<1>5. \/ pump'[a] = "finishing" /\ native' = native /\ Sours
      \/ /\ pump'[a] = "ended" /\ native' = native \cup {a}
         /\ story'.refused = story.refused
         /\ story.refused => story'.taint = story.taint
    <2>1. CASE story.pending
      BY <1>1, <2>1, UnconfirmedSours DEF ReadResult, PumpAt, TypeOK
    <2>2. CASE ~story.pending
      BY <1>1, <2>2, ZenonT(60) DEF ReadResult, PumpAt, TypeOK, Stories
    <2>. QED BY <2>1, <2>2
<1>6. Publish
      BY DEF ReadResult
<1>7. Beside(a)  BY <1>4, <1>5 DEF Beside, Owns, Sours
<1>8. (story'.refused => story'.taint # "none") /\ (Publish \/ UNCHANGED <<story, verdict>>)
      BY <1>1, <1>4, <1>5, <1>6 DEF Told, Sours
<1>9. Leased(a)'  BY <1>1, <1>4 DEF Good, Leased, MayLive
<1>10. Begun(a)'  BY <1>1, <1>4, <1>5 DEF Good, Begun
<1>11. Settling(a)'  BY <1>1, <1>4, <1>5 DEF Good, Settling, Attended
<1>12. Owning(a)'  BY <1>1, <1>4 DEF Good, Owning, Owns
<1>13. Earning(a)'  BY <1>1, <1>4, <1>5 DEF Good, Earning, Owns, Sours
<1>. QED BY <1>3, <1>7, <1>8, <1>9, <1>10, <1>11, <1>12, <1>13, OfOne DEF Good

LEMMA TerminalFields ==
    ASSUME TypeOK, NEW a \in Attempts, Owns(a), TerminalTeardown(a)
    PROVE  /\ Same(teardown'[a], teardown[a])
           /\ teardown'[a].at = IF teardown[a].at \in {"none", "idle"}
                                THEN "queued" ELSE teardown[a].at
           /\ ~teardown'[a].taints => ~teardown[a].taints \/ a \in native
           /\ teardown'[a].settles => teardown[a].settles
           /\ teardown[a].at \notin {"none", "idle"} => teardown'[a].settles = teardown[a].settles
<1>1. /\ teardown[a] \in Teardowns /\ (a \notin native) \in BOOLEAN /\ FALSE \in BOOLEAN
      /\ teardown'[a] = Started(Made(teardown[a], a \notin native), FALSE)
      BY DEF TerminalTeardown, TypeOK
<1>2. /\ Same(teardown'[a], teardown[a])
      /\ teardown'[a].at = IF teardown[a].at \in {"none", "idle"} THEN "queued"
                           ELSE teardown[a].at
      BY <1>1, MadeStartedFields, ZenonT(30)
<1>3. /\ teardown'[a].taints = IF teardown[a].at = "none" THEN a \notin native
                               ELSE teardown[a].taints
      /\ teardown'[a].settles = IF teardown[a].at \in {"none", "idle"} THEN FALSE
                                ELSE teardown[a].settles
      BY <1>1, MadeStartedFlags, ZenonT(30)
<1>4. ~teardown'[a].taints => ~teardown[a].taints \/ a \in native
      BY <1>3, Zenon
<1>5. /\ teardown'[a].settles => teardown[a].settles
      /\ teardown[a].at \notin {"none", "idle"} => teardown'[a].settles = teardown[a].settles
      BY <1>3, Zenon
<1>. QED BY <1>2, <1>4, <1>5

LEMMA ReapEarlyCares ==
    ASSUME IInv, IInv', Care, NEW a \in Attempts, ReapEarly(a)
    PROVE  Care'
<1>1. TypeOK /\ Each(a) /\ Each(a)' /\ Good(a) /\ Told  BY DEF IInv, Care
<1>2. /\ teardown[a] \in Teardowns /\ teardown[a].at \in Places
      /\ teardown[a].outcome \in Outcomes
      BY <1>1 DEF TypeOK, Teardowns
<1>3. OnlyOf(a)  BY <1>1 DEF TypeOK, OnlyOf, ReapEarly, TerminalTeardown, PumpAt, closing,
    stops, starts, reads, stored
<1>4. /\ UNCHANGED <<closed, runtime, slot, asked, start, launch, late, native, child, story,
                     verdict,
                     artifact>>
      /\ pump[a] = "ended" /\ pump'[a] = "reporting"
      BY <1>1 DEF ReapEarly, PumpAt, TypeOK, closing, hostSide, starts, stored
<1>5. Owns(a)
      BY <1>1, <1>4 DEF Good, Owning
<1>6. /\ Same(teardown'[a], teardown[a])
      /\ teardown'[a].at = IF teardown[a].at \in {"none", "idle"}
                           THEN "queued" ELSE teardown[a].at
      /\ ~teardown'[a].taints => ~teardown[a].taints \/ a \in native
      /\ teardown'[a].settles => teardown[a].settles
      /\ teardown[a].at \notin {"none", "idle"} => teardown'[a].settles = teardown[a].settles
      BY <1>1, <1>5, TerminalFields DEF ReapEarly
<1>7. Beside(a)  BY <1>4 DEF Beside
<1>8. (story'.refused => story'.taint # "none") /\ (Publish \/ UNCHANGED <<story, verdict>>)
      BY <1>1, <1>4, <1>5, <1>6 DEF Told
<1>9. Leased(a)'  BY <1>1, <1>4, <1>5, <1>6 DEF Good, Leased, MayLive
<1>10. Begun(a)'  BY <1>1, <1>4, <1>5, <1>6 DEF Good, Begun
<1>11. Settling(a)'  BY <1>1, <1>4, <1>5, <1>6 DEF Good, Settling, Attended, Same
<1>12. Owning(a)'  BY <1>1, <1>4, <1>6 DEF Good, Owning, Owns
<1>13. Earning(a)'  BY <1>1, <1>4, <1>6 DEF Good, Earning, Owns, Same
<1>. QED BY <1>3, <1>7, <1>8, <1>9, <1>10, <1>11, <1>12, <1>13, OfOne DEF Good

LEMMA ReapCares ==
    ASSUME IInv, IInv', Care, NEW a \in Attempts, Reap(a)
    PROVE  Care'
<1>1. TypeOK /\ Each(a) /\ Each(a)' /\ Good(a) /\ Told  BY DEF IInv, Care
<1>2. /\ teardown[a] \in Teardowns /\ teardown[a].at \in Places
      /\ teardown[a].outcome \in Outcomes
      BY <1>1 DEF TypeOK, Teardowns
<1>3. OnlyOf(a)  BY <1>1 DEF TypeOK, OnlyOf, Reap, TerminalTeardown, PumpAt, closing, stops,
    starts, reads, stored
<1>4. /\ UNCHANGED <<closed, runtime, asked, start, launch, late, native, child, story, verdict,
                     artifact>>
      /\ pump[a] = "deciding" /\ Owns(a)
    <2>1. pump[a] = "deciding"  BY DEF Reap
    <2>2. Owns(a)  BY <1>1, <2>1 DEF Good, Owning
    <2>. QED BY <2>1, <2>2 DEF Reap, closing, hostSide, starts, stored
<1>5. a \in asked =>
        /\ pump'[a] = "over" /\ teardown' = teardown
        /\ ~Owns(a) => slot' = slot
        /\ Owns(a) /\ slot.stopped => slot'.turn = NoAttempt
        /\ Owns(a) /\ ~slot.stopped =>
              slot'.turn = a /\ slot'.control = slot.control /\ ~slot'.stopped /\ slot'.settled
      BY <1>1, SettleFields DEF Reap, PumpAt, TypeOK
<1>6. a \notin asked =>
        /\ pump'[a] = "reaping" /\ slot' = slot
        /\ Same(teardown'[a], teardown[a])
        /\ teardown'[a].at = IF teardown[a].at \in {"none", "idle"}
                             THEN "queued" ELSE teardown[a].at
        /\ ~teardown'[a].taints => ~teardown[a].taints \/ a \in native
        /\ teardown'[a].settles => teardown[a].settles
        /\ teardown[a].at \notin {"none", "idle"} => teardown'[a].settles = teardown[a].settles
      BY <1>1, <1>4, TerminalFields DEF Reap, PumpAt, TypeOK
<1>7. Beside(a)  BY <1>4, <1>5, <1>6 DEF Beside, Owns
<1>8. (story'.refused => story'.taint # "none") /\ (Publish \/ UNCHANGED <<story, verdict>>)
      BY <1>1, <1>4, <1>5, <1>6 DEF Told
<1>9. Leased(a)'  BY <1>1, <1>4, <1>5, <1>6, NoAttemptAssumption DEF Good, Leased, Each,
    Launching, Kept, Runs, MayLive, Owns
<1>10. Begun(a)'  BY <1>1, <1>4, <1>5, <1>6, NoAttemptAssumption DEF Good, Begun, Owns
<1>11. Settling(a)'  BY <1>1, <1>2, <1>4, <1>5, <1>6, NoAttemptAssumption DEF Good, Begun,
    Settling, Attended, Decided, Each, Stopping, Owns, Places, Outcomes, Same
<1>12. Owning(a)'  BY <1>1, <1>4, <1>5, <1>6 DEF Good, Owning, Each, Stages, Stopping, Owns
<1>13. Earning(a)'  BY <1>1, <1>4, <1>5, <1>6 DEF Good, Earning, Owns, Same
<1>. QED BY <1>3, <1>7, <1>8, <1>9, <1>10, <1>11, <1>12, <1>13, OfOne DEF Good

-----------------------------------------------------------------------------
(* The worker.                                                              *)

LEMMA AskStopCares ==
    ASSUME IInv, IInv', Care, NEW a \in Attempts, AskStop(a)
    PROVE  Care'
<1>1. TypeOK /\ Each(a) /\ Each(a)' /\ Good(a) /\ Told  BY DEF IInv, Care
<1>2. /\ teardown[a] \in Teardowns /\ teardown[a].at \in Places
      /\ teardown[a].outcome \in Outcomes
      BY <1>1 DEF TypeOK, Teardowns
<1>3. OnlyOf(a)  BY <1>1 DEF TypeOK, OnlyOf, AskStop, closing, stops, starts, reads, stored
<1>4. /\ UNCHANGED <<closed, runtime, slot, asked, start, launch, late, pump, native, child,
                     story, verdict,
                     artifact>>
      /\ teardown[a].at = "queued"
      BY DEF AskStop, closing, hostSide, stops, starts, reads, stored
<1>5. /\ teardown'[a].at = "stopping" /\ Same(teardown'[a], teardown[a])
      /\ teardown'[a].taints = teardown[a].taints
      /\ teardown'[a].settles = teardown[a].settles
      BY <1>1, <1>2 DEF AskStop, TypeOK, Teardowns, Same
<1>6. Beside(a)  BY <1>4 DEF Beside
<1>7. (story'.refused => story'.taint # "none") /\ (Publish \/ UNCHANGED <<story, verdict>>)
      BY <1>1, <1>4, <1>5 DEF Told
<1>8. Leased(a)'  BY <1>1, <1>4, <1>5 DEF Good, Leased, MayLive, Owns
<1>9. Begun(a)'  BY <1>1, <1>4, <1>5 DEF Good, Begun, Owns
<1>10. Settling(a)'  BY <1>1, <1>4, <1>5 DEF Good, Settling, Attended, Decided, Owns, Same
<1>11. Owning(a)'  BY <1>1, <1>4, <1>5 DEF Good, Owning, Owns
<1>12. Earning(a)'  BY <1>1, <1>4, <1>5 DEF Good, Earning, Owns, Same
<1>. QED BY <1>3, <1>6, <1>7, <1>8, <1>9, <1>10, <1>11, <1>12, OfOne DEF Good

LEMMA StopReturnsCares ==
    ASSUME IInv, IInv', Care, NEW a \in Attempts, StopReturns(a)
    PROVE  Care'
<1>1. TypeOK /\ Each(a) /\ Each(a)' /\ Good(a) /\ Told  BY DEF IInv, Care
<1>2. /\ teardown[a] \in Teardowns /\ teardown[a].at \in Places
      /\ teardown[a].outcome \in Outcomes
      BY <1>1 DEF TypeOK, Teardowns
<1>3. OnlyOf(a)  BY <1>1 DEF TypeOK, OnlyOf, StopReturns, closing, stops, starts, reads,
    stored
<1>4. /\ UNCHANGED <<closed, runtime, slot, asked, start, launch, late, pump, native, story,
                     verdict,
                     artifact>>
      /\ teardown[a].at = "stopping"
      BY DEF StopReturns, closing, hostSide, stops, starts, reads, stored
<1>5. /\ teardown'[a].at = "stopped" /\ teardown'[a].outcome = teardown[a].outcome
      /\ child'[a] \in {child[a], "gone"}
      /\ teardown'[a].how # "none"
      /\ teardown'[a].taints = teardown[a].taints
      /\ teardown'[a].settles = teardown[a].settles
      BY <1>1, <1>2 DEF StopReturns, TypeOK, Teardowns
<1>6. Beside(a)  BY <1>4 DEF Beside
<1>7. (story'.refused => story'.taint # "none") /\ (Publish \/ UNCHANGED <<story, verdict>>)
      BY <1>1, <1>4, <1>5 DEF Told
<1>8. Leased(a)'  BY <1>1, <1>4, <1>5 DEF Good, Leased, MayLive, Owns
<1>9. Begun(a)'  BY <1>1, <1>4, <1>5 DEF Good, Begun, Owns
<1>10. Settling(a)'  BY <1>1, <1>4, <1>5 DEF Good, Settling, Attended, Decided, Owns
<1>11. Owning(a)'  BY <1>1, <1>4, <1>5 DEF Good, Owning, Owns
<1>12. Earning(a)'  BY <1>1, <1>4, <1>5 DEF Good, Earning, Owns
<1>. QED BY <1>3, <1>6, <1>7, <1>8, <1>9, <1>10, <1>11, <1>12, OfOne DEF Good

LEMMA PublishOutcomeCares ==
    ASSUME IInv, IInv', Care, NEW a \in Attempts, PublishOutcome(a)
    PROVE  Care'
<1>1. TypeOK /\ Each(a) /\ Each(a)' /\ Good(a) /\ Told  BY DEF IInv, Care
<1>2. /\ teardown[a] \in Teardowns /\ teardown[a].at \in Places
      /\ teardown[a].outcome \in Outcomes
      BY <1>1 DEF TypeOK, Teardowns
<1>3. OnlyOf(a)  BY <1>1 DEF TypeOK, OnlyOf, PublishOutcome, closing, stops, starts, reads,
    stored
<1>4. /\ UNCHANGED <<closed, runtime, slot, asked, start, launch, late, pump, native, child,
                     story, verdict,
                     artifact>>
      /\ teardown[a].at = "recorded"
      BY DEF PublishOutcome, closing, hostSide, stops, starts, reads, stored
<1>5. /\ teardown'[a].at = "over" /\ teardown'[a].how = teardown[a].how
      /\ teardown'[a].outcome = IF teardown[a].how = "failed" THEN "owed" ELSE "ok"
      /\ teardown'[a].taints = teardown[a].taints
      /\ teardown'[a].settles = teardown[a].settles
      BY <1>1, <1>2 DEF PublishOutcome, TypeOK, Teardowns
<1>6. Beside(a)  BY <1>4 DEF Beside
<1>7. (story'.refused => story'.taint # "none") /\ (Publish \/ UNCHANGED <<story, verdict>>)
      BY <1>1, <1>4, <1>5 DEF Told
<1>8. Leased(a)'  BY <1>1, <1>4, <1>5 DEF Good, Leased, MayLive, Owns
<1>9. Begun(a)'  BY <1>1, <1>4, <1>5 DEF Good, Begun, Owns
<1>10. Settling(a)'  BY <1>1, <1>4, <1>5 DEF Good, Settling, Attended, Decided, Owns
<1>11. Owning(a)'  BY <1>1, <1>4, <1>5 DEF Good, Owning, Owns
<1>12. Earning(a)'  BY <1>1, <1>4, <1>5 DEF Good, Earning, Owns
<1>. QED BY <1>3, <1>6, <1>7, <1>8, <1>9, <1>10, <1>11, <1>12, OfOne DEF Good

LEMMA LoseWorkerCares ==
    ASSUME IInv, IInv', Care, NEW a \in Attempts, LoseWorker(a)
    PROVE  Care'
<1>1. TypeOK /\ Each(a) /\ Each(a)' /\ Good(a) /\ Told  BY DEF IInv, Care
<1>2. /\ teardown[a] \in Teardowns /\ teardown[a].at \in Places
      /\ teardown[a].outcome \in Outcomes
      BY <1>1 DEF TypeOK, Teardowns
<1>3. OnlyOf(a)  BY <1>1 DEF TypeOK, OnlyOf, LoseWorker, closing, stops, starts, reads,
    stored
<1>4. /\ UNCHANGED <<closed, runtime, slot, asked, start, launch, late, pump, native, child,
                     artifact>>
      /\ ~runtime /\ Running(a)
      BY DEF LoseWorker, Running, closing, hostSide, stops, starts, reads, stored
<1>5. /\ teardown'[a].at = "over" /\ teardown'[a].how = teardown[a].how
      /\ teardown'[a].outcome = "ok" => teardown[a].outcome = "ok"
      /\ teardown'[a].taints = teardown[a].taints
      /\ teardown'[a].settles = teardown[a].settles
      BY <1>1, <1>2 DEF LoseWorker, TypeOK, Teardowns, Loss
<1>6. Sours
      BY <1>1, StorySours DEF LoseWorker, TypeOK
<1>7. Publish
      BY DEF LoseWorker
<1>8. Beside(a)  BY <1>4, <1>6 DEF Beside, Sours
<1>9. (story'.refused => story'.taint # "none") /\ (Publish \/ UNCHANGED <<story, verdict>>)
      BY <1>1, <1>4, <1>5, <1>6, <1>7 DEF Told, Sours
<1>10. Leased(a)'  BY <1>1, <1>4, <1>5 DEF Good, Leased, Owns
<1>11. Begun(a)'  BY <1>1, <1>4, <1>5 DEF Good, Begun, Owns
<1>12. Settling(a)'  BY <1>1, <1>4, <1>5 DEF Good, Settling, Owns
<1>13. Owning(a)'  BY <1>1, <1>4, <1>5 DEF Good, Owning, Owns
<1>14. Earning(a)'  BY <1>1, <1>4, <1>5, <1>6 DEF Good, Owning, Earning, Each, Running,
    Stopping, Owns, Sours
<1>. QED BY <1>3, <1>8, <1>9, <1>10, <1>11, <1>12, <1>13, <1>14, OfOne DEF Good

LEMMA RecordStopCares ==
    ASSUME IInv, IInv', Care, NEW a \in Attempts, RecordStop(a)
    PROVE  Care'
<1>1. TypeOK /\ Each(a) /\ Each(a)' /\ Good(a) /\ Told  BY DEF IInv, Care
<1>2. /\ teardown[a] \in Teardowns /\ teardown[a].at \in Places
      /\ teardown[a].outcome \in Outcomes
      BY <1>1 DEF TypeOK, Teardowns
<1>3. OnlyOf(a)  BY <1>1 DEF TypeOK, OnlyOf, RecordStop, closing, stops, starts, reads,
    stored
<1>4. /\ UNCHANGED <<closed, runtime, asked, start, launch, late, pump, native, child,
                     artifact>>
      /\ runtime /\ teardown[a].at = "stopped" /\ Owns(a)
      /\ Publish
    <2>1. teardown[a].at = "stopped"  BY DEF RecordStop
    <2>2. Owns(a)  BY <1>1, <2>1 DEF Good, Owning
    <2>. QED BY <2>1, <2>2 DEF RecordStop, closing, hostSide, stops, starts, reads, stored
<1>5. /\ teardown'[a].at = "recorded" /\ Same(teardown'[a], teardown[a])
      /\ teardown'[a].taints = teardown[a].taints
      /\ teardown'[a].settles = teardown[a].settles
      /\ teardown[a].how \in {"none", "interrupted", "killed", "failed"}
      BY <1>1, <1>2 DEF RecordStop, TypeOK, Teardowns, Same
<1>6. \/ teardown[a].how = "failed" /\ slot' = slot
      \/ teardown[a].how # "failed" /\ (slot.settled \/ teardown[a].settles) /\ slot'.turn = NoAttempt
      \/ /\ teardown[a].how # "failed" /\ ~slot.settled /\ ~teardown[a].settles
         /\ slot'.turn = slot.turn /\ slot'.control = slot.control
         /\ slot'.stopped /\ slot'.settled = slot.settled
      BY <1>1, <1>4 DEF RecordStop, TypeOK, Slots, Free
<1>7. /\ teardown[a].how = "failed" => Sours
      /\ teardown[a].how # "failed" /\ teardown[a].taints /\ teardown[a].how = "killed" =>
            story'.refused /\ story'.taint # "none"
      /\ teardown[a].how # "failed" /\ ~(teardown[a].taints /\ teardown[a].how = "killed") =>
            /\ story'.refused = story.refused
            /\ story.taint # "none" => story'.taint # "none"
    <2>1. story \in Stories  BY <1>1 DEF TypeOK
    <2>2. CASE teardown[a].how = "failed"
      BY <1>1, <2>1, <2>2, StorySours DEF RecordStop
    <2>3. CASE teardown[a].how # "failed"
          <3>1. PICK s \in {story, Tainted(story, "unfinished")} : story' = Ended(teardown[a], s)
                BY <1>4, <2>3 DEF RecordStop, Noted
          <3>2. /\ s \in Stories /\ s.refused = story.refused
                /\ story.taint # "none" => s.taint # "none"
                BY <2>1 DEF Stories, Tainted
          <3>. QED BY <2>3, <3>1, <3>2 DEF Ended, Refused, Tainted, Stories
    <2>. QED BY <2>2, <2>3
<1>8. Beside(a)  BY <1>4, <1>6, <1>7 DEF Beside, Owns, Sours
<1>9. (story'.refused => story'.taint # "none") /\ (Publish \/ UNCHANGED <<story, verdict>>)
      BY <1>1, <1>4, <1>5, <1>6, <1>7 DEF Told, Sours
<1>10. Leased(a)'  BY <1>1, <1>4, <1>5, <1>6, NoAttemptAssumption DEF Good, Leased, Each,
    Launching, Kept, Runs, MayLive, Owns
<1>11. Begun(a)'  BY <1>1, <1>4, <1>5, <1>6, NoAttemptAssumption DEF Good, Begun, Owns
<1>12. Settling(a)'  BY <1>1, <1>4, <1>5, <1>6, NoAttemptAssumption DEF Good, Settling,
    Attended, Decided, Owns, Same
<1>13. Owning(a)'  BY <1>1, <1>4, <1>5, <1>6, NoAttemptAssumption DEF Good, Owning, Owns
<1>14. Earning(a)'  BY <1>1, <1>4, <1>5, <1>7 DEF Good, Earning, Sours, Same
<1>. QED BY <1>3, <1>8, <1>9, <1>10, <1>11, <1>12, <1>13, <1>14, OfOne DEF Good

-----------------------------------------------------------------------------
(* The start and the launch.                                                *)

LEMMA AdmitCares ==
    ASSUME IInv, IInv', Care, NEW a \in Attempts, Admit(a)
    PROVE  Care'
<1>1. TypeOK /\ Each(a) /\ Each(a)' /\ Good(a) /\ Told  BY DEF IInv, Care
<1>2. /\ teardown[a] \in Teardowns /\ teardown[a].at \in Places
      /\ teardown[a].outcome \in Outcomes
      BY <1>1 DEF TypeOK, Teardowns
<1>3. OnlyOf(a)  BY <1>1 DEF TypeOK, OnlyOf, Admit, closing, stops, starts, reads, stored
<1>4. /\ UNCHANGED <<closed, runtime, asked, teardown, late, pump, native, child>>
      /\ start[a] = "idle" /\ start'[a] = "launching" /\ ~closed /\ slot.turn = NoAttempt
      /\ launch'[a] = "pending" /\ Publish
      BY <1>1 DEF Admit, TypeOK, closing, hostSide, stops, starts, reads, stored
<1>5. slot'.turn = a /\ ~slot'.control /\ ~slot'.stopped /\ ~slot'.settled
      BY DEF Admit, Free
<1>6. /\ story'.refused = story.refused /\ story'.taint = story.taint
      /\ ~story'.finished
      BY <1>1 DEF Admit, TypeOK, Stories
<1>7. /\ artifact'.held = artifact.held \cup {a} /\ artifact'.by = artifact.by
      /\ artifact'.kept = artifact.kept
    <2>1. artifact.by = "session"  BY <1>4 DEF Care, Handed
    <2>. QED BY <1>1, <2>1 DEF Admit, TypeOK, Artifacts
<1>8. Beside(a)  BY <1>4, <1>5, <1>6, <1>7 DEF Beside
<1>9. (story'.refused => story'.taint # "none") /\ (Publish \/ UNCHANGED <<story, verdict>>)
      BY <1>1, <1>4, <1>5, <1>6, <1>7 DEF Told
<1>10. Leased(a)'  BY <1>4, <1>5, <1>7 DEF Leased
<1>11. Begun(a)'  BY <1>1, <1>4, <1>5 DEF Begun, Each, Stages
<1>12. Settling(a)'  BY <1>1, <1>4 DEF Settling, Attended, Each, Launching
<1>13. Owning(a)'  BY <1>1, <1>4, <1>5 DEF Good, Owning, Owns
<1>14. Earning(a)'  BY <1>1, <1>4, <1>5, <1>6 DEF Good, Earning, Owns
<1>. QED BY <1>3, <1>8, <1>9, <1>10, <1>11, <1>12, <1>13, <1>14, OfOne DEF Good

LEMMA LauncherReturnsCares ==
    ASSUME IInv, IInv', Care, NEW a \in Attempts, LauncherReturns(a)
    PROVE  Care'
<1>1. TypeOK /\ Each(a) /\ Each(a)' /\ Good(a) /\ Told  BY DEF IInv, Care
<1>2. /\ teardown[a] \in Teardowns /\ teardown[a].at \in Places
      /\ teardown[a].outcome \in Outcomes
      BY <1>1 DEF TypeOK, Teardowns
<1>3. OnlyOf(a)  BY <1>1 DEF TypeOK, OnlyOf, LauncherReturns, closing, stops, starts, reads,
    stored
<1>4. /\ UNCHANGED <<closed, runtime, slot, asked, teardown, start, late, pump, native, story,
                     verdict,
                     artifact>>
      /\ launch[a] = "pending" /\ launch'[a] \in {"child", "bare", "owed"}
      /\ child'[a] \in {child[a], "live"}
      BY <1>1 DEF LauncherReturns, TypeOK, closing, hostSide, stops, starts, reads, stored
<1>5. Beside(a)  BY <1>4 DEF Beside
<1>6. (story'.refused => story'.taint # "none") /\ (Publish \/ UNCHANGED <<story, verdict>>)
      BY <1>1, <1>4 DEF Told
<1>7. Leased(a)'  BY <1>1, <1>4 DEF Good, Leased, MayLive, Owns
<1>8. Begun(a)'  BY <1>1, <1>4 DEF Good, Begun, Owns
<1>9. Settling(a)'  BY <1>1, <1>4 DEF Good, Settling, Attended, Decided, Owns
<1>10. Owning(a)'  BY <1>1, <1>4 DEF Good, Owning, Owns
<1>11. Earning(a)'  BY <1>1, <1>4 DEF Good, Earning, Owns
<1>. QED BY <1>3, <1>5, <1>6, <1>7, <1>8, <1>9, <1>10, <1>11, OfOne DEF Good

LEMMA BegunFlags ==
    ASSUME NEW t \in Teardowns
    PROVE  /\ ~Started(Made(t, TRUE), TRUE).taints => ~t.taints
           /\ t.at \notin {"none", "idle"} => Started(Made(t, TRUE), TRUE).settles = t.settles
<1>1. TRUE \in BOOLEAN  OBVIOUS
<1>2. /\ Started(Made(t, TRUE), TRUE).taints = IF t.at = "none" THEN TRUE ELSE t.taints
      /\ Started(Made(t, TRUE), TRUE).settles =
            IF t.at \in {"none", "idle"} THEN TRUE ELSE t.settles
      BY <1>1, MadeStartedFlags
<1>. QED BY <1>2

LEMMA ForgetFields ==
    ASSUME TypeOK, NEW a \in Attempts, Forget(a), Owns(a), ~slot.control,
           teardown[a].at \in {"none", "idle"}
    PROVE  /\ slot'.turn = NoAttempt
           /\ teardown'[a].at \in {"none", "over"} /\ teardown'[a].how = teardown[a].how
           /\ teardown'[a].at = "none" => teardown'[a].outcome = teardown[a].outcome
           /\ teardown'[a].taints = teardown[a].taints
           /\ teardown'[a].settles = teardown[a].settles
           /\ story'.refused = story.refused /\ story'.taint = story.taint
           /\ artifact'.held = artifact.held \ {a} /\ artifact'.by = artifact.by
           /\ artifact.kept => artifact'.kept
           /\ Publish
<1>1. teardown[a] \in Teardowns /\ story \in Stories  BY DEF TypeOK
<1>2. /\ teardown'[a] = Unstarted(teardown[a]) /\ slot' = Free
      /\ story' = [story EXCEPT !.finished = story.before] /\ Publish
      BY DEF Forget, TypeOK
<1>3. /\ Unstarted(teardown[a]).at \in {"none", "over"}
      /\ Unstarted(teardown[a]).how = teardown[a].how
      /\ Unstarted(teardown[a]).at = "none" => Unstarted(teardown[a]) = teardown[a]
      /\ Unstarted(teardown[a]).taints = teardown[a].taints
      /\ Unstarted(teardown[a]).settles = teardown[a].settles
      BY <1>1 DEF Unstarted, Teardowns
<1>4. slot'.turn = NoAttempt  BY <1>2 DEF Free
<1>5. story'.refused = story.refused /\ story'.taint = story.taint  BY <1>1, <1>2 DEF Stories
<1>6. /\ artifact'.held = artifact.held \ {a} /\ artifact'.by = artifact.by
      /\ artifact.kept => artifact'.kept
      BY ReleaseFields DEF Forget
<1>. QED BY <1>2, <1>3, <1>4, <1>5, <1>6

LEMMA RetainFields ==
    ASSUME TypeOK, Told, NEW a \in Attempts, Retain(a), Owns(a),
           teardown[a].at \in {"none", "idle"}
    PROVE  /\ slot' = slot
           /\ teardown'[a].at = "over" /\ teardown'[a].outcome = "owed"
           /\ teardown'[a].how = teardown[a].how
           /\ ~teardown'[a].taints => ~teardown[a].taints
           /\ teardown'[a].settles = teardown[a].settles
           /\ artifact'.held = artifact.held \ {a} /\ artifact'.by = artifact.by
           /\ artifact'.kept <=> artifact.kept \/ a \in artifact.held
           /\ Sours /\ Publish
<1>1. teardown[a] \in Teardowns /\ story \in Stories  BY DEF TypeOK
<1>2. /\ Made(teardown[a], TRUE) \in Teardowns /\ Made(teardown[a], TRUE).at = "idle"
      /\ Made(teardown[a], TRUE).how = teardown[a].how
      /\ Made(teardown[a], TRUE).settles = teardown[a].settles
      /\ ~Made(teardown[a], TRUE).taints => ~teardown[a].taints
      BY <1>1, TeardownType, MadeFields DEF Same, Made, Teardowns
<1>3. teardown'[a] = [Made(teardown[a], TRUE) EXCEPT !.at = "over", !.outcome = "owed"]
      BY <1>2 DEF Retain, TypeOK
<1>4. /\ teardown'[a].at = "over" /\ teardown'[a].outcome = "owed"
      /\ teardown'[a].how = teardown[a].how
      /\ ~teardown'[a].taints => ~teardown[a].taints
      /\ teardown'[a].settles = teardown[a].settles
      BY <1>2, <1>3 DEF Teardowns
<1>5. Sours  BY <1>1, StorySours DEF Retain
<1>6. /\ artifact'.held = artifact.held \ {a} /\ artifact'.by = artifact.by
      /\ artifact'.kept <=> artifact.kept \/ a \in artifact.held
      BY ReleaseFields DEF Retain
<1>. QED BY <1>4, <1>5, <1>6 DEF Retain

LEMMA StartFailsCares ==
    ASSUME IInv, IInv', Care, NEW a \in Attempts, StartFails(a)
    PROVE  Care'
<1>1. TypeOK /\ Each(a) /\ Each(a)' /\ Good(a) /\ Told  BY DEF IInv, Care
<1>2. /\ teardown[a] \in Teardowns /\ teardown[a].at \in Places
      /\ teardown[a].outcome \in Outcomes
      BY <1>1 DEF TypeOK, Teardowns
<1>3. OnlyOf(a)  BY <1>1 DEF TypeOK, OnlyOf, StartFails, Forget, Retain, closing, stops,
    starts, reads, stored
<1>4. /\ UNCHANGED <<closed, runtime, asked, late, pump, native, child>>
      /\ start[a] = "launching" /\ start'[a] = "over"
      /\ launch[a] \in {"bare", "owed"} /\ launch'[a] = "read"
      BY <1>1 DEF StartFails, TypeOK, closing, hostSide, stops, starts, reads, stored
<1>5. Owns(a) /\ ~slot.control /\ teardown[a].at \in {"none", "idle"}
      BY <1>1, <1>4 DEF Each, Launching
<1>6. /\ launch[a] = "bare" =>
            /\ slot'.turn = NoAttempt
            /\ teardown'[a].at \in {"none", "over"} /\ teardown'[a].how = teardown[a].how
            /\ teardown'[a].at = "none" => teardown'[a].outcome = teardown[a].outcome
            /\ teardown'[a].taints = teardown[a].taints
            /\ teardown'[a].settles = teardown[a].settles
            /\ story'.refused = story.refused /\ story'.taint = story.taint
            /\ artifact'.held = artifact.held \ {a} /\ artifact'.by = artifact.by
            /\ artifact.kept => artifact'.kept
            /\ Publish
      /\ launch[a] = "owed" =>
            /\ slot' = slot
            /\ teardown'[a].at = "over" /\ teardown'[a].outcome = "owed"
            /\ teardown'[a].how = teardown[a].how
            /\ ~teardown'[a].taints => ~teardown[a].taints
            /\ teardown'[a].settles = teardown[a].settles
            /\ artifact'.held = artifact.held \ {a} /\ artifact'.by = artifact.by
            /\ artifact'.kept <=> artifact.kept \/ a \in artifact.held
            /\ Sours /\ Publish
      BY <1>1, <1>5, ForgetFields, RetainFields DEF StartFails
<1>7. Beside(a)  BY <1>4, <1>5, <1>6 DEF Beside, Owns, Sours
<1>8. (story'.refused => story'.taint # "none") /\ (Publish \/ UNCHANGED <<story, verdict>>)
      BY <1>1, <1>4, <1>5, <1>6 DEF Told, Sours
<1>9. Leased(a)'  BY <1>1, <1>4, <1>6, NoAttemptAssumption DEF Good, Leased, Each, Kept,
    Runs, MayLive, Owns
<1>10. Begun(a)'  BY <1>1, <1>4, <1>6, NoAttemptAssumption DEF Good, Begun, Owns
<1>11. Settling(a)'  BY <1>1, <1>4, <1>5, <1>6, NoAttemptAssumption DEF Good, Settling,
    Decided, Owns
<1>12. Owning(a)'  BY <1>1, <1>4, <1>5, <1>6 DEF Good, Begun, Owning
<1>13. Earning(a)'  BY <1>1, <1>4, <1>5, <1>6, NoAttemptAssumption DEF Good, Earning, Owns,
    Sours
<1>. QED BY <1>3, <1>7, <1>8, <1>9, <1>10, <1>11, <1>12, <1>13, OfOne DEF Good

LEMMA LateLaunchCares ==
    ASSUME IInv, IInv', Care, NEW a \in Attempts, LateLaunch(a)
    PROVE  Care'
<1>1. TypeOK /\ Each(a) /\ Each(a)' /\ Good(a) /\ Told  BY DEF IInv, Care
<1>2. /\ teardown[a] \in Teardowns /\ teardown[a].at \in Places
      /\ teardown[a].outcome \in Outcomes
      BY <1>1 DEF TypeOK, Teardowns
<1>3. OnlyOf(a)  BY <1>1 DEF TypeOK, OnlyOf, LateLaunch, Forget, Retain, closing, stops,
    starts, reads, stored
<1>4. /\ UNCHANGED <<closed, runtime, asked, start, pump, native, child>>
      /\ late[a] = "waiting" /\ late'[a] = IF launch[a] = "child" THEN "holding" ELSE "over"
      /\ launch[a] \in {"child", "bare", "owed"} /\ launch'[a] = "read"
      BY <1>1 DEF LateLaunch, TypeOK, closing, hostSide, stops, starts, reads, stored
<1>5. Owns(a) /\ ~slot.control /\ teardown[a].at \in {"none", "idle"}
      BY <1>1, <1>4 DEF Each, Launching
<1>6. launch[a] = "child" => UNCHANGED <<slot, teardown, story, verdict, artifact>>
      BY DEF LateLaunch, stored
<1>7. /\ launch[a] = "bare" =>
            /\ slot'.turn = NoAttempt
            /\ teardown'[a].at \in {"none", "over"} /\ teardown'[a].how = teardown[a].how
            /\ teardown'[a].at = "none" => teardown'[a].outcome = teardown[a].outcome
            /\ teardown'[a].taints = teardown[a].taints
            /\ teardown'[a].settles = teardown[a].settles
            /\ story'.refused = story.refused /\ story'.taint = story.taint
            /\ artifact'.held = artifact.held \ {a} /\ artifact'.by = artifact.by
            /\ artifact.kept => artifact'.kept
            /\ Publish
      /\ launch[a] = "owed" =>
            /\ slot' = slot
            /\ teardown'[a].at = "over" /\ teardown'[a].outcome = "owed"
            /\ teardown'[a].how = teardown[a].how
            /\ ~teardown'[a].taints => ~teardown[a].taints
            /\ teardown'[a].settles = teardown[a].settles
            /\ artifact'.held = artifact.held \ {a} /\ artifact'.by = artifact.by
            /\ artifact'.kept <=> artifact.kept \/ a \in artifact.held
            /\ Sours /\ Publish
      BY <1>1, <1>5, ForgetFields, RetainFields DEF LateLaunch
<1>8. Beside(a)  BY <1>4, <1>5, <1>6, <1>7 DEF Beside, Owns, Sours
<1>9. (story'.refused => story'.taint # "none") /\ (Publish \/ UNCHANGED <<story, verdict>>)
      BY <1>1, <1>4, <1>5, <1>6, <1>7 DEF Told, Sours
<1>10. Leased(a)'  BY <1>1, <1>4, <1>6, <1>7, NoAttemptAssumption DEF Good, Leased, Each,
    Kept, Runs, MayLive, Owns
<1>11. Begun(a)'  BY <1>1, <1>4, <1>6, <1>7, NoAttemptAssumption DEF Good, Begun, Owns
<1>12. Settling(a)'  BY <1>1, <1>4, <1>5, <1>6, <1>7, NoAttemptAssumption DEF Good,
    Settling, Attended, Decided, Owns
<1>13. Owning(a)'  BY <1>1, <1>4, <1>5, <1>6, <1>7, NoAttemptAssumption DEF Good, Leased,
    Begun, Owning, Owns
<1>14. Earning(a)'  BY <1>1, <1>4, <1>5, <1>6, <1>7, NoAttemptAssumption DEF Good, Earning,
    Owns, Sours
<1>. QED BY <1>3, <1>8, <1>9, <1>10, <1>11, <1>12, <1>13, <1>14, OfOne DEF Good

LEMMA InstallCares ==
    ASSUME IInv, IInv', Care, NEW a \in Attempts, Install(a)
    PROVE  Care'
<1>1. TypeOK /\ Each(a) /\ Each(a)' /\ Good(a) /\ Told  BY DEF IInv, Care
<1>2. /\ teardown[a] \in Teardowns /\ teardown[a].at \in Places
      /\ teardown[a].outcome \in Outcomes
      BY <1>1 DEF TypeOK, Teardowns
<1>3. OnlyOf(a)  BY <1>1 DEF TypeOK, OnlyOf, Install, closing, stops, starts, reads, stored
<1>4. /\ UNCHANGED <<closed, runtime, asked, late, pump, native, child, story, verdict,
                     artifact>>
      /\ start[a] = "launching" /\ launch[a] = "child" /\ launch'[a] = "read"
      BY <1>1 DEF Install, TypeOK, closing, hostSide, stops, starts, reads, stored
<1>5. /\ Owns(a) /\ (closed => a \in asked)
      /\ teardown[a].at \in {"none", "idle"}
      BY <1>1, <1>4 DEF Each, Launching, Bare
<1>6. a \in asked =>
        /\ slot' = slot /\ start'[a] = "stopping"
        /\ Same(teardown'[a], teardown[a]) /\ teardown'[a].at = "queued"
        /\ ~teardown'[a].taints => ~teardown[a].taints
    <2>1. a \in asked =>
                /\ slot' = slot /\ start'[a] = "stopping"
                /\ teardown'[a] = Started(Made(teardown[a], TRUE), TRUE)
      BY <1>1, <1>5 DEF Install, TypeOK
    <2>2. /\ Same(Started(Made(teardown[a], TRUE), TRUE), teardown[a])
              /\ Started(Made(teardown[a], TRUE), TRUE).at = "queued"
      BY <1>2, <1>5, MadeStartedFields
    <2>3. ~Started(Made(teardown[a], TRUE), TRUE).taints => ~teardown[a].taints
      BY <1>2, BegunFlags
    <2>. QED BY <2>1, <2>2, <2>3
<1>7. a \notin asked =>
        /\ start'[a] = "releasing"
        /\ teardown'[a].at = "none" /\ teardown'[a].outcome = "none"
        /\ teardown'[a].how = "none" /\ teardown'[a].taints /\ ~teardown'[a].settles
        /\ slot'.turn = a /\ slot'.control /\ ~slot'.stopped /\ ~slot'.settled
    <2>1. a \notin asked =>
                /\ start'[a] = "releasing" /\ teardown'[a] = NoTeardown
                /\ slot' = [Free EXCEPT !.turn = a, !.control = TRUE]
      BY <1>1, <1>5 DEF Install, TypeOK
    <2>2. /\ NoTeardown.at = "none" /\ NoTeardown.outcome = "none" /\ NoTeardown.how = "none"
              /\ NoTeardown.taints /\ ~NoTeardown.settles
      BY DEF NoTeardown
    <2>3. LET s == [Free EXCEPT !.turn = a, !.control = TRUE]
              IN  s.turn = a /\ s.control /\ ~s.stopped /\ ~s.settled
      BY DEF Free
    <2>. QED BY <2>1, <2>2, <2>3
<1>8. closed \/ artifact.by = "session"
      BY DEF Care, Handed
<1>9. Beside(a)  BY <1>4, <1>5, <1>6, <1>7 DEF Beside, Owns
<1>10. (story'.refused => story'.taint # "none") /\ (Publish \/ UNCHANGED <<story, verdict>>)
      BY <1>1, <1>4, <1>5, <1>6, <1>7, <1>8 DEF Told
<1>11. Leased(a)'  BY <1>1, <1>4, <1>5, <1>6, <1>7, <1>8 DEF Good, Leased, MayLive
<1>12. Begun(a)'  BY <1>1, <1>4, <1>5, <1>6, <1>7 DEF Good, Begun
<1>13. Settling(a)'  BY <1>1, <1>4, <1>5, <1>6, <1>7 DEF Good, Settling, Attended, Same
<1>14. Owning(a)'  BY <1>1, <1>4, <1>5, <1>6, <1>7 DEF Good, Owning, Each, Stages, Owns
<1>15. Earning(a)'  BY <1>1, <1>4, <1>5, <1>6, <1>7 DEF Good, Earning, Same
<1>. QED BY <1>3, <1>9, <1>10, <1>11, <1>12, <1>13, <1>14, <1>15, OfOne DEF Good

LEMMA ReleaseLeaseCares ==
    ASSUME IInv, IInv', Care, NEW a \in Attempts, ReleaseLease(a)
    PROVE  Care'
<1>1. TypeOK /\ Each(a) /\ Each(a)' /\ Good(a) /\ Told  BY DEF IInv, Care
<1>2. /\ teardown[a] \in Teardowns /\ teardown[a].at \in Places
      /\ teardown[a].outcome \in Outcomes
      BY <1>1 DEF TypeOK, Teardowns
<1>3. OnlyOf(a)  BY <1>1 DEF TypeOK, OnlyOf, ReleaseLease, closing, stops, starts, reads,
    stored
<1>4. /\ UNCHANGED <<closed, runtime, slot, asked, teardown, start, launch, late, pump,
                     native, child, story,
                     verdict>>
      /\ start[a] = "releasing"
      BY DEF ReleaseLease, closing, hostSide, stops, starts, reads, stored
<1>5. /\ artifact'.held = artifact.held \ {a} /\ artifact'.by = artifact.by
      /\ artifact.kept => artifact'.kept
      BY <1>1, ReleaseFields DEF ReleaseLease
<1>6. Beside(a)  BY <1>4, <1>5 DEF Beside
<1>7. (story'.refused => story'.taint # "none") /\ (Publish \/ UNCHANGED <<story, verdict>>)
      BY <1>1, <1>4, <1>5 DEF Told
<1>8. Leased(a)'  BY <1>1, <1>4, <1>5 DEF Good, Leased, Each, Launching, Kept, Runs,
    MayLive, Owns
<1>9. Begun(a)'  BY <1>1, <1>4 DEF Good, Begun, Owns
<1>10. Settling(a)'  BY <1>1, <1>4 DEF Good, Settling, Attended, Owns
<1>11. Owning(a)'  BY <1>1, <1>4 DEF Good, Owning, Owns
<1>12. Earning(a)'  BY <1>1, <1>4 DEF Good, Earning, Owns
<1>. QED BY <1>3, <1>6, <1>7, <1>8, <1>9, <1>10, <1>11, <1>12, OfOne DEF Good

LEMMA RecheckCares ==
    ASSUME IInv, IInv', Care, NEW a \in Attempts, Recheck(a)
    PROVE  Care'
<1>1. TypeOK /\ Each(a) /\ Each(a)' /\ Good(a) /\ Told  BY DEF IInv, Care
<1>2. /\ teardown[a] \in Teardowns /\ teardown[a].at \in Places
      /\ teardown[a].outcome \in Outcomes
      BY <1>1 DEF TypeOK, Teardowns
<1>3. OnlyOf(a)  BY <1>1 DEF TypeOK, OnlyOf, Recheck, closing, stops, starts, reads, stored
<1>4. /\ UNCHANGED <<closed, runtime, asked, teardown, launch, late, pump, native, child,
                     story, verdict,
                     artifact>>
      /\ start[a] = "releasing"
      BY DEF Recheck, closing, hostSide, stops, starts, reads, stored
<1>5. \/ /\ start'[a] = "starting" /\ slot' = slot
         /\ ~closed /\ Owns(a) /\ a \notin asked
      \/ /\ start'[a] = "over" /\ (closed \/ ~Owns(a) \/ a \in asked)
         /\ ~Owns(a) => slot' = slot
         /\ Owns(a) /\ slot.stopped => slot'.turn = NoAttempt
         /\ Owns(a) /\ ~slot.stopped =>
               slot'.turn = a /\ slot'.control = slot.control /\ ~slot'.stopped /\ slot'.settled
      BY <1>1, SettleFields DEF Recheck, TypeOK
<1>6. Beside(a)  BY <1>4, <1>5 DEF Beside, Owns
<1>7. (story'.refused => story'.taint # "none") /\ (Publish \/ UNCHANGED <<story, verdict>>)
      BY <1>1, <1>4, <1>5 DEF Told
<1>8. Leased(a)'  BY <1>1, <1>4, <1>5 DEF Good, Leased, Each, Launching, Kept, Runs,
    MayLive, Owns
<1>9. Begun(a)'  BY <1>1, <1>4, <1>5, NoAttemptAssumption DEF Good, Begun, Owns
<1>10. Settling(a)'  BY <1>1, <1>2, <1>4, <1>5, NoAttemptAssumption DEF Good, Begun,
    Settling, Attended, Decided, Each, Answering, Running, Stopping, Bare, Owns, Places,
    Outcomes
<1>11. Owning(a)'  BY <1>1, <1>4, <1>5 DEF Good, Owning, Each, Stages, Stopping, Owns
<1>12. Earning(a)'  BY <1>1, <1>4, <1>5 DEF Good, Earning, Owns
<1>. QED BY <1>3, <1>6, <1>7, <1>8, <1>9, <1>10, <1>11, <1>12, OfOne DEF Good

LEMMA DropStartCares ==
    ASSUME IInv, IInv', Care, NEW a \in Attempts, DropStart(a)
    PROVE  Care'
<1>1. TypeOK /\ Each(a) /\ Each(a)' /\ Good(a) /\ Told  BY DEF IInv, Care
<1>2. /\ teardown[a] \in Teardowns /\ teardown[a].at \in Places
      /\ teardown[a].outcome \in Outcomes
      BY <1>1 DEF TypeOK, Teardowns
<1>3. OnlyOf(a)  BY <1>1 DEF TypeOK, OnlyOf, DropStart, closing, stops, starts, reads,
    stored
<1>4. /\ UNCHANGED <<closed, runtime, slot, launch, pump, native, child, story>>
      /\ start[a] \in {"launching", "stopping", "releasing", "refusing"} /\ start'[a] = "over"
      BY <1>1 DEF DropStart, TypeOK, closing, hostSide, stops, starts, reads, stored
<1>5. Owns(a) /\ Abandons(a) =>
        /\ asked' = asked \cup {a} /\ late'[a] \in {"waiting", "holding"} /\ artifact' = artifact
        /\ Publish \/ verdict' = verdict
        /\ Same(teardown'[a], teardown[a])
        /\ teardown'[a].at = IF teardown[a].at = "none" THEN "idle" ELSE teardown[a].at
        /\ ~teardown'[a].taints => ~teardown[a].taints
        /\ teardown'[a].settles = teardown[a].settles
    <2>1. Owns(a) /\ Abandons(a) =>
                /\ asked' = asked \cup {a} /\ late'[a] \in {"waiting", "holding"}
                /\ artifact' = artifact /\ (Publish \/ verdict' = verdict)
                /\ teardown'[a] = Made(teardown[a], TRUE)
      BY <1>1 DEF DropStart, TypeOK
    <2>2. teardown'[a] = Made(teardown[a], TRUE) =>
                /\ Same(teardown'[a], teardown[a])
                /\ teardown'[a].at = IF teardown[a].at = "none" THEN "idle" ELSE teardown[a].at
      BY <1>2, MadeFields
    <2>3. teardown'[a] = Made(teardown[a], TRUE) => teardown'[a].settles = teardown[a].settles
          <3>1. Made(teardown[a], TRUE).settles = teardown[a].settles  BY <1>2, MadeFlags
          <3>. QED BY <3>1
    <2>4. teardown'[a] = Made(teardown[a], TRUE) =>
                (~teardown'[a].taints => ~teardown[a].taints)
      BY <1>2, MadeFlags, Zenon
    <2>. QED BY <2>1, <2>2, <2>3, <2>4, Zenon
<1>6. ~(Owns(a) /\ Abandons(a)) =>
        /\ UNCHANGED <<asked, teardown, late, verdict>>
        /\ artifact'.held = artifact.held \ {a} /\ artifact'.by = artifact.by
        /\ artifact.kept => artifact'.kept
      BY <1>1, ReleaseFields DEF DropStart, stored
<1>7. Beside(a)  BY <1>4, <1>5, <1>6 DEF Beside
<1>8. (story'.refused => story'.taint # "none") /\ (Publish \/ UNCHANGED <<story, verdict>>)
      BY <1>1, <1>4, <1>5, <1>6 DEF Told
<1>9. Leased(a)'  BY <1>1, <1>4, <1>5, <1>6 DEF Good, Leased, Each, Launching, Kept, Runs,
    MayLive, Owns, Abandons
<1>10. Begun(a)'  BY <1>1, <1>4, <1>5, <1>6 DEF Good, Begun, Owns
<1>11. Settling(a)'  BY <1>1, <1>4, <1>5, <1>6 DEF Good, Settling, Attended, Decided, Each,
    Stages, Stopping, Owns, Same, Abandons
<1>12. Owning(a)'  BY <1>1, <1>4, <1>5, <1>6 DEF Good, Owning, Owns
<1>13. Earning(a)'  BY <1>1, <1>4, <1>5, <1>6 DEF Good, Earning, Owns, Same
<1>. QED BY <1>3, <1>7, <1>8, <1>9, <1>10, <1>11, <1>12, <1>13, OfOne DEF Good

LEMMA LateStopCares ==
    ASSUME IInv, IInv', Care, NEW a \in Attempts, LateStop(a)
    PROVE  Care'
<1>1. TypeOK /\ Each(a) /\ Each(a)' /\ Good(a) /\ Told  BY DEF IInv, Care
<1>2. /\ teardown[a] \in Teardowns /\ teardown[a].at \in Places
      /\ teardown[a].outcome \in Outcomes
      BY <1>1 DEF TypeOK, Teardowns
<1>3. OnlyOf(a)  BY <1>1 DEF TypeOK, OnlyOf, LateStop, closing, stops, starts, reads, stored
<1>4. /\ UNCHANGED <<closed, runtime, slot, asked, start, launch, pump, native, child, story,
                     verdict,
                     artifact>>
      /\ late[a] = "holding" /\ late'[a] = "stopping"
      BY <1>1 DEF LateStop, TypeOK, closing, hostSide, stops, starts, reads, stored
<1>5. ~Owns(a) => teardown'[a] = teardown[a]
      BY <1>1 DEF LateStop, TypeOK
<1>6. Owns(a) =>
        /\ Same(teardown'[a], teardown[a])
        /\ teardown'[a].at = IF teardown[a].at \in {"none", "idle"}
                             THEN "queued" ELSE teardown[a].at
        /\ ~teardown'[a].taints => ~teardown[a].taints
        /\ teardown[a].at \notin {"none", "idle"} => teardown'[a].settles = teardown[a].settles
    <2>1. Owns(a) => teardown'[a] = Started(Made(teardown[a], TRUE), TRUE)
      BY <1>1 DEF LateStop, TypeOK
    <2>2. teardown'[a] = Started(Made(teardown[a], TRUE), TRUE) =>
                /\ Same(teardown'[a], teardown[a])
                /\ teardown'[a].at = IF teardown[a].at \in {"none", "idle"} THEN "queued"
                                     ELSE teardown[a].at
      BY <1>2, MadeStartedFields
    <2>3. teardown'[a] = Started(Made(teardown[a], TRUE), TRUE) =>
                (~teardown'[a].taints => ~teardown[a].taints)
      BY <1>2, BegunFlags
    <2>4. teardown'[a] = Started(Made(teardown[a], TRUE), TRUE) =>
                (teardown[a].at \notin {"none", "idle"} =>
                    teardown'[a].settles = teardown[a].settles)
      BY <1>2, BegunFlags
    <2>. QED BY <2>1, <2>2, <2>3, <2>4, Zenon
<1>7. Beside(a)  BY <1>4 DEF Beside
<1>8. (story'.refused => story'.taint # "none") /\ (Publish \/ UNCHANGED <<story, verdict>>)
      BY <1>1, <1>4, <1>5, <1>6 DEF Told
<1>9. Leased(a)'  BY <1>1, <1>4, <1>6 DEF Good, Leased, MayLive, Owns
<1>10. Begun(a)'  BY <1>1, <1>4, <1>5, <1>6 DEF Good, Begun, Owns
<1>11. Settling(a)'  BY <1>1, <1>4, <1>5, <1>6 DEF Good, Settling, Attended, Owns, Same
<1>12. Owning(a)'  BY <1>1, <1>4, <1>5 DEF Good, Owning, Each, Stages, Owns
<1>13. Earning(a)'  BY <1>1, <1>4, <1>5, <1>6 DEF Good, Earning, Owns, Same
<1>. QED BY <1>3, <1>7, <1>8, <1>9, <1>10, <1>11, <1>12, <1>13, OfOne DEF Good

LEMMA LoseLateCares ==
    ASSUME IInv, IInv', Care, NEW a \in Attempts, LoseLate(a)
    PROVE  Care'
<1>1. TypeOK /\ Each(a) /\ Each(a)' /\ Good(a) /\ Told  BY DEF IInv, Care
<1>2. /\ teardown[a] \in Teardowns /\ teardown[a].at \in Places
      /\ teardown[a].outcome \in Outcomes
      BY <1>1 DEF TypeOK, Teardowns
<1>3. OnlyOf(a)  BY <1>1 DEF TypeOK, OnlyOf, LoseLate, closing, stops, starts, reads, stored
<1>4. /\ UNCHANGED <<closed, runtime, slot, asked, start, launch, pump, native, child>>
      /\ ~runtime /\ late[a] \in {"waiting", "holding", "stopping"} /\ late'[a] = "over"
      BY <1>1 DEF LoseLate, TypeOK, closing, hostSide, stops, starts, reads, stored
<1>5. /\ teardown'[a].at = teardown[a].at /\ teardown'[a].how = teardown[a].how
      /\ teardown'[a].outcome = "ok" => teardown[a].outcome = "ok"
      /\ teardown'[a].taints = teardown[a].taints
      /\ teardown'[a].settles = teardown[a].settles
      BY <1>1, <1>2 DEF LoseLate, TypeOK, Teardowns, Loss
<1>6. Sours /\ Publish
      BY <1>1, StorySours DEF LoseLate, TypeOK, Sours, Told
<1>7. /\ artifact'.held = artifact.held \ {a} /\ artifact'.by = artifact.by
      /\ artifact.kept => artifact'.kept
      BY <1>1, ReleaseFields DEF LoseLate
<1>8. Beside(a)  BY <1>4, <1>6, <1>7 DEF Beside, Sours
<1>9. (story'.refused => story'.taint # "none") /\ (Publish \/ UNCHANGED <<story, verdict>>)
      BY <1>1, <1>4, <1>5, <1>6, <1>7 DEF Told, Sours
<1>10. Leased(a)'  BY <1>1, <1>4, <1>5 DEF Good, Leased, Owns
<1>11. Begun(a)'  BY <1>1, <1>4, <1>5 DEF Good, Begun, Owns
<1>12. Settling(a)'  BY <1>1, <1>4, <1>5 DEF Good, Settling, Owns
<1>13. Owning(a)'  BY <1>1, <1>4, <1>5 DEF Good, Owning, Owns
<1>14. Earning(a)'  BY <1>1, <1>4, <1>5, <1>6 DEF Good, Earning, Owns, Sours
<1>. QED BY <1>3, <1>8, <1>9, <1>10, <1>11, <1>12, <1>13, <1>14, OfOne DEF Good

-----------------------------------------------------------------------------
(* The close worker lets go of the configuration.                           *)

\* It moves nothing but the share of the session, and says so of the session at most.
LEMMA LetsGo ==
    ASSUME IInv, IInv', Care, closed,
           UNCHANGED <<closed, runtime, slot, asked, teardown, start, launch, late, native,
                       pump, child, story, verdict>>,
           artifact'.held = artifact.held, artifact.kept => artifact'.kept,
           artifact'.by # "session",
           \A x \in Attempts :
               runtime /\ MayLive(x) /\ ~artifact'.kept /\ artifact'.by = "nobody" => ~slot.control
    PROVE  Care'
<1>1. Handed' /\ Told'  BY DEF Care, Handed, Told
<1>2. ASSUME NEW x \in Attempts PROVE Good(x)'
  <2>1. Good(x)  BY DEF Care
  <2>2. Leased(x)'  BY <2>1 DEF Good, Leased, Owns, MayLive
  <2>3. Begun(x)' /\ Settling(x)' /\ Owning(x)' /\ Earning(x)'
        BY <2>1 DEF Good, Begun, Settling, Attended, Decided, Owning, Earning, Owns
  <2>. QED BY <2>2, <2>3 DEF Good
<1>. QED BY <1>1, <1>2 DEF Care

LEMMA CloserStoppedCares ==
    ASSUME IInv, IInv', Care, CloserStopped
    PROVE  Care'
<1>1. TypeOK /\ CloserInv /\ closed  BY DEF IInv, CloserInv, CloserStopped
<1>2. UNCHANGED <<closed, runtime, slot, asked, teardown, start, launch, late, native, pump,
                  child, story, verdict>>
      BY DEF CloserStopped, hostSide, stops, starts, reads, stored
<1>3. /\ artifact'.held = artifact.held /\ (artifact.kept => artifact'.kept)
      /\ artifact' = artifact \/ (artifact'.by = "nobody" /\ artifact'.kept)
      BY <1>1 DEF CloserStopped, TypeOK, Artifacts
<1>4. artifact'.by # "session"  BY <1>1, <1>3 DEF Care, Handed
<1>5. ASSUME NEW x \in Attempts, runtime, MayLive(x), ~artifact'.kept, artifact'.by = "nobody"
      PROVE  ~slot.control
  <2>1. Leased(x)  BY DEF Care, Good
  <2>. QED BY <1>3, <1>5, <2>1 DEF Leased
<1>. QED BY <1>1, <1>2, <1>3, <1>4, <1>5, LetsGo

LEMMA CloserGivesUpCares ==
    ASSUME IInv, IInv', Care, CloserGivesUp
    PROVE  Care'
<1>1. TypeOK /\ CloserInv /\ closed  BY DEF IInv, CloserInv, CloserGivesUp
<1>2. UNCHANGED <<closed, runtime, slot, asked, teardown, start, launch, late, native, pump,
                  child, story, verdict>>
      BY DEF CloserGivesUp, hostSide, stops, starts, reads, stored
<1>3. /\ artifact'.held = artifact.held /\ artifact'.kept = artifact.kept
      /\ artifact'.by = "nobody"
      BY <1>1 DEF CloserGivesUp, TypeOK, Artifacts
<1>4. ASSUME NEW x \in Attempts, runtime, MayLive(x) PROVE ~slot.control
  <2>1. Leased(x) /\ Each(x)  BY DEF Care, Good, IInv
  <2>2. Owns(x)  BY <1>4, <2>1 DEF Each, Kept, Runs, Launching, MayLive
  <2>3. closer.on = x  BY <1>1, <2>1, <2>2 DEF Each, Closing
  <2>4. teardown[x].at = "idle"  BY <2>3, NoAttemptAssumption DEF CloserGivesUp, StopOf
  <2>. QED BY <1>1, <2>1, <2>2, <2>4 DEF Leased
<1>. QED BY <1>1, <1>2, <1>3, <1>4, LetsGo

LEMMA CloserRemovedCares ==
    ASSUME IInv, IInv', Care, CloserRemoved
    PROVE  Care'
<1>1. TypeOK /\ CloserInv /\ closed  BY DEF IInv, CloserInv, CloserRemoved
<1>2. UNCHANGED <<closed, runtime, slot, asked, teardown, start, launch, late, native, pump,
                  child, story, verdict>>
      BY DEF CloserRemoved, hostSide, stops, starts, reads, stored
<1>3. /\ artifact'.held = artifact.held /\ artifact'.kept = artifact.kept
      /\ artifact'.by = "nobody"
      BY <1>1 DEF CloserRemoved, TypeOK, Artifacts
<1>4. \A x \in Attempts : ~MayLive(x)
  <2>1. \A x \in Attempts : closer.on = x => ~MayLive(x)
        BY DEF IInv, Each, Closing, CloserRemoved
  <2>. QED BY <1>1, <2>1, OnlyOn
<1>. QED BY <1>1, <1>2, <1>3, <1>4, LetsGo

LEMMA LoseCloserCares ==
    ASSUME IInv, IInv', Care, LoseCloser
    PROVE  Care'
<1>1. TypeOK /\ CloserInv /\ closed /\ ~runtime  BY DEF IInv, CloserInv, LoseCloser
<1>2. UNCHANGED <<closed, runtime, slot, asked, teardown, start, launch, late, native, pump,
                  child, story, verdict>>
      BY DEF LoseCloser, hostSide, stops, starts, reads, stored
<1>3. \E kept : artifact' = [artifact EXCEPT !.by = "nobody", !.kept = artifact.kept \/ kept]
      BY DEF LoseCloser
<1>4. /\ artifact'.held = artifact.held /\ (artifact.kept => artifact'.kept)
      /\ artifact'.by = "nobody"
      BY <1>1, <1>3 DEF TypeOK, Artifacts
<1>. QED BY <1>1, <1>2, <1>4, LetsGo

LEMMA CloseAgainCares ==
    ASSUME IInv, IInv', Care, CloseAgain
    PROVE  Care'
BY Still DEF CloseAgain, hostSide, stops, starts, reads, stored, MayLive

-----------------------------------------------------------------------------
(* The theorems.                                                            *)

LEMMA CareInit == Init => Care
<1> SUFFICES ASSUME Init PROVE Care  OBVIOUS
<1>1. Handed /\ Told  BY DEF Init, Handed, Told
<1>2. ASSUME NEW x \in Attempts PROVE Good(x)
  <2>1. ~Owns(x) /\ ~slot.settled  BY NoAttemptAssumption DEF Init, Owns, Free
  <2>2. /\ teardown[x].at = "none" /\ teardown[x].outcome = "none" /\ teardown[x].how = "none"
        /\ teardown[x].taints /\ ~teardown[x].settles
        BY DEF Init, NoTeardown
  <2>3. start[x] = "idle" /\ launch[x] = "none" /\ pump[x] = "none" /\ child[x] = "none"
        BY DEF Init
  <2>. QED BY <2>1, <2>2, <2>3 DEF Good, Leased, Begun, Settling, Attended, Owning, Earning,
       MayLive
<1>. QED BY <1>1, <1>2 DEF Care

LEMMA CareNext == IInv /\ IInv' /\ Care /\ [Next]_vars => Care'
<1> SUFFICES ASSUME IInv, IInv', Care, [Next]_vars PROVE Care'  OBVIOUS
<1>1. ASSUME NEW a \in Attempts, Start(a) PROVE Care'
      BY <1>1, AdmitCares, StartFailsCares, InstallCares, StartStoppedCares, ReleaseLeaseCares,
          RecheckCares, HandOverCares, StartRefusedCares, DropStartCares DEF Start
<1>2. ASSUME NEW a \in Attempts, Late(a) PROVE Care'
      BY <1>2, LateLaunchCares, LateStopCares, LateStoppedCares, LoseLateCares DEF Late
<1>3. ASSUME NEW a \in Attempts, Worker(a) PROVE Care'
      BY <1>3, AskStopCares, StopReturnsCares, RecordStopCares, PublishOutcomeCares,
          LoseWorkerCares DEF Worker
<1>4. ASSUME NEW a \in Attempts, PumpSteps(a) PROVE Care'
      BY <1>4, PromptedCares, PumpStoppedCares, PumpShutsCares, PumpAbandonsCares,
          EventRefusedCares, PumpAbandonedCares, ReadInitCares, ReadResultCares, ReapEarlyCares,
          ReportedCares, ReadEndsCares, FinishCares, ReapCares, ReapedCares DEF PumpSteps
<1>5. ASSUME Closer PROVE Care'
      BY <1>5, CloserStoppedCares, CloserGivesUpCares, CloserRemovedCares, LoseCloserCares DEF
          Closer
<1>6. ASSUME Cancel PROVE Care'
  <2>1. slot.turn \in Attempts  BY <1>6 DEF Cancel, IInv, TypeOK, Slots, Named
  <2>. QED BY <1>6, <2>1, CancelCares DEF Owns
<1>7. ASSUME UNCHANGED vars PROVE Care'
      BY <1>7, Still DEF vars, hostSide, closing, stops, starts, reads, stored, MayLive
<1>. QED BY <1>1, <1>2, <1>3, <1>4, <1>5, <1>6, <1>7, LauncherReturnsCares, ChildExitsCares,
    StreamDroppedCares, RuntimeEndsCares, HostShutsDownCares, DropSessionCares, CloseCares,
    CloseAgainCares DEF Next

\* It holds of every behaviour, on top of the invariant above.
LEMMA Cared == Spec => []Care
<1>. QED BY Invariant, CareInit, CareNext, PTL DEF Spec

-----------------------------------------------------------------------------
(* What became of an attempt.                                               *)

\* A stopped child whose start is over and left neither a task nor a pump behind keeps
\* the slot only when its start was dropped.
Unattended(a) == start[a] = "over" /\ late[a] = "none" /\ pump[a] = "none"

Spared == \A a \in Attempts : Owns(a) /\ slot.stopped /\ Unattended(a) => a \in past.abandoned

\* A child that had left in an unfinished turn is remembered by the story.
Remembered == story.taint = "none" => past.quit = {}

\* A settled slot is free or waits for its stop.
LEMMA SettledSlot ==
    ASSUME slot \in Slots, NEW a \in Attempts, Settle(a)
    PROVE  /\ ~(slot'.turn = a /\ slot'.stopped)
           /\ \A x \in Attempts : slot'.turn = x /\ slot'.stopped => slot.turn = x /\ slot.stopped
BY NoAttemptAssumption DEF Settle, Slots, Free, Owns

LEMMA StartSpares ==
    ASSUME IInv, Care, Spared, NEW a \in Attempts, Start(a)
    PROVE  Spared'
<1>1. TypeOK /\ Each(a) /\ slot \in Slots  BY DEF IInv, TypeOK
<1>2. CASE DropStart(a)
  <2>1. past'.abandoned = past.abandoned \cup {a}  BY <1>1, <1>2 DEF DropStart, TypeOK, Pasts
  <2>2. UNCHANGED <<slot, pump>>  BY <1>2 DEF DropStart, reads
  <2>3. \A x \in Attempts \ {a} : start'[x] = start[x] /\ late'[x] = late[x]
        BY <1>1, <1>2 DEF DropStart, TypeOK
  <2>. QED BY <2>1, <2>2, <2>3 DEF Spared, Unattended, Owns
<1>3. CASE StartStopped(a) \/ Recheck(a) \/ StartRefused(a)
  <2>1. UNCHANGED <<past, late, pump>>
        BY <1>3 DEF StartStopped, Recheck, StartRefused, hostSide, reads
  <2>2. \A x \in Attempts \ {a} : start'[x] = start[x]
        BY <1>1, <1>3 DEF StartStopped, Recheck, StartRefused, TypeOK
  <2>3. Settle(a) \/ (slot' = slot /\ start'[a] # "over")
    <3>1. CASE Recheck(a)
      <4>1. CASE closed \/ ~Owns(a) \/ a \in asked  BY <3>1, <4>1 DEF Recheck
      <4>2. CASE ~(closed \/ ~Owns(a) \/ a \in asked)
            BY <1>1, <3>1, <4>2 DEF Recheck, TypeOK
      <4>. QED BY <4>1, <4>2
    <3>2. CASE ~Recheck(a)  BY <1>3, <3>2 DEF StartStopped, StartRefused
    <3>. QED BY <3>1, <3>2
  <2>. QED BY <1>1, <2>1, <2>2, <2>3, SettledSlot DEF Spared, Unattended, Owns
<1>4. CASE StartFails(a)
  <2>1. UNCHANGED <<past, late, pump>>  BY <1>4 DEF StartFails, hostSide, reads
  <2>2. \A x \in Attempts \ {a} : start'[x] = start[x]  BY <1>1, <1>4 DEF StartFails, TypeOK
  <2>3. ~slot.stopped  BY <1>1, <1>4 DEF StartFails, Each, Launching
  <2>4. slot' = slot \/ slot' = Free  BY <1>4 DEF StartFails, Forget, Retain
  <2>. QED BY <2>1, <2>2, <2>3, <2>4 DEF Spared, Free
<1>5. CASE Admit(a) \/ Install(a)
  <2>1. UNCHANGED <<past, late, pump>>  BY <1>5 DEF Admit, Install, hostSide, reads
  <2>2. start'[a] # "over" /\ \A x \in Attempts \ {a} : start'[x] = start[x]
        BY <1>1, <1>5 DEF Admit, Install, TypeOK
  <2>3. slot' = slot \/ ~slot'.stopped  BY <1>5 DEF Admit, Install, Free
  <2>. QED BY <2>1, <2>2, <2>3 DEF Spared, Unattended, Owns
<1>6. CASE ReleaseLease(a)
      BY <1>6 DEF ReleaseLease, Spared, Unattended, Owns, hostSide, starts, reads
<1>7. CASE HandOver(a)
  <2>1. UNCHANGED <<past, slot, late>>  BY <1>7 DEF HandOver, hostSide
  <2>2. start'[a] # "over" \/ pump'[a] # "none"  BY <1>1, <1>7 DEF HandOver, TypeOK
  <2>3. \A x \in Attempts \ {a} : start'[x] = start[x] /\ pump'[x] = pump[x]
        BY <1>1, <1>7 DEF HandOver, TypeOK
  <2>. QED BY <2>1, <2>2, <2>3 DEF Spared, Unattended, Owns
<1>. QED BY <1>2, <1>3, <1>4, <1>5, <1>6, <1>7 DEF Start

LEMMA LateSpares ==
    ASSUME IInv, Spared, NEW a \in Attempts, Late(a)
    PROVE  Spared'
<1>1. TypeOK /\ slot \in Slots  BY DEF IInv, TypeOK
<1>2. UNCHANGED <<past, start, pump>>
      BY DEF Late, LateLaunch, LateStop, LateStopped, LoseLate, hostSide, starts, reads
<1>3. late'[a] # "none" /\ \A x \in Attempts \ {a} : late'[x] = late[x]
      BY <1>1 DEF Late, LateLaunch, LateStop, LateStopped, LoseLate, TypeOK
<1>4. slot' = slot \/ slot' = Free \/ Settle(a)
      BY DEF Late, LateLaunch, LateStop, LateStopped, LoseLate, Forget, Retain
<1>5. \A x \in Attempts : slot'.turn = x /\ slot'.stopped => slot.turn = x /\ slot.stopped
      BY <1>1, <1>4, SettledSlot DEF Free
<1>. QED BY <1>2, <1>3, <1>5 DEF Spared, Unattended, Owns

LEMMA WorkerSpares ==
    ASSUME IInv, Care, Spared, NEW a \in Attempts, Worker(a)
    PROVE  Spared'
<1>1. TypeOK /\ slot \in Slots /\ Good(a)  BY DEF IInv, TypeOK, Care
<1>2. CASE RecordStop(a)
  <2>1. UNCHANGED <<start, late, pump>> /\ past'.abandoned = past.abandoned
        BY <1>1, <1>2 DEF RecordStop, starts, reads, TypeOK, Pasts
  <2>2. runtime /\ teardown[a].at = "stopped" /\ Owns(a)
        BY <1>1, <1>2 DEF RecordStop, Good, Owning
  <2>3. Unattended(a) => Decided(a) /\ teardown[a].outcome = "none"
        BY <1>1, <2>2 DEF Good, Settling, Attended, Unattended
  <2>4. Unattended(a) => slot.settled \/ teardown[a].settles
        BY <2>2, <2>3 DEF Decided
  <2>5. slot' = slot \/ slot' = Free \/ (~Unattended(a) /\ slot'.turn = slot.turn)
        BY <1>1, <1>2, <2>4 DEF RecordStop, Slots
  <2>. QED BY <2>1, <2>2, <2>5, NoAttemptAssumption DEF Spared, Unattended, Owns, Free
<1>3. CASE ~RecordStop(a)
      BY <1>3 DEF Worker, AskStop, StopReturns, PublishOutcome, LoseWorker, Spared, Unattended,
                  Owns, hostSide, starts, reads
<1>. QED BY <1>2, <1>3

LEMMA PumpSpares ==
    ASSUME IInv, Spared, NEW a \in Attempts, PumpSteps(a)
    PROVE  Spared'
<1>1. TypeOK /\ slot \in Slots  BY DEF IInv, TypeOK
<1>2. past'.abandoned = past.abandoned
      BY <1>1 DEF PumpSteps, Prompted, PumpStopped, PumpShuts, PumpAbandons, EventRefused,
         PumpAbandoned, ReadInit, ReadResult, ReapEarly, Reported, ReadEnds, Finish, Reap,
         Reaped, hostSide, TypeOK, Pasts
<1>3. UNCHANGED <<start, late>>
      BY DEF PumpSteps, Prompted, PumpStopped, PumpShuts, PumpAbandons, EventRefused,
         PumpAbandoned, ReadInit, ReadResult, ReapEarly, Reported, ReadEnds, Finish, Reap,
         Reaped, starts
<1>4. pump[a] # "none" /\ (pump' = pump \/ \E place \in PumpPlaces \ {"none"} : PumpAt(a, place))
      BY DEF PumpSteps, Prompted, PumpStopped, PumpShuts, PumpAbandons, EventRefused,
         PumpAbandoned, ReadInit, ReadResult, ReapEarly, Reported, ReadEnds, Finish, Reap,
         Reaped, PumpPlaces
<1>5. \A x \in Attempts : pump'[x] = "none" => pump[x] = "none"
      BY <1>1, <1>4 DEF PumpAt, TypeOK
<1>6. slot' = slot \/ Settle(a)
      BY DEF PumpSteps, Prompted, PumpStopped, PumpShuts, PumpAbandons, EventRefused,
         PumpAbandoned, ReadInit, ReadResult, ReapEarly, Reported, ReadEnds, Finish, Reap,
         Reaped
<1>7. \A x \in Attempts : slot'.turn = x /\ slot'.stopped => slot.turn = x /\ slot.stopped
      BY <1>1, <1>6, SettledSlot
<1>. QED BY <1>2, <1>3, <1>5, <1>7 DEF Spared, Unattended, Owns

LEMMA SparedNext == IInv /\ Care /\ Spared /\ [Next]_vars => Spared'
<1> SUFFICES ASSUME IInv, Care, Spared, [Next]_vars PROVE Spared'  OBVIOUS
<1>1. ASSUME NEW a \in Attempts,
             LauncherReturns(a) \/ ChildExits(a) \/ StreamDropped(a)
      PROVE  UNCHANGED <<past, slot, start, late, pump>>
      BY <1>1 DEF LauncherReturns, ChildExits, StreamDropped, hostSide, starts, reads
<1>2. ASSUME RuntimeEnds \/ HostShutsDown \/ Cancel \/ DropSession \/ Close \/ Closer
             \/ CloseAgain \/ UNCHANGED vars
      PROVE  UNCHANGED <<past, slot, start, late, pump>>
      BY <1>2 DEF RuntimeEnds, HostShutsDown, Cancel, DropSession, Close, Closer, CloserStopped,
         CloserGivesUp, CloserRemoved, LoseCloser, CloseAgain, vars, hostSide, starts, reads
<1>3. UNCHANGED <<past, slot, start, late, pump>> => Spared'
      BY DEF Spared, Unattended, Owns
<1>. QED BY <1>1, <1>2, <1>3, StartSpares, LateSpares, WorkerSpares, PumpSpares DEF Next

LEMMA SparedHolds == Spec => []Spared
<1>1. Init => Spared  BY DEF Init, Spared, Unattended
<1>. QED BY <1>1, Invariant, Cared, SparedNext, PTL DEF Spec

\* The story is not found better.
Soured == story'.taint = "none" => story.taint = "none"

LEMMA StorySoured ==
    ASSUME story \in Stories, NEW a \in Attempts, NEW cause \in {"unfinished", "unverified"},
           \/ story' \in {story, Tainted(story, cause), Refused(story, cause), Unconfirmed(a)}
           \/ story'.taint = story.taint
    PROVE  Soured
BY DEF Soured, Stories, Tainted, Refused, Unconfirmed

LEMMA RecordStopRemembers ==
    ASSUME IInv, Care, Remembered, NEW a \in Attempts, RecordStop(a)
    PROVE  Remembered'
<1> DEFINE t == teardown[a]
<1>1. TypeOK /\ Good(a) /\ story \in Stories /\ past \in Pasts /\ t \in Teardowns
      BY DEF IInv, Care, TypeOK
<1>2. t.at = "stopped" /\ Owns(a)  BY <1>1 DEF RecordStop, Good, Owning
<1>3. t.how \in {"interrupted", "killed", "failed"} /\ (a \notin native => t.taints)
      BY <1>1, <1>2 DEF Good, Earning, Teardowns
<1>4. story' = IF t.how = "failed"
               THEN IF t.taints THEN Tainted(story, "unfinished") ELSE story
               ELSE Ended(t, Noted(t, story))
      BY <1>2 DEF RecordStop
<1>5. Tainted(story, "unfinished") \in Stories /\ Tainted(story, "unfinished").taint # "none"
      BY <1>1 DEF Tainted, Stories
<1>6. /\ Noted(t, story) \in Stories
      /\ Noted(t, story).taint = "none" => story.taint = "none"
      /\ t.how = "interrupted" /\ t.taints /\ t.exited /\ story.established =>
            Noted(t, story).taint # "none"
      BY <1>1, <1>5 DEF Noted
<1>7. \A s \in Stories : /\ Ended(t, s).taint = "none" => s.taint = "none"
                         /\ t.how = "killed" /\ t.taints => Ended(t, s).taint # "none"
      BY DEF Ended, Refused, Tainted, Stories
<1>8. /\ Soured
      /\ t.exited /\ a \notin native /\ story.established => story'.taint # "none"
  <2>1. CASE t.how = "failed"  BY <1>3, <1>4, <1>5, <2>1 DEF Soured
  <2>2. CASE t.how # "failed"
    <3>1. story' = Ended(t, Noted(t, story))  BY <1>4, <2>2
    <3>2. story'.taint = "none" => Noted(t, story).taint = "none"  BY <1>6, <1>7, <3>1
    <3>3. t.how = "killed" /\ t.taints => story'.taint # "none"  BY <1>6, <1>7, <3>1
    <3>. QED BY <1>3, <1>6, <2>2, <3>2, <3>3 DEF Soured
  <2>. QED BY <2>1, <2>2
<1>9. past'.quit = IF t.exited /\ a \notin native /\ story.established
                   THEN past.quit \cup {a} ELSE past.quit
      BY <1>1 DEF RecordStop, Pasts
<1>. QED BY <1>8, <1>9 DEF Remembered, Soured

LEMMA ReadResultRemembers ==
    ASSUME IInv, Remembered, NEW a \in Attempts, ReadResult(a)
    PROVE  Remembered'
<1>1. TypeOK /\ story \in Stories /\ past \in Pasts  BY DEF IInv, TypeOK
<1>2. CASE story.pending
      BY <1>1, <1>2, StorySoured DEF ReadResult, Remembered, Soured
<1>3. CASE ~story.pending
      BY <1>1, <1>3 DEF ReadResult, Remembered, Pasts
<1>. QED BY <1>2, <1>3

LEMMA StepSours ==
    ASSUME IInv, NEW a \in Attempts,
           \/ Start(a) \/ Late(a)
           \/ Worker(a) /\ ~RecordStop(a)
           \/ PumpSteps(a) /\ ~ReadResult(a)
    PROVE  Soured /\ past'.quit = past.quit
<1>1. TypeOK /\ story \in Stories /\ past \in Pasts  BY DEF IInv, TypeOK
<1>2. CASE Start(a)
  <2>1. story'.taint = story.taint \/ story' = Tainted(story, "unfinished")
        BY <1>1, <1>2 DEF Start, Admit, StartFails, Forget, Retain, Install, StartStopped,
           ReleaseLease, Recheck, HandOver, StartRefused, DropStart, stored, Stories
  <2>2. past'.quit = past.quit
        BY <1>1, <1>2 DEF Start, Admit, StartFails, Install, StartStopped, ReleaseLease, Recheck,
           HandOver, StartRefused, DropStart, hostSide, Pasts
  <2>. QED BY <1>1, <2>1, <2>2, StorySoured
<1>3. CASE Late(a)
  <2>1. story'.taint = story.taint \/ story' = Tainted(story, "unfinished")
        BY <1>1, <1>3 DEF Late, LateLaunch, LateStop, LateStopped, LoseLate, Forget, Retain,
           stored, Stories
  <2>2. past' = past  BY <1>3 DEF Late, LateLaunch, LateStop, LateStopped, LoseLate, hostSide
  <2>. QED BY <1>1, <2>1, <2>2, StorySoured
<1>4. CASE Worker(a) /\ ~RecordStop(a)
  <2>1. story' = story \/ story' = Tainted(story, "unfinished")
        BY <1>4 DEF Worker, AskStop, StopReturns, PublishOutcome, LoseWorker, stored
  <2>2. past' = past
        BY <1>4 DEF Worker, AskStop, StopReturns, PublishOutcome, LoseWorker, hostSide
  <2>. QED BY <1>1, <2>1, <2>2, StorySoured
<1>5. CASE PumpSteps(a) /\ ~ReadResult(a)
  <2>1. \/ story'.taint = story.taint
        \/ story' \in {Tainted(story, "unfinished"), Refused(story, "unfinished"), Unconfirmed(a)}
        BY <1>1, <1>5 DEF PumpSteps, Prompted, PumpStopped, PumpShuts, PumpAbandons, EventRefused,
           PumpAbandoned, ReadInit, ReapEarly, Reported, ReadEnds, Finish, Reap, Reaped, stored,
           Stories
  <2>2. past' = past
        BY <1>5 DEF PumpSteps, Prompted, PumpStopped, PumpShuts, PumpAbandons, EventRefused,
           PumpAbandoned, ReadInit, ReapEarly, Reported, ReadEnds, Finish, Reap, Reaped, hostSide
  <2>. QED BY <1>1, <2>1, <2>2, StorySoured
<1>. QED BY <1>2, <1>3, <1>4, <1>5

LEMMA RememberedNext == IInv /\ Care /\ Remembered /\ [Next]_vars => Remembered'
<1> SUFFICES ASSUME IInv, Care, Remembered, [Next]_vars PROVE Remembered'  OBVIOUS
<1>1. ASSUME NEW a \in Attempts, Start(a) \/ Late(a) \/ Worker(a) \/ PumpSteps(a)
      PROVE  Remembered'
  <2>1. RecordStop(a) \/ ReadResult(a) \/ (Soured /\ past'.quit = past.quit)
        BY <1>1, StepSours
  <2>. QED BY <2>1, RecordStopRemembers, ReadResultRemembers DEF Remembered, Soured
<1>2. ASSUME NEW a \in Attempts,
             LauncherReturns(a) \/ ChildExits(a) \/ StreamDropped(a)
      PROVE  UNCHANGED <<past, story>>
      BY <1>2 DEF LauncherReturns, ChildExits, StreamDropped, hostSide, stored
<1>3. ASSUME RuntimeEnds \/ HostShutsDown \/ Cancel \/ DropSession \/ Close \/ Closer
             \/ CloseAgain \/ UNCHANGED vars
      PROVE  UNCHANGED <<past, story>>
      BY <1>3 DEF RuntimeEnds, HostShutsDown, Cancel, DropSession, Close, Closer, CloserStopped,
         CloserGivesUp, CloserRemoved, LoseCloser, CloseAgain, vars, hostSide, stored
<1>. QED BY <1>1, <1>2, <1>3 DEF Next, Remembered

LEMMA RememberedHolds == Spec => []Remembered
<1>1. Init => Remembered  BY DEF Init, Remembered
<1>. QED BY <1>1, Invariant, Cared, RememberedNext, PTL DEF Spec

\* A taken slot is on its way to be free, or a failed stop keeps it, for any number of
\* starts.
THEOREM SlotIsOwnedHolds == Spec => []SlotIsOwned
<1>1. ASSUME IInv, Care, Spared, runtime, NEW a \in Attempts, Owns(a), ~Attended(a)
      PROVE  \/ teardown[a].at \in {"queued", "stopping", "stopped", "recorded"}
             \/ teardown[a].outcome \in {"owed", "lost"}
             \/ LeftByDrop(a)
  <2>1. Good(a) /\ Each(a) /\ teardown[a].outcome \in Outcomes
        BY <1>1 DEF Care, IInv, TypeOK, Teardowns
  <2>2. Decided(a)  BY <1>1, <2>1 DEF Good, Settling
  <2>. QED BY <1>1, <2>1, <2>2 DEF Decided, Attended, LeftByDrop, Each, Stopping, Outcomes,
           Spared, Unattended
<1>2. IInv /\ Care /\ Spared => SlotIsOwned  BY <1>1 DEF SlotIsOwned, Attended
<1>. QED BY <1>2, Invariant, Cared, SparedHolds, PTL

\* As long as the runtime runs, no child that may read the configuration is left when
\* the last share of it goes.
THEOREM ConfigurationOutlivesChildHolds == Spec => []ConfigurationOutlivesChild
<1>1. ASSUME Care, Removed, runtime, NEW a \in Attempts, MayLive(a) PROVE FALSE
  <2>1. Leased(a)  BY <1>1 DEF Care, Good
  <2>. QED BY <1>1, <2>1 DEF Leased, Removed
<1>2. Care => ConfigurationOutlivesChild  BY <1>1 DEF ConfigurationOutlivesChild
<1>. QED BY <1>2, Cared, PTL

\* A conversation reported resumable has no child that was killed in an unfinished turn and
\* none, since a turn was finished, that had left in one before it was stopped, once the
\* conversation was known; the turn in its slot was finished or interrupted.
THEOREM ResumableIsEarnedHolds == Spec => []ResumableIsEarned
<1>1. ASSUME Care, verdict = "resumable", NEW a \in Attempts \ native
      PROVE  /\ Owns(a) => teardown[a].how = "interrupted"
             /\ teardown[a].at \in {"recorded", "over"} => teardown[a].how # "killed"
  <2>1. Earning(a) /\ story.taint = "none" /\ story.finished /\ ~story.refused
        BY <1>1 DEF Care, Good, Told
  <2>. QED BY <2>1 DEF Earning
<1>2. Care /\ Remembered /\ verdict = "resumable" => past.quit = {}
      BY DEF Care, Told, Remembered
<1>3. Care /\ Remembered => ResumableIsEarned  BY <1>1, <1>2 DEF ResumableIsEarned
<1>. QED BY <1>3, Cared, RememberedHolds, PTL

-----------------------------------------------------------------------------
(* The session implements TurnAdmission: what it promises of its turns.    *)

\* A session is reported closed only once it was closed.
StatusInv == status = "closed" => closed

LEMMA StatusNext == IInv /\ StatusInv /\ [Next]_vars => StatusInv'
<1>. SUFFICES ASSUME IInv, StatusInv, [Next]_vars PROVE StatusInv'
  OBVIOUS
<1>1. CASE UNCHANGED <<closed, status>>
  BY <1>1 DEF StatusInv
<1>2. CASE Close \/ Closer \/ CloseAgain
  BY <1>2 DEF Close, Closer, CloserStopped, CloserGivesUp, CloserRemoved, LoseCloser,
     CloseAgain,
     StatusInv, IInv, CloserInv
<1>3. ASSUME NEW a \in Attempts, Start(a) \/ Late(a) \/ Worker(a)
      PROVE  UNCHANGED <<closed, status>>
  BY <1>3 DEF Start, Late, Worker, Admit, StartFails, Install, StartStopped, ReleaseLease,
     Recheck, HandOver, StartRefused, DropStart, LateLaunch, LateStop, LateStopped, LoseLate,
     AskStop, StopReturns, RecordStop, PublishOutcome, LoseWorker, closing
<1>4. ASSUME NEW a \in Attempts, PumpSteps(a) PROVE UNCHANGED <<closed, status>>
  BY <1>4 DEF PumpSteps, Prompted, PumpStopped, PumpShuts, PumpAbandons, EventRefused,
     PumpAbandoned, ReadInit, ReadResult, ReapEarly, Reported, ReadEnds, Finish, Reap, Reaped,
     closing
<1>5. ASSUME NEW a \in Attempts, LauncherReturns(a) \/ ChildExits(a) \/ StreamDropped(a)
      PROVE  UNCHANGED <<closed, status>>
  BY <1>5 DEF LauncherReturns, ChildExits, StreamDropped, closing
<1>6. ASSUME RuntimeEnds \/ HostShutsDown \/ Cancel \/ DropSession
      PROVE  UNCHANGED <<closed, status>>
  BY <1>6 DEF RuntimeEnds, HostShutsDown, Cancel, DropSession, closing
<1>7. CASE UNCHANGED vars
  BY <1>1, <1>7 DEF vars, closing
<1>. QED BY <1>1, <1>2, <1>3, <1>4, <1>5, <1>6, <1>7 DEF Next

LEMMA StatusHolds == Spec => []StatusInv
<1>1. Init => StatusInv
  BY DEF Init, StatusInv
<1>. QED BY <1>1, StatusNext, Invariant, PTL DEF Spec

\* The contract's variables, spelled out.
Admitted == {a \in Attempts : start[a] # "idle"}
Working == {a \in Attempts : MayLive(a)}
Phase == IF status = "closed" THEN "over" ELSE IF closed THEN "closing" ELSE "no"

\* Whoever may have a child has the slot, so there is one at most.
LEMMA WorkHolds ==
    ASSUME IInv
    PROVE  \A x \in Working : slot.turn = x
<1>. SUFFICES ASSUME NEW x \in Attempts, MayLive(x) PROVE Owns(x)
  BY DEF Working, Owns
<1>1. Each(x)
  BY DEF IInv
<1>. QED BY <1>1 DEF Each, Kept, Runs, Launching, MayLive

\* A step that begins nothing takes a child away or gives the slot up behind it.
LEMMA Lessens ==
    ASSUME IInv, IInv', UNCHANGED <<closed, status>>,
           \A x \in Attempts : start'[x] = "idle" <=> start[x] = "idle",
           \/ slot'.turn = slot.turn /\ \A x \in Attempts : MayLive(x)' => MayLive(x)
           \/ slot'.turn = NoAttempt /\ \A x \in Attempts : MayLive(x)' <=> MayLive(x)
    PROVE  [Admission!Next]_Admission!vars
<1>1. Admitted' = Admitted /\ Phase' = Phase
  BY DEF Admitted, Phase
<1>2. (\A x \in Working : slot.turn = x) /\ (\A x \in Working' : slot'.turn = x)
  <2>1. \A x \in Working : slot.turn = x
    BY WorkHolds
  <2>2. (\A x \in Working : slot.turn = x)'
    <3>. SUFFICES ASSUME NEW x \in Attempts, MayLive(x)' PROVE Owns(x)'
      BY DEF Working, Owns
    <3>1. Each(x)'
      BY DEF IInv
    <3>. QED BY <3>1 DEF Each, Kept, Runs, Launching, MayLive
  <2>. QED BY <2>1, <2>2
<1>3. CASE slot'.turn = slot.turn
  <2>1. Working' = Working \/ Working' = {}
    BY <1>2, <1>3 DEF Working
  <2>. QED BY <1>1, <1>3, <2>1 DEF Admitted, Working, Phase, Admission!vars, Admission!Next,
       Admission!Rest
<1>4. CASE slot'.turn = NoAttempt /\ slot'.turn # slot.turn
  <2>1. Working' = Working
    BY <1>4 DEF Working
  <2>2. Working = {}
    BY <1>2, <1>4, <2>1, NoAttemptAssumption DEF Working
  <2>. QED BY <1>1, <1>4, <2>1, <2>2 DEF Admitted, Working, Phase, Admission!Next,
       Admission!Leave
<1>. QED BY <1>3, <1>4

\* A turn is admitted behind the last child, and its launch is its first work.
LEMMA AdmitAdmits ==
    ASSUME IInv, IInv', StatusInv, NEW a \in Attempts, Admit(a)
    PROVE  Admission!Next
<1>. USE DEF IInv, TypeOK
<1>1. /\ start[a] = "idle" /\ ~closed /\ slot.turn = NoAttempt /\ slot' = [Free EXCEPT !.turn = a]
      /\ start' = [start EXCEPT ![a] = "launching"] /\ launch' = [launch EXCEPT ![a] = "pending"]
      /\ UNCHANGED <<closed, status, child>>
  BY DEF Admit, closing
<1>2. slot'.turn = a
  BY <1>1 DEF Free
<1>3. Working = {}
  BY <1>1, WorkHolds, NoAttemptAssumption DEF Working
<1>4. Working' = {a}
  <2>1. \A x \in Attempts \ {a} : ~MayLive(x)'
    BY <1>1, <1>3 DEF Working, MayLive
  <2>2. MayLive(a)'
    BY <1>1 DEF MayLive
  <2>. QED BY <2>1, <2>2 DEF Working
<1>5. Admitted' = Admitted \cup {a} /\ a \notin Admitted
  BY <1>1 DEF Admitted
<1>6. Phase = "no" /\ Phase' = "no"
  BY <1>1 DEF Phase, StatusInv
<1>7. Admission!Admit(a)
  BY <1>1, <1>2, <1>3, <1>4, <1>5, <1>6 DEF Admitted, Working, Phase, Admission!Admit
<1>. QED BY <1>7 DEF Admission!Next

\* A close ends admission; the session is reported closed over no child.
LEMMA CloseEnds ==
    ASSUME IInv, IInv', StatusInv, StatusInv', Close \/ Closer \/ CloseAgain
    PROVE  [Admission!Next]_Admission!vars
<1>1. UNCHANGED <<slot, start, launch, child>>
  BY DEF Close, Closer, CloserStopped, CloserGivesUp, CloserRemoved, LoseCloser, CloseAgain,
     starts
<1>2. Admitted' = Admitted /\ Working' = Working
  BY <1>1 DEF Admitted, Working, MayLive
<1>3. CASE Close
  <2>1. Phase = "no" /\ Phase' = "closing"
    BY <1>3 DEF Close, Phase, StatusInv
  <2>. QED BY <1>1, <1>2, <2>1 DEF Admitted, Working, Phase, Admission!Next, Admission!Close
<1>4. CASE Closer \/ CloseAgain
  <2>1. closed /\ closed' = closed /\ status' \in {status, "closed"}
    BY <1>4 DEF Closer, CloserStopped, CloserGivesUp, CloserRemoved, LoseCloser, CloseAgain,
       IInv, CloserInv
  <2>2. CASE status' = status
    <3>1. Phase' = Phase
      BY <2>1, <2>2 DEF Phase
    <3>. QED BY <1>1, <1>2, <3>1 DEF Admitted, Working, Phase, Admission!vars
  <2>3. CASE status' = "closed" /\ status # "closed"
    <3>1. Phase = "closing" /\ Phase' = "over"
      BY <2>1, <2>3 DEF Phase
    <3>2. Working' = {}
      BY <2>3 DEF Working, IInv, Each, Closing
    <3>. QED BY <1>1, <1>2, <3>1, <3>2 DEF Admitted, Working, Phase, Admission!Next,
         Admission!End
  <2>. QED BY <2>1, <2>2, <2>3
<1>. QED BY <1>3, <1>4

\* What moves neither the slot nor a child.
LEMMA Idles ==
    ASSUME IInv, IInv', UNCHANGED <<closed, status, slot, launch, child>>,
           \A x \in Attempts : start'[x] = "idle" <=> start[x] = "idle"
    PROVE  [Admission!Next]_Admission!vars
BY Lessens DEF MayLive

LEMMA Settles ==
    ASSUME IInv, IInv', UNCHANGED <<closed, status, launch, child>>,
           \A x \in Attempts : start'[x] = "idle" <=> start[x] = "idle",
           NEW a \in Attempts, Settle(a)
    PROVE  [Admission!Next]_Admission!vars
<1>1. slot'.turn \in {slot.turn, NoAttempt}
  BY DEF Settle, Free, IInv, TypeOK, Slots
<1>. QED BY <1>1, Lessens DEF MayLive

LEMMA LaunchFails ==
    ASSUME NEW a \in Attempts, Forget(a) \/ Retain(a)
    PROVE  slot'.turn \in {slot.turn, NoAttempt}
<1>1. slot' = slot \/ slot' = Free
  BY DEF Forget, Retain
<1>. QED BY <1>1 DEF Free

LEMMA StartSteps ==
    ASSUME IInv, IInv', StatusInv, NEW a \in Attempts, Start(a)
    PROVE  [Admission!Next]_Admission!vars
<1>1. CASE Admit(a)
  BY <1>1, AdmitAdmits
<1>2. CASE ~Admit(a)
  <2>1. UNCHANGED <<closed, status, child>> /\ start[a] # "idle"
    BY <1>2 DEF Start, StartFails, Install, StartStopped, ReleaseLease, Recheck, HandOver,
       StartRefused, DropStart, closing
  <2>2. \/ start' = start
        \/ \E place \in {"stopping", "releasing", "starting", "refusing", "over"} :
              start' = [start EXCEPT ![a] = place]
    BY <1>2 DEF Start, StartFails, Install, StartStopped, ReleaseLease, Recheck, HandOver,
       StartRefused, DropStart, starts
  <2>3. \A x \in Attempts : start'[x] = "idle" <=> start[x] = "idle"
    BY <2>1, <2>2 DEF IInv, TypeOK
  <2>4. CASE StartFails(a)
    <3>1. slot'.turn = slot.turn \/ slot'.turn = NoAttempt
      BY <2>4, LaunchFails DEF StartFails
    <3>2. \A x \in Attempts : MayLive(x)' <=> MayLive(x)
      BY <2>1, <2>4 DEF StartFails, MayLive, IInv, TypeOK
    <3>. QED BY <2>1, <2>3, <3>1, <3>2, Lessens
  <2>5. CASE Install(a)
    <3>1. slot'.turn = slot.turn
      <4>1. slot' = slot \/ (slot.turn = a /\ slot' = [Free EXCEPT !.turn = a, !.control = TRUE])
        BY <2>5 DEF Install, Owns
      <4>. QED BY <4>1 DEF Free
    <3>2. \A x \in Attempts : MayLive(x)' => MayLive(x)
      BY <2>1, <2>5 DEF Install, MayLive, IInv, TypeOK
    <3>. QED BY <2>1, <2>3, <3>1, <3>2, Lessens
  <2>6. CASE StartStopped(a) \/ StartRefused(a)
    BY <2>1, <2>3, <2>6, Settles DEF StartStopped, StartRefused
  <2>7. CASE Recheck(a)
    BY <2>1, <2>3, <2>7, Settles, Idles DEF Recheck
  <2>8. CASE ReleaseLease(a) \/ HandOver(a) \/ DropStart(a)
    <3>1. UNCHANGED <<slot, launch>>
      BY <2>8 DEF ReleaseLease, HandOver, DropStart, starts
    <3>. QED BY <2>1, <2>3, <3>1, Idles
  <2>. QED BY <1>2, <2>4, <2>5, <2>6, <2>7, <2>8 DEF Start
<1>. QED BY <1>1, <1>2

LEMMA LateSteps ==
    ASSUME IInv, IInv', NEW a \in Attempts, Late(a)
    PROVE  [Admission!Next]_Admission!vars
<1>1. UNCHANGED <<closed, status, child, start>>
  BY DEF Late, LateLaunch, LateStop, LateStopped, LoseLate, closing, reads
<1>2. CASE LateLaunch(a) /\ launch[a] = "child"
  <2>1. \A x \in Attempts : MayLive(x)' => MayLive(x)
    BY <1>1, <1>2 DEF LateLaunch, MayLive, IInv, TypeOK
  <2>. QED BY <1>1, <1>2, <2>1, Lessens DEF LateLaunch
<1>3. CASE LateLaunch(a) /\ launch[a] # "child"
  <2>1. slot'.turn = slot.turn \/ slot'.turn = NoAttempt
    BY <1>3, LaunchFails DEF LateLaunch
  <2>2. \A x \in Attempts : MayLive(x)' <=> MayLive(x)
    BY <1>1, <1>3 DEF LateLaunch, MayLive, IInv, TypeOK
  <2>. QED BY <1>1, <2>1, <2>2, Lessens
<1>4. CASE LateStopped(a)
  BY <1>1, <1>4, Settles DEF LateStopped
<1>5. CASE LateStop(a) \/ LoseLate(a)
  BY <1>1, <1>5, Idles DEF LateStop, LoseLate
<1>. QED BY <1>2, <1>3, <1>4, <1>5 DEF Late

LEMMA WorkerSteps ==
    ASSUME IInv, IInv', NEW a \in Attempts, Worker(a)
    PROVE  [Admission!Next]_Admission!vars
<1>1. UNCHANGED <<closed, status, start, launch>>
  BY DEF Worker, AskStop, StopReturns, RecordStop, PublishOutcome, LoseWorker, closing, starts
<1>2. CASE StopReturns(a)
  <2>1. \A x \in Attempts : MayLive(x)' => MayLive(x)
    BY <1>1, <1>2 DEF StopReturns, MayLive, IInv, TypeOK
  <2>. QED BY <1>1, <1>2, <2>1, Lessens DEF StopReturns
<1>3. CASE RecordStop(a)
  <2>1. slot'.turn = slot.turn \/ slot'.turn = NoAttempt
    BY <1>3 DEF RecordStop, Free, IInv, TypeOK, Slots
  <2>2. child' = child
    BY <1>3 DEF RecordStop
  <2>. QED BY <1>1, <2>1, <2>2, Lessens DEF MayLive
<1>4. CASE AskStop(a) \/ PublishOutcome(a) \/ LoseWorker(a)
  BY <1>1, <1>4, Idles DEF AskStop, PublishOutcome, LoseWorker
<1>. QED BY <1>2, <1>3, <1>4 DEF Worker

LEMMA PumpStepsIdle ==
    ASSUME IInv, IInv', NEW a \in Attempts, PumpSteps(a)
    PROVE  [Admission!Next]_Admission!vars
<1>1. UNCHANGED <<closed, status, start, launch, child>>
  BY DEF PumpSteps, Prompted, PumpStopped, PumpShuts, PumpAbandons, EventRefused, PumpAbandoned,
     ReadInit, ReadResult, ReapEarly, Reported, ReadEnds, Finish, Reap, Reaped, closing, starts
<1>2. slot' = slot \/ Settle(a)
  BY DEF PumpSteps, Prompted, PumpStopped, PumpShuts, PumpAbandons, EventRefused, PumpAbandoned,
     ReadInit, ReadResult, ReapEarly, Reported, ReadEnds, Finish, Reap, Reaped
<1>. QED BY <1>1, <1>2, Idles, Settles

LEMMA AdmissionInit == Init => Admission!Init
BY DEF Init, Admission!Init, Free, MayLive

LEMMA AdmissionStep ==
    IInv /\ IInv' /\ StatusInv /\ StatusInv' /\ [Next]_vars => [Admission!Next]_Admission!vars
<1>. SUFFICES ASSUME IInv, IInv', StatusInv, StatusInv', [Next]_vars
              PROVE  [Admission!Next]_Admission!vars
  OBVIOUS
<1>1. ASSUME NEW a \in Attempts, LauncherReturns(a) PROVE [Admission!Next]_Admission!vars
  <2>1. UNCHANGED <<closed, status, slot, start>>
    BY <1>1 DEF LauncherReturns, closing
  <2>2. \A x \in Attempts : MayLive(x)' => MayLive(x)
    BY <1>1 DEF LauncherReturns, MayLive, IInv, TypeOK
  <2>. QED BY <2>1, <2>2, Lessens
<1>2. ASSUME NEW a \in Attempts, ChildExits(a) PROVE [Admission!Next]_Admission!vars
  <2>1. UNCHANGED <<closed, status, slot, start>>
    BY <1>2 DEF ChildExits, closing, starts
  <2>2. \A x \in Attempts : MayLive(x)' => MayLive(x)
    BY <1>2 DEF ChildExits, MayLive, IInv, TypeOK, starts
  <2>. QED BY <2>1, <2>2, Lessens
<1>3. ASSUME \/ \E a \in Attempts : StreamDropped(a)
             \/ RuntimeEnds \/ HostShutsDown \/ Cancel \/ DropSession
             \/ UNCHANGED vars
      PROVE  [Admission!Next]_Admission!vars
  <2>1. UNCHANGED <<closed, status, slot, start, launch, child>>
    BY <1>3 DEF StreamDropped, RuntimeEnds, HostShutsDown, Cancel, DropSession, vars, closing,
       starts
  <2>. QED BY <2>1, Idles
<1>. QED BY <1>1, <1>2, <1>3, StartSteps, LateSteps, WorkerSteps, PumpStepsIdle, CloseEnds
     DEF Next

\* However launches, stops, dropped starts and closes interleave, the session does what
\* both vendors' sessions promise of their turns: one turn at a time has a child, a slot
\* is given up and a session reported closed only once there is none.
THEOREM Implements == Spec => ImplementsAdmission
<1>1. Spec => Init /\ [][Next]_vars
  BY DEF Spec
<1>. QED BY <1>1, AdmissionInit, AdmissionStep, Invariant, StatusHolds, PTL
     DEF ImplementsAdmission, Admission!Spec
=============================================================================
