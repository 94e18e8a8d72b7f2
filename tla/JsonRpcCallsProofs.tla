------------------------- MODULE JsonRpcCallsProofs -------------------------
(***************************************************************************)
(* Safety of the call record, for any calls, any mix of direct, submitted, *)
(* ordered and counted ones, and any budget; and that the client keeps     *)
(* CallContract.                                                           *)
(***************************************************************************)
EXTENDS JsonRpcCalls, FiniteSetTheorems, TLAPS

-----------------------------------------------------------------------------
(* The inductive invariant.                                                *)

InHand == writer \notin {"idle", "gone"}

\* What the writer and the reader have in hand is what their states say.
Hands ==
    /\ writing \in Calls <=> InHand
    /\ writing \in Calls => writing \in Submitted
    /\ matched \in Calls <=> pump \in {"matched", "claimed"}
    /\ writer = "registering" => holder[writing] = "writer"
    /\ InHand => holder[writing] # "frame"
    /\ pump \in {"matched", "claimed"} => holder[matched] = "reader"
    /\ \A c \in Calls :
        /\ holder[c] = "writer" => writer = "registering" /\ writing = c
        /\ holder[c] = "reader" => pump \in {"matched", "claimed"} /\ matched = c
        /\ holder[c] = "queue" => worker = "running"

\* A caller's place fits what became of its frame and of its sending end.
Stages ==
    \A c \in Calls :
        /\ caller[c] \in {"idle", "entering", "overflowing"} =>
             holder[c] = "nobody" /\ phase[c] = "none"
        /\ holder[c] \in {"nobody", "frame", "writer", "map", "reader", "queue"} =>
             answer[c] = "none"
        /\ caller[c] \in {"writing", "failing", "waiting"} => holder[c] # "nobody"
        /\ caller[c] \in {"writing", "failing"} => c \in Direct
        /\ c \in Direct => phase[c] \in {"none", "writing", "finished"}
        /\ c \in Direct /\ caller[c] = "waiting" => phase[c] = "finished"
        /\ c \in Direct /\ phase[c] = "writing" => caller[c] = "writing"
        /\ c \in Direct => holder[c] \notin {"frame", "writer"}
        /\ holder[c] \in {"frame", "writer"} => phase[c] \in {"queued", "unwritten"}
        /\ holder[c] = "nobody" => phase[c] = "none"
        /\ phase[c] = "queued" =>
             /\ caller[c] = "waiting"
             /\ \/ holder[c] = "frame"
                \/ writing = c /\ writer \in {"registering", "registered"}

\* The frame in the writer's hands is as far as the writer is.
Frame ==
    /\ writer \in {"registering", "registered"} =>
         phase[writing] \in {"queued", "unwritten"}
    /\ writer = "writing" => phase[writing] = "writing"
    /\ writer \in {"refused", "failing"} => phase[writing] \in {"unwritten", "finished"}
    /\ \A c \in Submitted : phase[c] = "writing" => writer = "writing" /\ writing = c

\* The last word: nobody is answered, by a reader or in order, who did not have
\* it taken from him, and a call settled otherwise was settled by the end.
Claims ==
    /\ pump = "claimed" /\ CancelOnAbandon => claim[matched] = "reader"
    /\ writer = "failing" /\ CancelOnAbandon => claim[writing] # "free"
    /\ \A c \in Calls :
        /\ CancelOnAbandon /\ (answer[c] = "answer" \/ holder[c] = "queue") =>
             claim[c] = "reader"
        /\ CancelOnAbandon /\ claim[c] = "free" /\ caller[c] # "done"
             /\ (answer[c] # "none" \/ holder[c] = "gone") =>
             closed \/ phase[c] = "unwritten"
        /\ c \in cancels => claim[c] = "caller" /\ CancelOnAbandon
        /\ c \in cancels \cup heard \cup cleanup => caller[c] = "done"

\* What an end has done so far.
Ending ==
    /\ closer # "none" => ended # "none"
    /\ closer \in {"closed", "failed"} => closed
    /\ pump \in {"recorded", "sealed", "closed", "draining", "failed"} => ended # "none"
    /\ pump \in {"closed", "draining", "failed"} => closed
    /\ closed => ended # "none"
    /\ writer = "gone" => dropped /\ closer \in {"closed", "failed"}

\* An entry given up before its frame was begun is the writer's, any other the
\* runtime's.
Orphans ==
    \A c \in Dead : \/ c \in cleanup
                    \/ writing = c /\ phase[c] = "unwritten"
                    \/ writer = "gone" /\ closer = "closed"

Core ==
    /\ TypeOK /\ Hands /\ Stages /\ Frame /\ Claims /\ Ending /\ Orphans
    /\ NobodyForgotten /\ PlacesComeBack /\ FailureNamesTheEnd
    /\ AnsweredOrCancelled

Inv == Core /\ PendingBounded


-----------------------------------------------------------------------------
(* The strengthening holds at the start and is kept by every action: what an *)
(* action leaves alone in one step, then each part it can disturb.          *)

LEMMA CoreInit == ASSUME CallsAssumption, Init PROVE Core
<1>1. TypeOK
  BY DEF CallsAssumption, Init, Ends, TypeOK
<1>2. Hands
  BY DEF CallsAssumption, Init, InHand, Hands
<1>3. Stages
  BY DEF CallsAssumption, Init, Direct, Stages
<1>4. Frame
  BY DEF CallsAssumption, Init, Frame
<1>5. Claims
  BY DEF CallsAssumption, Init, Claims
<1>6. Ending
  BY DEF CallsAssumption, Init, Ending
<1>7. Orphans
  BY DEF CallsAssumption, Init, Entries, Dead, Orphans
<1>8. NobodyForgotten
  BY DEF CallsAssumption, Init, Entries, NobodyForgotten
<1>9. PlacesComeBack
  BY DEF CallsAssumption, Init, PlacesComeBack
<1>10. FailureNamesTheEnd
  BY DEF CallsAssumption, Init, Ends, FailureNamesTheEnd
<1>11. AnsweredOrCancelled
  BY DEF CallsAssumption, Init, Began, AnsweredOrCancelled
<1> QED
  BY <1>1, <1>2, <1>3, <1>4, <1>5, <1>6, <1>7, <1>8, <1>9, <1>10, <1>11 DEF
      Core

LEMMA CoreStutters == ASSUME Core, UNCHANGED vars PROVE Core'
<1>1. TypeOK'
  BY DEF Core, vars, callVars, endVars, Ends, TypeOK
<1>2. Hands'
  BY DEF Core, vars, callVars, endVars, InHand, Hands
<1>3. Stages'
  BY DEF Core, vars, callVars, endVars, Direct, Stages
<1>4. Frame'
  BY DEF Core, vars, callVars, endVars, Frame
<1>5. Claims'
  BY DEF Core, vars, callVars, endVars, Claims
<1>6. Ending'
  BY DEF Core, vars, callVars, endVars, Ending
<1>7. Orphans'
  BY DEF Core, vars, callVars, endVars, Entries, Dead, Orphans
<1>8. NobodyForgotten'
  BY DEF Core, vars, callVars, endVars, Entries, NobodyForgotten
<1>9. PlacesComeBack'
  BY DEF Core, vars, callVars, endVars, PlacesComeBack
<1>10. FailureNamesTheEnd'
  BY DEF Core, vars, callVars, endVars, Ends, FailureNamesTheEnd
<1>11. AnsweredOrCancelled'
  BY DEF Core, vars, callVars, endVars, Began, AnsweredOrCancelled
<1> QED
  BY <1>1, <1>2, <1>3, <1>4, <1>5, <1>6, <1>7, <1>8, <1>9, <1>10, <1>11 DEF
      Core

LEMMA AskKeepsCore ==
    ASSUME CallsAssumption, Core, NEW c \in Calls, Ask(c)
    PROVE  Core'
<1>1. Hands' /\ Frame' /\ Ending' /\ NobodyForgotten' /\ FailureNamesTheEnd'
    /\ AnsweredOrCancelled'
  BY DEF Core, Hands, Frame, Ending, NobodyForgotten, FailureNamesTheEnd,
      AnsweredOrCancelled, endVars, Began, Entries, Move, Ask, Ends,
      InHand
<1>2. TypeOK'
  BY CallsAssumption DEF CallsAssumption, Core, TypeOK, endVars,       Move, Ask, Ends
<1>3. Stages'
  BY CallsAssumption DEF CallsAssumption, Core, TypeOK, Stages, endVars,
      Direct, Move, Ask, Ends
<1>4. Claims'
  BY CallsAssumption DEF CallsAssumption, Core, TypeOK, Claims, endVars,
      Move, Ask, Ends
<1>5. Orphans'
  BY CallsAssumption DEF CallsAssumption, Core, TypeOK, Hands, Stages,
      Orphans, endVars, Direct, Entries, Dead, Move, Ask, Ends,
      InHand
<1>6. PlacesComeBack'
  BY CallsAssumption DEF CallsAssumption, Core, TypeOK, PlacesComeBack,
      endVars, Move, Ask, Ends
<1> QED
  BY <1>1, <1>2, <1>3, <1>4, <1>5, <1>6 DEF Core

LEMMA EnterKeepsCore ==
    ASSUME CallsAssumption, Core, NEW c \in Calls, Enter(c)
    PROVE  Core'
<1>1. Frame' /\ Ending' /\ FailureNamesTheEnd' /\ AnsweredOrCancelled'
  BY DEF Core, Frame, Ending, FailureNamesTheEnd, AnsweredOrCancelled,
      endVars, Direct, Began, Entries, Dead, HasRoom, PlaceFree,
      Insert, Prune, Move, MayEnter, Enter, Ends
<1>2. TypeOK'
  BY CallsAssumption DEF CallsAssumption, Core, TypeOK, endVars,       Direct, Entries, Dead, HasRoom, PlaceFree, Insert, Prune, Move,
      MayEnter, Enter, Ends
<1>3. Hands'
  BY CallsAssumption DEF CallsAssumption, Core, TypeOK, Stages, Hands,
      endVars, Direct, Entries, Dead, HasRoom, PlaceFree, Insert,
      Prune, Move, MayEnter, Enter, Ends, InHand
<1>4. Stages'
  BY CallsAssumption DEF CallsAssumption, Core, TypeOK, Stages, endVars,
      Direct, Entries, Dead, HasRoom, PlaceFree, Insert, Prune,
      Move, MayEnter, Enter, Ends
<1>5. Claims'
  BY CallsAssumption DEF CallsAssumption, Core, TypeOK, Claims, endVars,
      Direct, Entries, Dead, HasRoom, PlaceFree, Insert, Prune,
      Move, MayEnter, Enter, Ends
<1>6. Orphans'
  BY CallsAssumption DEF CallsAssumption, Core, TypeOK, Hands, Stages,
      Orphans, endVars, Direct, Entries, Dead, HasRoom, PlaceFree,
      Insert, Prune, Move, MayEnter, Enter, Ends, InHand
<1>7. NobodyForgotten'
  BY CallsAssumption DEF CallsAssumption, Core, TypeOK, Ending, Claims,
      NobodyForgotten, endVars, Direct, Entries, Dead, HasRoom,
      PlaceFree, Insert, Prune, Move, MayEnter, Enter, Ends
<1>8. PlacesComeBack'
  BY CallsAssumption DEF CallsAssumption, Core, TypeOK, PlacesComeBack,
      endVars, Direct, Entries, Dead, HasRoom, PlaceFree, Insert,
      Prune, Move, MayEnter, Enter, Ends
<1> QED
  BY <1>1, <1>2, <1>3, <1>4, <1>5, <1>6, <1>7, <1>8 DEF Core

LEMMA TakeLinkKeepsCore ==
    ASSUME CallsAssumption, Core, NEW c \in Calls, TakeLink(c)
    PROVE  Core'
<1>1. Hands' /\ Ending' /\ NobodyForgotten'
  BY DEF Core, Hands, Ending, NobodyForgotten, endVars, Direct,
      LinkFree, Entries, Phase, TakeLink, InHand
<1>2. TypeOK'
  BY CallsAssumption DEF CallsAssumption, Core, TypeOK, endVars,       Direct, LinkFree, Phase, TakeLink, Ends
<1>3. Stages'
  BY CallsAssumption DEF CallsAssumption, Core, TypeOK, Hands, Frame, Stages,
      endVars, Direct, LinkFree, Phase, TakeLink, Ends, InHand
<1>4. Frame'
  BY CallsAssumption DEF CallsAssumption, Core, TypeOK, Frame, endVars,
      Direct, LinkFree, Phase, TakeLink, Ends
<1>5. Claims'
  BY CallsAssumption DEF CallsAssumption, Core, TypeOK, Claims, endVars,
      Direct, LinkFree, Phase, TakeLink, Ends
<1>6. Orphans'
  BY CallsAssumption DEF CallsAssumption, Core, TypeOK, Orphans, endVars,
      Direct, LinkFree, Entries, Dead, Phase, TakeLink, Ends
<1>7. PlacesComeBack'
  BY CallsAssumption DEF CallsAssumption, Core, TypeOK, PlacesComeBack,
      endVars, Direct, LinkFree, Phase, TakeLink, Ends
<1>8. FailureNamesTheEnd'
  BY CallsAssumption DEF CallsAssumption, Core, TypeOK, FailureNamesTheEnd,
      endVars, Direct, LinkFree, Phase, TakeLink, Ends
<1>9. AnsweredOrCancelled'
  BY CallsAssumption DEF CallsAssumption, Core, TypeOK, AnsweredOrCancelled,
      endVars, Direct, Began, LinkFree, Phase, TakeLink, Ends
<1> QED
  BY <1>1, <1>2, <1>3, <1>4, <1>5, <1>6, <1>7, <1>8, <1>9 DEF Core

LEMMA WriteRefusedKeepsCore ==
    ASSUME CallsAssumption, Core, NEW c \in Calls, WriteRefused(c)
    PROVE  Core'
<1>1. Hands' /\ Frame' /\ Ending' /\ NobodyForgotten' /\ FailureNamesTheEnd'
    /\ AnsweredOrCancelled'
  BY DEF Core, Hands, Frame, Ending, NobodyForgotten, FailureNamesTheEnd,
      AnsweredOrCancelled, endVars, Direct, Began, Entries, Move,
      WriteRefused, Ends, InHand
<1>2. TypeOK'
  BY CallsAssumption DEF CallsAssumption, Core, TypeOK, endVars,       Direct, Move, WriteRefused, Ends
<1>3. Stages'
  BY CallsAssumption DEF CallsAssumption, Core, TypeOK, Stages, endVars,
      Direct, Move, WriteRefused, Ends
<1>4. Claims'
  BY CallsAssumption DEF CallsAssumption, Core, TypeOK, Claims, endVars,
      Direct, Move, WriteRefused, Ends
<1>5. Orphans'
  BY CallsAssumption DEF CallsAssumption, Core, TypeOK, Orphans, endVars,
      Direct, Entries, Dead, Move, WriteRefused, Ends
<1>6. PlacesComeBack'
  BY CallsAssumption DEF CallsAssumption, Core, TypeOK, PlacesComeBack,
      endVars, Direct, Move, WriteRefused, Ends
<1> QED
  BY <1>1, <1>2, <1>3, <1>4, <1>5, <1>6 DEF Core

LEMMA WrittenKeepsCore ==
    ASSUME CallsAssumption, Core, NEW c \in Calls, Written(c)
    PROVE  Core'
<1>1. Hands' /\ Ending' /\ NobodyForgotten'
  BY DEF Core, Hands, Ending, NobodyForgotten, endVars, Direct,
      Entries, Move, Phase, Written, InHand
<1>2. TypeOK'
  BY CallsAssumption DEF CallsAssumption, Core, TypeOK, endVars,       Direct, Move, Phase, Written, Ends
<1>3. Stages'
  BY CallsAssumption DEF CallsAssumption, Core, TypeOK, Stages, endVars,
      Direct, Move, Phase, Written, Ends
<1>4. Frame'
  BY CallsAssumption DEF CallsAssumption, Core, TypeOK, Hands, Frame, endVars,
      Direct, Move, Phase, Written, Ends, InHand
<1>5. Claims'
  BY CallsAssumption DEF CallsAssumption, Core, TypeOK, Claims, endVars,
      Direct, Move, Phase, Written, Ends
<1>6. Orphans'
  BY CallsAssumption DEF CallsAssumption, Core, TypeOK, Orphans, endVars,
      Direct, Entries, Dead, Move, Phase, Written, Ends
<1>7. PlacesComeBack'
  BY CallsAssumption DEF CallsAssumption, Core, TypeOK, PlacesComeBack,
      endVars, Direct, Move, Phase, Written, Ends
<1>8. FailureNamesTheEnd'
  BY CallsAssumption DEF CallsAssumption, Core, TypeOK, FailureNamesTheEnd,
      endVars, Direct, Move, Phase, Written, Ends
<1>9. AnsweredOrCancelled'
  BY CallsAssumption DEF CallsAssumption, Core, TypeOK, AnsweredOrCancelled,
      endVars, Direct, Began, Move, Phase, Written, Ends
<1> QED
  BY <1>1, <1>2, <1>3, <1>4, <1>5, <1>6, <1>7, <1>8, <1>9 DEF Core

LEMMA WriteFailsKeepsCore ==
    ASSUME CallsAssumption, Core, NEW c \in Calls, WriteFails(c)
    PROVE  Core'
<1>1. Hands' /\ Ending' /\ NobodyForgotten'
  BY DEF Core, Hands, Ending, NobodyForgotten, endVars, Direct,
      Entries, Move, Phase, WriteFails, InHand
<1>2. TypeOK'
  <2>1. poisoned' = poisoned \/ poisoned' = TRUE
    BY DEF WriteFails
  <2>2. poisoned' \in BOOLEAN
    BY <2>1 DEF Core, TypeOK
  <2> QED
    BY <2>2, CallsAssumption DEF Core, TypeOK, Hands, endVars, Direct,
        Move, Phase, WriteFails, Ends, InHand
<1>3. Stages'
  BY CallsAssumption DEF CallsAssumption, Core, TypeOK, Stages, endVars,
      Direct, Move, Phase, WriteFails, Ends
<1>4. Frame'
  BY CallsAssumption DEF CallsAssumption, Core, TypeOK, Hands, Frame, endVars,
      Direct, Move, Phase, WriteFails, Ends, InHand
<1>5. Claims'
  BY CallsAssumption DEF CallsAssumption, Core, TypeOK, Claims, endVars,
      Direct, Move, Phase, WriteFails, Ends
<1>6. Orphans'
  BY CallsAssumption DEF CallsAssumption, Core, TypeOK, Orphans, endVars,
      Direct, Entries, Dead, Move, Phase, WriteFails, Ends
<1>7. PlacesComeBack'
  BY CallsAssumption DEF CallsAssumption, Core, TypeOK, PlacesComeBack,
      endVars, Direct, Move, Phase, WriteFails, Ends
<1>8. FailureNamesTheEnd'
  BY CallsAssumption DEF CallsAssumption, Core, TypeOK, FailureNamesTheEnd,
      endVars, Direct, Move, Phase, WriteFails, Ends
<1>9. AnsweredOrCancelled'
  BY CallsAssumption DEF CallsAssumption, Core, TypeOK, AnsweredOrCancelled,
      endVars, Direct, Began, Move, Phase, WriteFails, Ends
<1> QED
  BY <1>1, <1>2, <1>3, <1>4, <1>5, <1>6, <1>7, <1>8, <1>9 DEF Core

LEMMA ReturnFailureKeepsCore ==
    ASSUME CallsAssumption, Core, NEW c \in Calls, ReturnFailure(c)
    PROVE  Core'
<1>1. Frame' /\ Ending' /\ FailureNamesTheEnd' /\ AnsweredOrCancelled'
  BY DEF Core, Frame, Ending, FailureNamesTheEnd, AnsweredOrCancelled,
      endVars, Began, LetGo, Move, ReturnFailure, Ends
<1>2. TypeOK'
  BY CallsAssumption DEF CallsAssumption, Core, TypeOK, endVars,       LetGo, Move, ReturnFailure, Ends
<1>3. Hands'
  BY CallsAssumption DEF CallsAssumption, Core, TypeOK, Hands, endVars,
      LetGo, Move, ReturnFailure, Ends, InHand
<1>4. Stages'
  BY CallsAssumption DEF CallsAssumption, Core, TypeOK, Stages, endVars,
      Direct, LetGo, Move, ReturnFailure, Ends
<1>5. Claims'
  BY CallsAssumption DEF CallsAssumption, Core, TypeOK, Claims, endVars,
      LetGo, Move, ReturnFailure, Ends
<1>6. Orphans'
  BY CallsAssumption DEF CallsAssumption, Core, TypeOK, Orphans, endVars,
      LetGo, Entries, Dead, Move, ReturnFailure, Ends
<1>7. NobodyForgotten'
  BY CallsAssumption DEF CallsAssumption, Core, TypeOK, NobodyForgotten,
      endVars, LetGo, Entries, Move, ReturnFailure, Ends
<1>8. PlacesComeBack'
  BY CallsAssumption DEF CallsAssumption, Core, TypeOK, PlacesComeBack,
      endVars, LetGo, Move, ReturnFailure, Ends
<1> QED
  BY <1>1, <1>2, <1>3, <1>4, <1>5, <1>6, <1>7, <1>8 DEF Core

LEMMA QueueKeepsCore ==
    ASSUME CallsAssumption, Core, NEW c \in Calls, Queue(c)
    PROVE  Core'
<1>1. Ending'
  BY DEF Core, Ending, endVars, PlaceFree, Move, Phase, Queue
<1>2. TypeOK'
  BY CallsAssumption DEF CallsAssumption, Core, TypeOK, endVars,       PlaceFree, Move, Phase, Queue, Ends
<1>3. Hands'
  BY CallsAssumption DEF CallsAssumption, Core, TypeOK, Stages, Frame, Hands,
      endVars, Direct, PlaceFree, Move, Phase, Queue, Ends, InHand
<1>4. Stages'
  BY CallsAssumption DEF CallsAssumption, Core, TypeOK, Stages, endVars,
      Direct, PlaceFree, Move, Phase, Queue, Ends
<1>5. Frame'
  BY CallsAssumption DEF CallsAssumption, Core, TypeOK, Hands, Stages, Frame,
      endVars, Direct, PlaceFree, Move, Phase, Queue, Ends, InHand
<1>6. Claims'
  BY CallsAssumption DEF CallsAssumption, Core, TypeOK, Hands, Stages, Claims,
      endVars, Direct, PlaceFree, Move, Phase, Queue, Ends, InHand
<1>7. Orphans'
  BY CallsAssumption DEF CallsAssumption, Core, TypeOK, Hands, Stages,
      Orphans, endVars, Direct, Entries, Dead, PlaceFree, Move,
      Phase, Queue, Ends, InHand
<1>8. NobodyForgotten'
  BY CallsAssumption DEF CallsAssumption, Core, TypeOK, NobodyForgotten,
      endVars, Entries, PlaceFree, Move, Phase, Queue, Ends
<1>9. PlacesComeBack'
  BY CallsAssumption DEF CallsAssumption, Core, TypeOK, PlacesComeBack,
      endVars, PlaceFree, Move, Phase, Queue, Ends
<1>10. FailureNamesTheEnd'
  BY CallsAssumption DEF CallsAssumption, Core, TypeOK, Hands, Stages,
      FailureNamesTheEnd, endVars, Direct, PlaceFree, Move, Phase,
      Queue, Ends, InHand
<1>11. AnsweredOrCancelled'
  BY CallsAssumption DEF CallsAssumption, Core, TypeOK, Stages,
      AnsweredOrCancelled, endVars, Direct, Began, PlaceFree, Move,
      Phase, Queue, Ends
<1> QED
  BY <1>1, <1>2, <1>3, <1>4, <1>5, <1>6, <1>7, <1>8, <1>9, <1>10, <1>11 DEF
      Core

LEMMA OverflowKeepsCore ==
    ASSUME CallsAssumption, Core, NEW c \in Calls, Overflow(c)
    PROVE  Core'
<1>1. Hands' /\ Frame' /\ NobodyForgotten' /\ AnsweredOrCancelled'
  BY DEF Core, Hands, Frame, NobodyForgotten, AnsweredOrCancelled, Began,
      Entries, Recorded, Move, Overflow, InHand
<1>2. TypeOK'
  BY CallsAssumption DEF CallsAssumption, Core, TypeOK, Recorded, Move,
      Overflow, Ends
<1>3. Stages'
  BY CallsAssumption DEF CallsAssumption, Core, TypeOK, Stages, Direct,
      Recorded, Move, Overflow, Ends
<1>4. Claims'
  BY CallsAssumption DEF CallsAssumption, Core, TypeOK, Claims, Recorded,
      Move, Overflow, Ends
<1>5. Ending'
  BY CallsAssumption DEF CallsAssumption, Core, TypeOK, Ending, Recorded,
      Move, Overflow, Ends
<1>6. Orphans'
  BY CallsAssumption DEF CallsAssumption, Core, TypeOK, Stages, Orphans,
      Direct, Entries, Dead, Recorded, Move, Overflow, Ends
<1>7. PlacesComeBack'
  BY CallsAssumption DEF CallsAssumption, Core, TypeOK, PlacesComeBack,
      Recorded, Move, Overflow, Ends
<1>8. FailureNamesTheEnd'
  BY CallsAssumption DEF CallsAssumption, Core, TypeOK, FailureNamesTheEnd,
      Recorded, Move, Overflow, Ends
<1> QED
  BY <1>1, <1>2, <1>3, <1>4, <1>5, <1>6, <1>7, <1>8 DEF Core

LEMMA HearKeepsCore ==
    ASSUME CallsAssumption, Core, NEW c \in Calls, Hear(c)
    PROVE  Core'
<1>1. Hands' /\ Ending' /\ NobodyForgotten'
  BY DEF Core, Hands, Ending, NobodyForgotten, endVars, Direct,
      Began, Entries, Move, MayCancel, Wrote, MidSend, Withdrawn,
      Leave, Hear, InHand
<1>2. TypeOK'
  BY CallsAssumption DEF CallsAssumption, Core, TypeOK, Hands, Stages,
      endVars, Direct, Began, Move, MayCancel, Wrote,
      MidSend, Withdrawn, Leave, Hear, Ends, InHand
<1>3. Stages'
  BY CallsAssumption DEF CallsAssumption, Core, TypeOK, Stages, endVars,
      Direct, Began, Move, MayCancel, Wrote, MidSend,
      Withdrawn, Leave, Hear, Ends
<1>4. Frame'
  BY CallsAssumption DEF CallsAssumption, Core, TypeOK, Hands, Frame, endVars,
      Direct, Began, Move, MayCancel, Wrote, MidSend,
      Withdrawn, Leave, Hear, Ends, InHand
<1>5. Claims'
  BY CallsAssumption DEF CallsAssumption, Core, TypeOK, Hands, Claims,
      endVars, Direct, Began, Move, MayCancel, Wrote,
      MidSend, Withdrawn, Leave, Hear, Ends, InHand
<1>6. Orphans'
  BY CallsAssumption DEF CallsAssumption, Core, TypeOK, Orphans, endVars,
      Direct, Began, Entries, Dead, Move, MayCancel, Wrote,
      MidSend, Withdrawn, Leave, Hear, Ends
<1>7. PlacesComeBack'
  BY CallsAssumption DEF CallsAssumption, Core, TypeOK, PlacesComeBack,
      endVars, Direct, Began, Move, MayCancel, Wrote,
      MidSend, Withdrawn, Leave, Hear, Ends
<1>8. FailureNamesTheEnd'
  BY CallsAssumption DEF CallsAssumption, Core, TypeOK, FailureNamesTheEnd,
      endVars, Direct, Began, Move, MayCancel, Wrote,
      MidSend, Withdrawn, Leave, Hear, Ends
<1>9. AnsweredOrCancelled'
  BY CallsAssumption DEF CallsAssumption, Core, TypeOK, Hands, Stages, Claims,
      AnsweredOrCancelled, endVars, Direct, Began, Move,
      MayCancel, Wrote, MidSend, Withdrawn, Leave, Hear, Ends, InHand
<1> QED
  BY <1>1, <1>2, <1>3, <1>4, <1>5, <1>6, <1>7, <1>8, <1>9 DEF Core

LEMMA GiveUpKeepsCore ==
    ASSUME CallsAssumption, Core, NEW c \in Calls, GiveUp(c)
    PROVE  Core'
<1>1. Hands' /\ Ending' /\ NobodyForgotten'
  BY DEF Core, Hands, Ending, NobodyForgotten, endVars, Direct,
      Began, Entries, Move, MayCancel, Wrote, MidSend, Withdrawn,
      Leave, GiveUp, InHand
<1>2. TypeOK'
  <2>1. poisoned' \in BOOLEAN
    BY DEF Core, TypeOK, GiveUp, Leave
  <2>2. claim' \in [Calls -> {"free", "reader", "writer", "caller"}] /\ cancels' \subseteq Calls
    BY DEF Core, TypeOK, GiveUp, Leave
  <2>3. phase' \in [Calls -> {"none", "queued", "writing", "finished", "unwritten"}]
    BY DEF Core, TypeOK, GiveUp, Leave
  <2>4. /\ caller' = [caller EXCEPT ![c] = "done"] /\ cleanup' = cleanup \cup {c}
        /\ places' \subseteq places
        /\ UNCHANGED <<holder, answer, writer, writing, pump, matched, endVars, worker, heard>>
    BY DEF GiveUp, Leave, Move
  <2> QED
    BY <2>1, <2>2, <2>3, <2>4 DEF Core, TypeOK, endVars, Ends
<1>3. Stages'
  BY CallsAssumption DEF CallsAssumption, Core, TypeOK, Stages, endVars,
      Direct, Began, Move, MayCancel, Wrote, MidSend,
      Withdrawn, Leave, GiveUp, Ends
<1>4. Frame'
  BY CallsAssumption DEF CallsAssumption, Core, TypeOK, Hands, Frame, endVars,
      Direct, Began, Move, MayCancel, Wrote, MidSend,
      Withdrawn, Leave, GiveUp, Ends, InHand
<1>5. Claims'
  BY CallsAssumption DEF CallsAssumption, Core, TypeOK, Hands, Claims,
      endVars, Direct, Began, Move, MayCancel, Wrote,
      MidSend, Withdrawn, Leave, GiveUp, Ends, InHand
<1>6. Orphans'
  BY CallsAssumption DEF CallsAssumption, Core, TypeOK, Hands, Stages,
      Orphans, endVars, Direct, Began, Entries, Dead, Move,
      MayCancel, Wrote, MidSend, Withdrawn, Leave, GiveUp, Ends, InHand
<1>7. PlacesComeBack'
  BY CallsAssumption DEF CallsAssumption, Core, TypeOK, PlacesComeBack,
      endVars, Direct, Began, Move, MayCancel, Wrote,
      MidSend, Withdrawn, Leave, GiveUp, Ends
<1>8. FailureNamesTheEnd'
  BY CallsAssumption DEF CallsAssumption, Core, TypeOK, FailureNamesTheEnd,
      endVars, Direct, Began, Move, MayCancel, Wrote,
      MidSend, Withdrawn, Leave, GiveUp, Ends
<1>9. AnsweredOrCancelled'
  BY CallsAssumption DEF CallsAssumption, Core, TypeOK, Hands, Stages, Claims,
      AnsweredOrCancelled, endVars, Direct, Began, Move,
      MayCancel, Wrote, MidSend, Withdrawn, Leave, GiveUp, Ends, InHand
<1> QED
  BY <1>1, <1>2, <1>3, <1>4, <1>5, <1>6, <1>7, <1>8, <1>9 DEF Core

LEMMA GiveUpEnteringKeepsCore ==
    ASSUME CallsAssumption, Core, NEW c \in Calls, GiveUpEntering(c)
    PROVE  Core'
<1>1. Hands' /\ Frame' /\ Ending' /\ NobodyForgotten' /\ FailureNamesTheEnd'
    /\ AnsweredOrCancelled'
  BY DEF Core, Hands, Frame, Ending, NobodyForgotten, FailureNamesTheEnd,
      AnsweredOrCancelled, endVars, Direct, Began, Entries, Move,
      GiveUpEntering, Ends, InHand
<1>2. TypeOK'
  BY CallsAssumption DEF CallsAssumption, Core, TypeOK, endVars,       Direct, Move, GiveUpEntering, Ends
<1>3. Stages'
  BY CallsAssumption DEF CallsAssumption, Core, TypeOK, Stages, endVars,
      Direct, Move, GiveUpEntering, Ends
<1>4. Claims'
  BY CallsAssumption DEF CallsAssumption, Core, TypeOK, Claims, endVars,
      Direct, Move, GiveUpEntering, Ends
<1>5. Orphans'
  BY CallsAssumption DEF CallsAssumption, Core, TypeOK, Hands, Stages,
      Orphans, endVars, Direct, Entries, Dead, Move, GiveUpEntering,
      Ends, InHand
<1>6. PlacesComeBack'
  BY CallsAssumption DEF CallsAssumption, Core, TypeOK, PlacesComeBack,
      endVars, Direct, Move, GiveUpEntering, Ends
<1> QED
  BY <1>1, <1>2, <1>3, <1>4, <1>5, <1>6 DEF Core

LEMMA CleanUpKeepsCore ==
    ASSUME CallsAssumption, Core, NEW c \in Calls, CleanUp(c)
    PROVE  Core'
<1>1. Frame' /\ Ending' /\ FailureNamesTheEnd' /\ AnsweredOrCancelled'
  BY DEF Core, Frame, Ending, FailureNamesTheEnd, AnsweredOrCancelled,
      endVars, Began, LetGo, TakeOut, CleanUp, Ends
<1>2. TypeOK'
  BY CallsAssumption DEF CallsAssumption, Core, TypeOK, endVars,       LetGo, TakeOut, CleanUp, Ends
<1>3. Hands'
  BY CallsAssumption DEF CallsAssumption, Core, TypeOK, Hands, endVars,
      LetGo, TakeOut, CleanUp, Ends, InHand
<1>4. Stages'
  BY CallsAssumption DEF CallsAssumption, Core, TypeOK, Stages, endVars,
      Direct, LetGo, TakeOut, CleanUp, Ends
<1>5. Claims'
  BY CallsAssumption DEF CallsAssumption, Core, TypeOK, Claims, endVars,
      LetGo, TakeOut, CleanUp, Ends
<1>6. Orphans'
  BY CallsAssumption DEF CallsAssumption, Core, TypeOK, Orphans, endVars,
      LetGo, Entries, Dead, TakeOut, CleanUp, Ends
<1>7. NobodyForgotten'
  BY CallsAssumption DEF CallsAssumption, Core, TypeOK, NobodyForgotten,
      endVars, LetGo, Entries, TakeOut, CleanUp, Ends
<1>8. PlacesComeBack'
  BY CallsAssumption DEF CallsAssumption, Core, TypeOK, PlacesComeBack,
      endVars, LetGo, TakeOut, CleanUp, Ends
<1> QED
  BY <1>1, <1>2, <1>3, <1>4, <1>5, <1>6, <1>7, <1>8 DEF Core

LEMMA TakeFrameKeepsCore ==
    ASSUME CallsAssumption, Core, NEW c \in Calls, TakeFrame(c)
    PROVE  Core'
<1>1. FailureNamesTheEnd' /\ AnsweredOrCancelled'
  BY DEF Core, FailureNamesTheEnd, AnsweredOrCancelled, endVars,       Began, LetGo, writerRest, Writer, TakeFrame, Ends
<1>2. TypeOK'
  BY CallsAssumption DEF CallsAssumption, Core, TypeOK, endVars,       LetGo, writerRest, Writer, TakeFrame, Ends
<1>3. Hands'
  BY CallsAssumption DEF CallsAssumption, Core, TypeOK, Stages, Hands,
      endVars, Direct, LetGo, writerRest, Writer, TakeFrame, Ends,
      InHand
<1>4. Stages'
  BY CallsAssumption DEF CallsAssumption, Core, TypeOK, Stages, endVars,
      Direct, LetGo, writerRest, Writer, TakeFrame, Ends
<1>5. Frame'
  BY CallsAssumption DEF CallsAssumption, Core, TypeOK, Frame, endVars,
      LetGo, writerRest, Writer, TakeFrame, Ends
<1>6. Claims'
  BY CallsAssumption DEF CallsAssumption, Core, TypeOK, Hands, Stages, Claims,
      endVars, Direct, LetGo, writerRest, Writer, TakeFrame, Ends,
      InHand
<1>7. Ending'
  BY CallsAssumption DEF CallsAssumption, Core, TypeOK, Ending, endVars,
      LetGo, writerRest, Writer, TakeFrame, Ends
<1>8. Orphans'
  BY CallsAssumption DEF CallsAssumption, Core, TypeOK, Hands, Orphans,
      endVars, LetGo, Entries, Dead, writerRest, Writer, TakeFrame,
      Ends, InHand
<1>9. NobodyForgotten'
  BY CallsAssumption DEF CallsAssumption, Core, TypeOK, NobodyForgotten,
      endVars, LetGo, Entries, writerRest, Writer, TakeFrame, Ends
<1>10. PlacesComeBack'
  BY CallsAssumption DEF CallsAssumption, Core, TypeOK, PlacesComeBack,
      endVars, LetGo, writerRest, Writer, TakeFrame, Ends
<1> QED
  BY <1>1, <1>2, <1>3, <1>4, <1>5, <1>6, <1>7, <1>8, <1>9, <1>10 DEF Core

LEMMA MatchKeepsCore ==
    ASSUME CallsAssumption, Core, NEW c \in Calls, Match(c)
    PROVE  Core'
<1>1. Frame' /\ FailureNamesTheEnd' /\ AnsweredOrCancelled'
  BY DEF Core, Frame, FailureNamesTheEnd, AnsweredOrCancelled, endVars,
      Began, readerRest, Match, Ends
<1>2. TypeOK'
  BY CallsAssumption DEF CallsAssumption, Core, TypeOK, endVars,       Began, readerRest, Match, Ends
<1>3. Hands'
  BY CallsAssumption DEF CallsAssumption, Core, TypeOK, Hands, endVars,
      Began, readerRest, Match, Ends, InHand
<1>4. Stages'
  BY CallsAssumption DEF CallsAssumption, Core, TypeOK, Stages, endVars,
      Direct, Began, readerRest, Match, Ends
<1>5. Claims'
  BY CallsAssumption DEF CallsAssumption, Core, TypeOK, Claims, endVars,
      Began, readerRest, Match, Ends
<1>6. Ending'
  BY CallsAssumption DEF CallsAssumption, Core, TypeOK, Ending, endVars,
      Began, readerRest, Match, Ends
<1>7. Orphans'
  BY CallsAssumption DEF CallsAssumption, Core, TypeOK, Orphans, endVars,
      Began, Entries, Dead, readerRest, Match, Ends
<1>8. NobodyForgotten'
  BY CallsAssumption DEF CallsAssumption, Core, TypeOK, NobodyForgotten,
      endVars, Began, Entries, readerRest, Match, Ends
<1>9. PlacesComeBack'
  BY CallsAssumption DEF CallsAssumption, Core, TypeOK, PlacesComeBack,
      endVars, Began, readerRest, Match, Ends
<1> QED
  BY <1>1, <1>2, <1>3, <1>4, <1>5, <1>6, <1>7, <1>8, <1>9 DEF Core

LEMMA DeliverQueuedKeepsCore ==
    ASSUME CallsAssumption, Core, NEW c \in Calls, DeliverQueued(c)
    PROVE  Core'
<1>1. Frame' /\ Ending'
  BY DEF Core, Frame, Ending, endVars, Settle, readerRest,
      DeliverQueued
<1>2. TypeOK'
  BY CallsAssumption DEF CallsAssumption, Core, TypeOK, endVars,       Settle, readerRest, DeliverQueued, Ends
<1>3. Hands'
  BY CallsAssumption DEF CallsAssumption, Core, TypeOK, Hands, endVars,
      Settle, readerRest, DeliverQueued, Ends, InHand
<1>4. Stages'
  BY CallsAssumption DEF CallsAssumption, Core, TypeOK, Stages, endVars,
      Direct, Settle, readerRest, DeliverQueued, Ends
<1>5. Claims'
  BY CallsAssumption DEF CallsAssumption, Core, TypeOK, Claims, endVars,
      Settle, readerRest, DeliverQueued, Ends
<1>6. Orphans'
  BY CallsAssumption DEF CallsAssumption, Core, TypeOK, Orphans, endVars,
      Settle, Entries, Dead, readerRest, DeliverQueued, Ends
<1>7. NobodyForgotten'
  BY CallsAssumption DEF CallsAssumption, Core, TypeOK, NobodyForgotten,
      endVars, Settle, Entries, readerRest, DeliverQueued, Ends
<1>8. PlacesComeBack'
  BY CallsAssumption DEF CallsAssumption, Core, TypeOK, PlacesComeBack,
      endVars, Settle, readerRest, DeliverQueued, Ends
<1>9. FailureNamesTheEnd'
  BY CallsAssumption DEF CallsAssumption, Core, TypeOK, FailureNamesTheEnd,
      endVars, Settle, readerRest, DeliverQueued, Ends
<1>10. AnsweredOrCancelled'
  BY CallsAssumption DEF CallsAssumption, Core, TypeOK, Hands, Stages, Claims,
      AnsweredOrCancelled, endVars, Direct, Began, Settle,
      readerRest, DeliverQueued, Ends, InHand
<1> QED
  BY <1>1, <1>2, <1>3, <1>4, <1>5, <1>6, <1>7, <1>8, <1>9, <1>10 DEF Core

LEMMA RegisterKeepsCore ==
    ASSUME CallsAssumption, Core, Register
    PROVE  Core'
<1>1. TypeOK'
  BY CallsAssumption DEF CallsAssumption, Core, TypeOK, endVars,       Settle, Entries, Dead, HasRoom, Insert, EndOr, Phase, writerRest,
      Writer, Register, Ends
<1>2. Hands'
  BY CallsAssumption DEF CallsAssumption, Core, TypeOK, Hands, endVars,
      Settle, Entries, Dead, HasRoom, Insert, EndOr, Phase,
      writerRest, Writer, Register, Ends, InHand
<1>3. Stages'
  BY CallsAssumption DEF CallsAssumption, Core, TypeOK, Hands, Stages,
      endVars, Direct, Settle, Entries, Dead, HasRoom, Insert,
      EndOr, Phase, writerRest, Writer, Register, Ends, InHand
<1>4. Frame'
  BY CallsAssumption DEF CallsAssumption, Core, TypeOK, Frame, endVars,
      Settle, Entries, Dead, HasRoom, Insert, EndOr, Phase,
      writerRest, Writer, Register, Ends
<1>5. Claims'
  BY CallsAssumption DEF CallsAssumption, Core, TypeOK, Claims, endVars,
      Settle, Entries, Dead, HasRoom, Insert, EndOr, Phase,
      writerRest, Writer, Register, Ends
<1>6. Ending'
  BY CallsAssumption DEF CallsAssumption, Core, TypeOK, Ending, endVars,
      Settle, Entries, Dead, HasRoom, Insert, EndOr, Phase,
      writerRest, Writer, Register, Ends
<1>7. Orphans'
  BY CallsAssumption DEF CallsAssumption, Core, TypeOK, Hands, Stages,
      Orphans, endVars, Direct, Settle, Entries, Dead, HasRoom,
      Insert, EndOr, Phase, writerRest, Writer, Register, Ends, InHand
<1>8. NobodyForgotten'
  BY CallsAssumption DEF CallsAssumption, Core, TypeOK, Ending, Claims,
      NobodyForgotten, endVars, Settle, Entries, Dead, HasRoom,
      Insert, EndOr, Phase, writerRest, Writer, Register, Ends
<1>9. PlacesComeBack'
  BY CallsAssumption DEF CallsAssumption, Core, TypeOK, PlacesComeBack,
      endVars, Settle, Entries, Dead, HasRoom, Insert, EndOr, Phase,
      writerRest, Writer, Register, Ends
<1>10. FailureNamesTheEnd'
  BY CallsAssumption DEF CallsAssumption, Core, TypeOK, Hands, Stages, Ending,
      NobodyForgotten, FailureNamesTheEnd, endVars, Direct, Settle,
      Entries, Dead, HasRoom, Insert, EndOr, Phase, writerRest, Writer,
      Register, Ends, InHand
<1>11. AnsweredOrCancelled'
  BY CallsAssumption DEF CallsAssumption, Core, TypeOK, Hands, Stages,
      AnsweredOrCancelled, endVars, Direct, Began, Settle, Entries,
      Dead, HasRoom, Insert, EndOr, Phase, writerRest, Writer, Register, Ends,
      InHand
<1> QED
  BY <1>1, <1>2, <1>3, <1>4, <1>5, <1>6, <1>7, <1>8, <1>9, <1>10, <1>11 DEF
      Core

LEMMA BeginKeepsCore ==
    ASSUME CallsAssumption, Core, Begin
    PROVE  Core'
<1>1. NobodyForgotten'
  BY DEF Core, NobodyForgotten, endVars, LinkFree, Entries, Phase,
      writerRest, Writer, Begin
<1>2. TypeOK'
  BY CallsAssumption DEF CallsAssumption, Core, TypeOK, Hands, endVars,
      LinkFree, Phase, writerRest, Writer, Begin, Ends, InHand
<1>3. Hands'
  BY CallsAssumption DEF CallsAssumption, Core, TypeOK, Hands, endVars,
      LinkFree, Phase, writerRest, Writer, Begin, Ends, InHand
<1>4. Stages'
  BY CallsAssumption DEF CallsAssumption, Core, TypeOK, Hands, Frame, Stages,
      endVars, Direct, LinkFree, Phase, writerRest, Writer, Begin,
      Ends, InHand
<1>5. Frame'
  BY CallsAssumption DEF CallsAssumption, Core, TypeOK, Hands, Frame, endVars,
      LinkFree, Phase, writerRest, Writer, Begin, Ends, InHand
<1>6. Claims'
  BY CallsAssumption DEF CallsAssumption, Core, TypeOK, Claims, endVars,
      LinkFree, Phase, writerRest, Writer, Begin, Ends
<1>7. Ending'
  BY CallsAssumption DEF CallsAssumption, Core, TypeOK, Ending, endVars,
      LinkFree, Phase, writerRest, Writer, Begin, Ends
<1>8. Orphans'
  BY CallsAssumption DEF CallsAssumption, Core, TypeOK, Orphans, endVars,
      LinkFree, Entries, Dead, Phase, writerRest, Writer, Begin,
      Ends
<1>9. PlacesComeBack'
  BY CallsAssumption DEF CallsAssumption, Core, TypeOK, Hands, Stages, Frame,
      PlacesComeBack, endVars, Direct, LinkFree, Phase, writerRest,
      Writer, Begin, Ends, InHand
<1>10. FailureNamesTheEnd'
  BY CallsAssumption DEF CallsAssumption, Core, TypeOK, FailureNamesTheEnd,
      endVars, LinkFree, Phase, writerRest, Writer, Begin, Ends
<1>11. AnsweredOrCancelled'
  BY CallsAssumption DEF CallsAssumption, Core, TypeOK, AnsweredOrCancelled,
      endVars, Began, LinkFree, Phase, writerRest, Writer, Begin,
      Ends
<1> QED
  BY <1>1, <1>2, <1>3, <1>4, <1>5, <1>6, <1>7, <1>8, <1>9, <1>10, <1>11 DEF
      Core

LEMMA NotBegunKeepsCore ==
    ASSUME CallsAssumption, Core, NotBegun
    PROVE  Core'
<1>1. NobodyForgotten'
  BY DEF Core, NobodyForgotten, endVars, LinkFree, Entries,
      writerRest, Writer, NotBegun
<1>2. TypeOK'
  BY CallsAssumption DEF CallsAssumption, Core, TypeOK, Hands, endVars,
      LinkFree, writerRest, Writer, NotBegun, Ends, InHand
<1>3. Hands'
  BY CallsAssumption DEF CallsAssumption, Core, TypeOK, Hands, endVars,
      LinkFree, writerRest, Writer, NotBegun, Ends, InHand
<1>4. Stages'
  BY CallsAssumption DEF CallsAssumption, Core, TypeOK, Hands, Frame, Stages,
      endVars, Direct, LinkFree, writerRest, Writer, NotBegun, Ends,
      InHand
<1>5. Frame'
  BY CallsAssumption DEF CallsAssumption, Core, TypeOK, Hands, Frame, endVars,
      LinkFree, writerRest, Writer, NotBegun, Ends, InHand
<1>6. Claims'
  BY CallsAssumption DEF CallsAssumption, Core, TypeOK, Claims, endVars,
      LinkFree, writerRest, Writer, NotBegun, Ends
<1>7. Ending'
  BY CallsAssumption DEF CallsAssumption, Core, TypeOK, Ending, endVars,
      LinkFree, writerRest, Writer, NotBegun, Ends
<1>8. Orphans'
  BY CallsAssumption DEF CallsAssumption, Core, TypeOK, Orphans, endVars,
      LinkFree, Entries, Dead, writerRest, Writer, NotBegun, Ends
<1>9. PlacesComeBack'
  BY CallsAssumption DEF CallsAssumption, Core, TypeOK, Hands, Stages, Frame,
      PlacesComeBack, endVars, Direct, LinkFree, writerRest, Writer,
      NotBegun, Ends, InHand
<1>10. FailureNamesTheEnd'
  BY CallsAssumption DEF CallsAssumption, Core, TypeOK, FailureNamesTheEnd,
      endVars, LinkFree, writerRest, Writer, NotBegun, Ends
<1>11. AnsweredOrCancelled'
  BY CallsAssumption DEF CallsAssumption, Core, TypeOK, Hands, Stages, Frame,
      AnsweredOrCancelled, endVars, Direct, Began, LinkFree,
      writerRest, Writer, NotBegun, Ends, InHand
<1> QED
  BY <1>1, <1>2, <1>3, <1>4, <1>5, <1>6, <1>7, <1>8, <1>9, <1>10, <1>11 DEF
      Core

LEMMA SentKeepsCore ==
    ASSUME CallsAssumption, Core, Sent
    PROVE  Core'
<1>1. NobodyForgotten'
  BY DEF Core, NobodyForgotten, endVars, Entries, Phase, writerRest,
      Writer, Sent
<1>2. TypeOK'
  BY CallsAssumption DEF CallsAssumption, Core, TypeOK, Hands, endVars,
      Phase, writerRest, Writer, Sent, Ends, InHand
<1>3. Hands'
  BY CallsAssumption DEF CallsAssumption, Core, TypeOK, Hands, endVars,
      Phase, writerRest, Writer, Sent, Ends, InHand
<1>4. Stages'
  BY CallsAssumption DEF CallsAssumption, Core, TypeOK, Hands, Frame, Stages,
      endVars, Direct, Phase, writerRest, Writer, Sent, Ends, InHand
<1>5. Frame'
  BY CallsAssumption DEF CallsAssumption, Core, TypeOK, Frame, endVars,
      Phase, writerRest, Writer, Sent, Ends
<1>6. Claims'
  BY CallsAssumption DEF CallsAssumption, Core, TypeOK, Hands, Stages, Frame,
      Claims, endVars, Direct, Phase, writerRest, Writer, Sent,
      Ends, InHand
<1>7. Ending'
  BY CallsAssumption DEF CallsAssumption, Core, TypeOK, Ending, endVars,
      Phase, writerRest, Writer, Sent, Ends
<1>8. Orphans'
  BY CallsAssumption DEF CallsAssumption, Core, TypeOK, Hands, Stages, Frame,
      Orphans, endVars, Direct, Entries, Dead, Phase, writerRest,
      Writer, Sent, Ends, InHand
<1>9. PlacesComeBack'
  BY CallsAssumption DEF CallsAssumption, Core, TypeOK, Hands, Stages, Frame,
      PlacesComeBack, endVars, Direct, Phase, writerRest, Writer,
      Sent, Ends, InHand
<1>10. FailureNamesTheEnd'
  BY CallsAssumption DEF CallsAssumption, Core, TypeOK, FailureNamesTheEnd,
      endVars, Phase, writerRest, Writer, Sent, Ends
<1>11. AnsweredOrCancelled'
  BY CallsAssumption DEF CallsAssumption, Core, TypeOK, AnsweredOrCancelled,
      endVars, Began, Phase, writerRest, Writer, Sent, Ends
<1> QED
  BY <1>1, <1>2, <1>3, <1>4, <1>5, <1>6, <1>7, <1>8, <1>9, <1>10, <1>11 DEF
      Core

LEMMA SendFailsKeepsCore ==
    ASSUME CallsAssumption, Core, SendFails
    PROVE  Core'
<1>1. NobodyForgotten'
  BY DEF Core, NobodyForgotten, endVars, Entries, Phase,
      writerRest, Writer, SendFails
<1>2. TypeOK'
  <2>1. poisoned' = poisoned \/ poisoned' = TRUE
    BY DEF SendFails
  <2>2. poisoned' \in BOOLEAN
    BY <2>1 DEF Core, TypeOK
  <2> QED
    BY <2>2, CallsAssumption DEF Core, TypeOK, Hands, endVars, Phase,
        writerRest, Writer, SendFails, Ends, InHand
<1>3. Hands'
  BY CallsAssumption DEF CallsAssumption, Core, TypeOK, Hands, endVars,
      Phase, writerRest, Writer, SendFails, Ends, InHand
<1>4. Stages'
  BY CallsAssumption DEF CallsAssumption, Core, TypeOK, Hands, Frame, Stages,
      endVars, Direct, Phase, writerRest, Writer, SendFails,
      Ends, InHand
<1>5. Frame'
  BY CallsAssumption DEF CallsAssumption, Core, TypeOK, Hands, Frame, endVars,
      Phase, writerRest, Writer, SendFails, Ends, InHand
<1>6. Claims'
  BY CallsAssumption DEF CallsAssumption, Core, TypeOK, Hands, Stages, Frame,
      Claims, endVars, Direct, Phase, writerRest, Writer,
      SendFails, Ends, InHand
<1>7. Ending'
  BY CallsAssumption DEF CallsAssumption, Core, TypeOK, Ending, endVars,
      Phase, writerRest, Writer, SendFails, Ends
<1>8. Orphans'
  BY CallsAssumption DEF CallsAssumption, Core, TypeOK, Hands, Stages, Frame,
      Orphans, endVars, Direct, Entries, Dead, Phase,
      writerRest, Writer, SendFails, Ends, InHand
<1>9. PlacesComeBack'
  BY CallsAssumption DEF CallsAssumption, Core, TypeOK, Hands, Stages, Frame,
      PlacesComeBack, endVars, Direct, Phase, writerRest,
      Writer, SendFails, Ends, InHand
<1>10. FailureNamesTheEnd'
  BY CallsAssumption DEF CallsAssumption, Core, TypeOK, FailureNamesTheEnd,
      endVars, Phase, writerRest, Writer, SendFails, Ends
<1>11. AnsweredOrCancelled'
  BY CallsAssumption DEF CallsAssumption, Core, TypeOK, AnsweredOrCancelled,
      endVars, Began, Phase, writerRest, Writer, SendFails,
      Ends
<1> QED
  BY <1>1, <1>2, <1>3, <1>4, <1>5, <1>6, <1>7, <1>8, <1>9, <1>10, <1>11 DEF
      Core

LEMMA TakeClaimKeepsCore ==
    ASSUME CallsAssumption, Core, TakeClaim
    PROVE  Core'
<1>1. NobodyForgotten' /\ PlacesComeBack' /\ FailureNamesTheEnd' /\ AnsweredOrCancelled'
  BY DEF Core, NobodyForgotten, PlacesComeBack, FailureNamesTheEnd,
      AnsweredOrCancelled, endVars, Began, Entries, writerRest,
      Writer, TakeClaim, Ends
<1>2. TypeOK'
  BY CallsAssumption DEF CallsAssumption, Core, TypeOK, Hands, endVars,
      writerRest, Writer, TakeClaim, Ends, InHand
<1>3. Hands'
  BY CallsAssumption DEF CallsAssumption, Core, TypeOK, Hands, endVars,
      writerRest, Writer, TakeClaim, Ends, InHand
<1>4. Stages'
  BY CallsAssumption DEF CallsAssumption, Core, TypeOK, Stages, endVars,
      Direct, writerRest, Writer, TakeClaim, Ends
<1>5. Frame'
  BY CallsAssumption DEF CallsAssumption, Core, TypeOK, Frame, endVars,
      writerRest, Writer, TakeClaim, Ends
<1>6. Claims'
  BY CallsAssumption DEF CallsAssumption, Core, TypeOK, Hands, Claims,
      endVars, writerRest, Writer, TakeClaim, Ends, InHand
<1>7. Ending'
  BY CallsAssumption DEF CallsAssumption, Core, TypeOK, Ending, endVars,
      writerRest, Writer, TakeClaim, Ends
<1>8. Orphans'
  BY CallsAssumption DEF CallsAssumption, Core, TypeOK, Orphans, endVars,
      Entries, Dead, writerRest, Writer, TakeClaim, Ends
<1> QED
  BY <1>1, <1>2, <1>3, <1>4, <1>5, <1>6, <1>7, <1>8 DEF Core

LEMMA FailUnwrittenKeepsCore ==
    ASSUME CallsAssumption, Core, FailUnwritten
    PROVE  Core'
<1>1. TypeOK'
  BY CallsAssumption DEF CallsAssumption, Core, TypeOK, endVars,       Settle, EndOr, writerRest, Writer, FailUnwritten, Ends
<1>2. Hands'
  BY CallsAssumption DEF CallsAssumption, Core, TypeOK, Hands, endVars,
      Settle, EndOr, writerRest, Writer, FailUnwritten, Ends, InHand
<1>3. Stages'
  BY CallsAssumption DEF CallsAssumption, Core, TypeOK, Stages, endVars,
      Direct, Settle, EndOr, writerRest, Writer, FailUnwritten, Ends
<1>4. Frame'
  BY CallsAssumption DEF CallsAssumption, Core, TypeOK, Frame, endVars,
      Settle, EndOr, writerRest, Writer, FailUnwritten, Ends
<1>5. Claims'
  BY CallsAssumption DEF CallsAssumption, Core, TypeOK, Hands, Stages, Frame,
      Ending, Claims, endVars, Direct, Settle, EndOr, writerRest,
      Writer, FailUnwritten, Ends, InHand
<1>6. Ending'
  BY CallsAssumption DEF CallsAssumption, Core, TypeOK, Ending, endVars,
      Settle, EndOr, writerRest, Writer, FailUnwritten, Ends
<1>7. Orphans'
  BY CallsAssumption DEF CallsAssumption, Core, TypeOK, Orphans, endVars,
      Settle, Entries, Dead, EndOr, writerRest, Writer,
      FailUnwritten, Ends
<1>8. NobodyForgotten'
  BY CallsAssumption DEF CallsAssumption, Core, TypeOK, NobodyForgotten,
      endVars, Settle, Entries, EndOr, writerRest, Writer,
      FailUnwritten, Ends
<1>9. PlacesComeBack'
  BY CallsAssumption DEF CallsAssumption, Core, TypeOK, PlacesComeBack,
      endVars, Settle, EndOr, writerRest, Writer, FailUnwritten,
      Ends
<1>10. FailureNamesTheEnd'
  BY CallsAssumption DEF CallsAssumption, Core, TypeOK, Hands, Stages, Frame,
      FailureNamesTheEnd, endVars, Direct, Settle, EndOr,
      writerRest, Writer, FailUnwritten, Ends, InHand
<1>11. AnsweredOrCancelled'
  BY CallsAssumption DEF CallsAssumption, Core, TypeOK, AnsweredOrCancelled,
      endVars, Began, Settle, EndOr, writerRest, Writer,
      FailUnwritten, Ends
<1> QED
  BY <1>1, <1>2, <1>3, <1>4, <1>5, <1>6, <1>7, <1>8, <1>9, <1>10, <1>11 DEF
      Core

LEMMA ClaimKeepsCore ==
    ASSUME CallsAssumption, Core, Claim
    PROVE  Core'
<1>1. Frame' /\ FailureNamesTheEnd' /\ AnsweredOrCancelled'
  BY DEF Core, Frame, FailureNamesTheEnd, AnsweredOrCancelled, endVars,
      Began, LetGo, readerRest, TooLate, Claim, Ends
<1>2. TypeOK'
  BY CallsAssumption DEF CallsAssumption, Core, TypeOK, endVars,       LetGo, readerRest, TooLate, Claim, Ends
<1>3. Hands'
  BY CallsAssumption DEF CallsAssumption, Core, TypeOK, Hands, endVars,
      LetGo, readerRest, TooLate, Claim, Ends, InHand
<1>4. Stages'
  BY CallsAssumption DEF CallsAssumption, Core, TypeOK, Hands, Stages,
      endVars, Direct, LetGo, readerRest, TooLate, Claim, Ends,
      InHand
<1>5. Claims'
  BY CallsAssumption DEF CallsAssumption, Core, TypeOK, Hands, Claims,
      endVars, LetGo, readerRest, TooLate, Claim, Ends, InHand
<1>6. Ending'
  BY CallsAssumption DEF CallsAssumption, Core, TypeOK, Ending, endVars,
      LetGo, readerRest, TooLate, Claim, Ends
<1>7. Orphans'
  BY CallsAssumption DEF CallsAssumption, Core, TypeOK, Orphans, endVars,
      LetGo, Entries, Dead, readerRest, TooLate, Claim, Ends
<1>8. NobodyForgotten'
  BY CallsAssumption DEF CallsAssumption, Core, TypeOK, NobodyForgotten,
      endVars, LetGo, Entries, readerRest, TooLate, Claim, Ends
<1>9. PlacesComeBack'
  BY CallsAssumption DEF CallsAssumption, Core, TypeOK, PlacesComeBack,
      endVars, LetGo, readerRest, TooLate, Claim, Ends
<1> QED
  BY <1>1, <1>2, <1>3, <1>4, <1>5, <1>6, <1>7, <1>8, <1>9 DEF Core

LEMMA DeliverKeepsCore ==
    ASSUME CallsAssumption, Core, Deliver
    PROVE  Core'
<1>1. Frame'
  BY DEF Core, Frame, endVars, Settle, EndOr, readerRest, Deliver
<1>2. TypeOK'
  BY CallsAssumption DEF CallsAssumption, Core, TypeOK, endVars,       Settle, EndOr, readerRest, Deliver, Ends
<1>3. Hands'
  BY CallsAssumption DEF CallsAssumption, Core, TypeOK, Hands, endVars,
      Settle, EndOr, readerRest, Deliver, Ends, InHand
<1>4. Stages'
  BY CallsAssumption DEF CallsAssumption, Core, TypeOK, Hands, Stages,
      endVars, Direct, Settle, EndOr, readerRest, Deliver, Ends,
      InHand
<1>5. Claims'
  BY CallsAssumption DEF CallsAssumption, Core, TypeOK, Claims, endVars,
      Settle, EndOr, readerRest, Deliver, Ends
<1>6. Ending'
  BY CallsAssumption DEF CallsAssumption, Core, TypeOK, Ending, endVars,
      Settle, EndOr, readerRest, Deliver, Ends
<1>7. Orphans'
  BY CallsAssumption DEF CallsAssumption, Core, TypeOK, Orphans, endVars,
      Settle, Entries, Dead, EndOr, readerRest, Deliver, Ends
<1>8. NobodyForgotten'
  BY CallsAssumption DEF CallsAssumption, Core, TypeOK, NobodyForgotten,
      endVars, Settle, Entries, EndOr, readerRest, Deliver, Ends
<1>9. PlacesComeBack'
  BY CallsAssumption DEF CallsAssumption, Core, TypeOK, PlacesComeBack,
      endVars, Settle, EndOr, readerRest, Deliver, Ends
<1>10. FailureNamesTheEnd'
  BY CallsAssumption DEF CallsAssumption, Core, TypeOK, FailureNamesTheEnd,
      endVars, Settle, EndOr, readerRest, Deliver, Ends
<1>11. AnsweredOrCancelled'
  BY CallsAssumption DEF CallsAssumption, Core, TypeOK, Hands, Stages, Claims,
      AnsweredOrCancelled, endVars, Direct, Began, Settle, EndOr,
      readerRest, Deliver, Ends, InHand
<1> QED
  BY <1>1, <1>2, <1>3, <1>4, <1>5, <1>6, <1>7, <1>8, <1>9, <1>10, <1>11 DEF
      Core

LEMMA WorkerStopsKeepsCore ==
    ASSUME CallsAssumption, Core, WorkerStops
    PROVE  Core'
<1>1. Frame' /\ Ending'
  BY DEF Core, Frame, Ending, endVars, Settle, EndOr, readerRest,
      WorkerStops
<1>2. TypeOK'
  BY CallsAssumption DEF CallsAssumption, Core, TypeOK, endVars,       Settle, EndOr, readerRest, WorkerStops, Ends
<1>3. Hands'
  BY CallsAssumption DEF CallsAssumption, Core, TypeOK, Hands, endVars,
      Settle, EndOr, readerRest, WorkerStops, Ends, InHand
<1>4. Stages'
  BY CallsAssumption DEF CallsAssumption, Core, TypeOK, Stages, endVars,
      Direct, Settle, EndOr, readerRest, WorkerStops, Ends
<1>5. Claims'
  BY CallsAssumption DEF CallsAssumption, Core, TypeOK, Claims, endVars,
      Settle, EndOr, readerRest, WorkerStops, Ends
<1>6. Orphans'
  BY CallsAssumption DEF CallsAssumption, Core, TypeOK, Orphans, endVars,
      Settle, Entries, Dead, EndOr, readerRest, WorkerStops, Ends
<1>7. NobodyForgotten'
  BY CallsAssumption DEF CallsAssumption, Core, TypeOK, NobodyForgotten,
      endVars, Settle, Entries, EndOr, readerRest, WorkerStops, Ends
<1>8. PlacesComeBack'
  BY CallsAssumption DEF CallsAssumption, Core, TypeOK, PlacesComeBack,
      endVars, Settle, EndOr, readerRest, WorkerStops, Ends
<1>9. FailureNamesTheEnd'
  BY CallsAssumption DEF CallsAssumption, Core, TypeOK, FailureNamesTheEnd,
      endVars, Settle, EndOr, readerRest, WorkerStops, Ends
<1>10. AnsweredOrCancelled'
  BY CallsAssumption DEF CallsAssumption, Core, TypeOK, AnsweredOrCancelled,
      endVars, Began, Settle, EndOr, readerRest, WorkerStops, Ends
<1> QED
  BY <1>1, <1>2, <1>3, <1>4, <1>5, <1>6, <1>7, <1>8, <1>9, <1>10 DEF Core

LEMMA PumpEndsKeepsCore ==
    ASSUME CallsAssumption, Core, PumpEnds
    PROVE  Core'
<1>1. Stages' /\ Frame' /\ Orphans' /\ PlacesComeBack' /\ AnsweredOrCancelled'
  BY DEF Core, Stages, Frame, Orphans, PlacesComeBack, AnsweredOrCancelled,
      Direct, Began, Entries, Dead, Recorded, endRest, PumpEnds
<1>2. TypeOK'
  BY CallsAssumption DEF CallsAssumption, Core, TypeOK, Recorded,
      endRest, PumpEnds, Ends
<1>3. Hands'
  BY CallsAssumption DEF CallsAssumption, Core, TypeOK, Hands,       Recorded, endRest, PumpEnds, Ends, InHand
<1>4. Claims'
  BY CallsAssumption DEF CallsAssumption, Core, TypeOK, Claims,       Recorded, endRest, PumpEnds, Ends
<1>5. Ending'
  BY CallsAssumption DEF CallsAssumption, Core, TypeOK, Ending,       Recorded, endRest, PumpEnds, Ends
<1>6. NobodyForgotten'
  BY CallsAssumption DEF CallsAssumption, Core, TypeOK, NobodyForgotten,
      Entries, Recorded, endRest, PumpEnds, Ends
<1>7. FailureNamesTheEnd'
  BY CallsAssumption DEF CallsAssumption, Core, TypeOK, FailureNamesTheEnd,
      Recorded, endRest, PumpEnds, Ends
<1> QED
  BY <1>1, <1>2, <1>3, <1>4, <1>5, <1>6, <1>7 DEF Core

LEMMA PumpSealsKeepsCore ==
    ASSUME CallsAssumption, Core, PumpSeals
    PROVE  Core'
<1>1. Stages' /\ Frame' /\ Orphans' /\ PlacesComeBack' /\ FailureNamesTheEnd'
    /\ AnsweredOrCancelled'
  BY DEF Core, Stages, Frame, Orphans, PlacesComeBack, FailureNamesTheEnd,
      AnsweredOrCancelled, Direct, Began, Entries, Dead, endRest,
      PumpSeals, Ends
<1>2. TypeOK'
  BY CallsAssumption DEF CallsAssumption, Core, TypeOK, endRest,
      PumpSeals, Ends
<1>3. Hands'
  BY CallsAssumption DEF CallsAssumption, Core, TypeOK, Hands,       endRest, PumpSeals, Ends, InHand
<1>4. Claims'
  BY CallsAssumption DEF CallsAssumption, Core, TypeOK, Claims,       endRest, PumpSeals, Ends
<1>5. Ending'
  BY CallsAssumption DEF CallsAssumption, Core, TypeOK, Ending,       endRest, PumpSeals, Ends
<1>6. NobodyForgotten'
  BY CallsAssumption DEF CallsAssumption, Core, TypeOK, NobodyForgotten,
      Entries, endRest, PumpSeals, Ends
<1> QED
  BY <1>1, <1>2, <1>3, <1>4, <1>5, <1>6 DEF Core

LEMMA PumpClosesKeepsCore ==
    ASSUME CallsAssumption, Core, PumpCloses
    PROVE  Core'
<1>1. Stages' /\ Frame' /\ Orphans' /\ PlacesComeBack' /\ FailureNamesTheEnd'
    /\ AnsweredOrCancelled'
  BY DEF Core, Stages, Frame, Orphans, PlacesComeBack, FailureNamesTheEnd,
      AnsweredOrCancelled, Direct, Began, Entries, Dead, endRest,
      PumpCloses, Ends
<1>2. TypeOK'
  BY CallsAssumption DEF CallsAssumption, Core, TypeOK, endRest,
      PumpCloses, Ends
<1>3. Hands'
  BY CallsAssumption DEF CallsAssumption, Core, TypeOK, Hands,       endRest, PumpCloses, Ends, InHand
<1>4. Claims'
  BY CallsAssumption DEF CallsAssumption, Core, TypeOK, Claims,       endRest, PumpCloses, Ends
<1>5. Ending'
  BY CallsAssumption DEF CallsAssumption, Core, TypeOK, Ending,       endRest, PumpCloses, Ends
<1>6. NobodyForgotten'
  BY CallsAssumption DEF CallsAssumption, Core, TypeOK, NobodyForgotten,
      Entries, endRest, PumpCloses, Ends
<1> QED
  BY <1>1, <1>2, <1>3, <1>4, <1>5, <1>6 DEF Core

LEMMA PumpFailsUnorderedKeepsCore ==
    ASSUME CallsAssumption, Core, PumpFailsUnordered
    PROVE  Core'
<1>1. Frame'
  BY DEF Core, Frame, endVars, Settle, Entries, endRest,
      PumpFailsUnordered
<1>2. TypeOK'
  BY CallsAssumption DEF CallsAssumption, Core, TypeOK, endVars,       Settle, Entries, endRest, PumpFailsUnordered, Ends
<1>3. Hands'
  BY CallsAssumption DEF CallsAssumption, Core, TypeOK, Hands, endVars,
      Settle, Entries, endRest, PumpFailsUnordered, Ends, InHand
<1>4. Stages'
  BY CallsAssumption DEF CallsAssumption, Core, TypeOK, Stages, endVars,
      Direct, Settle, Entries, endRest, PumpFailsUnordered, Ends
<1>5. Claims'
  BY CallsAssumption DEF CallsAssumption, Core, TypeOK, Ending, Claims,
      endVars, Settle, Entries, endRest, PumpFailsUnordered, Ends
<1>6. Ending'
  BY CallsAssumption DEF CallsAssumption, Core, TypeOK, Ending, endVars,
      Settle, Entries, endRest, PumpFailsUnordered, Ends
<1>7. Orphans'
  BY CallsAssumption DEF CallsAssumption, Core, TypeOK, Orphans, endVars,
      Settle, Entries, Dead, endRest, PumpFailsUnordered, Ends
<1>8. NobodyForgotten'
  BY CallsAssumption DEF CallsAssumption, Core, TypeOK, NobodyForgotten,
      endVars, Settle, Entries, endRest, PumpFailsUnordered, Ends
<1>9. PlacesComeBack'
  BY CallsAssumption DEF CallsAssumption, Core, TypeOK, PlacesComeBack,
      endVars, Settle, Entries, endRest, PumpFailsUnordered, Ends
<1>10. FailureNamesTheEnd'
  BY CallsAssumption DEF CallsAssumption, Core, TypeOK, FailureNamesTheEnd,
      endVars, Settle, Entries, endRest, PumpFailsUnordered, Ends
<1>11. AnsweredOrCancelled'
  BY CallsAssumption DEF CallsAssumption, Core, TypeOK, AnsweredOrCancelled,
      endVars, Began, Settle, Entries, endRest, PumpFailsUnordered,
      Ends
<1> QED
  BY <1>1, <1>2, <1>3, <1>4, <1>5, <1>6, <1>7, <1>8, <1>9, <1>10, <1>11 DEF
      Core

LEMMA PumpFailsKeepsCore ==
    ASSUME CallsAssumption, Core, PumpFails
    PROVE  Core'
<1>1. Frame'
  BY DEF Core, Frame, endVars, Settle, Entries, endRest, LeftOver,
      PumpFails
<1>2. TypeOK'
  BY CallsAssumption DEF CallsAssumption, Core, TypeOK, endVars,       Settle, Entries, endRest, LeftOver, PumpFails, Ends
<1>3. Hands'
  BY CallsAssumption DEF CallsAssumption, Core, TypeOK, Hands, endVars,
      Settle, Entries, endRest, LeftOver, PumpFails, Ends, InHand
<1>4. Stages'
  BY CallsAssumption DEF CallsAssumption, Core, TypeOK, Stages, endVars,
      Direct, Settle, Entries, endRest, LeftOver, PumpFails, Ends
<1>5. Claims'
  BY CallsAssumption DEF CallsAssumption, Core, TypeOK, Ending, Claims,
      endVars, Settle, Entries, endRest, LeftOver, PumpFails, Ends
<1>6. Ending'
  BY CallsAssumption DEF CallsAssumption, Core, TypeOK, Hands, Ending,
      endVars, Settle, Entries, endRest, LeftOver, PumpFails, Ends,
      InHand
<1>7. Orphans'
  BY CallsAssumption DEF CallsAssumption, Core, TypeOK, Orphans, endVars,
      Settle, Entries, Dead, endRest, LeftOver, PumpFails, Ends
<1>8. NobodyForgotten'
  BY CallsAssumption DEF CallsAssumption, Core, TypeOK, NobodyForgotten,
      endVars, Settle, Entries, endRest, LeftOver, PumpFails, Ends
<1>9. PlacesComeBack'
  BY CallsAssumption DEF CallsAssumption, Core, TypeOK, PlacesComeBack,
      endVars, Settle, Entries, endRest, LeftOver, PumpFails, Ends
<1>10. FailureNamesTheEnd'
  BY CallsAssumption DEF CallsAssumption, Core, TypeOK, FailureNamesTheEnd,
      endVars, Settle, Entries, endRest, LeftOver, PumpFails, Ends
<1>11. AnsweredOrCancelled'
  BY CallsAssumption DEF CallsAssumption, Core, TypeOK, AnsweredOrCancelled,
      endVars, Began, Settle, Entries, endRest, LeftOver, PumpFails,
      Ends
<1> QED
  BY <1>1, <1>2, <1>3, <1>4, <1>5, <1>6, <1>7, <1>8, <1>9, <1>10, <1>11 DEF
      Core

LEMMA PumpStopsKeepsCore ==
    ASSUME CallsAssumption, Core, PumpStops
    PROVE  Core'
<1>1. Stages' /\ Frame' /\ Orphans' /\ PlacesComeBack' /\ FailureNamesTheEnd'
    /\ AnsweredOrCancelled'
  BY DEF Core, Stages, Frame, Orphans, PlacesComeBack, FailureNamesTheEnd,
      AnsweredOrCancelled, endVars, Direct, Began, Entries, Dead,
      endRest, PumpStops, Ends
<1>2. TypeOK'
  BY CallsAssumption DEF CallsAssumption, Core, TypeOK, endVars,       endRest, PumpStops, Ends
<1>3. Hands'
  BY CallsAssumption DEF CallsAssumption, Core, TypeOK, Hands, endVars,
      endRest, PumpStops, Ends, InHand
<1>4. Claims'
  BY CallsAssumption DEF CallsAssumption, Core, TypeOK, Claims, endVars,
      endRest, PumpStops, Ends
<1>5. Ending'
  BY CallsAssumption DEF CallsAssumption, Core, TypeOK, Ending, endVars,
      endRest, PumpStops, Ends
<1>6. NobodyForgotten'
  BY CallsAssumption DEF CallsAssumption, Core, TypeOK, Hands,
      NobodyForgotten, endVars, Entries, endRest, PumpStops, Ends,
      InHand
<1> QED
  BY <1>1, <1>2, <1>3, <1>4, <1>5, <1>6 DEF Core

LEMMA CloseBeginsKeepsCore ==
    ASSUME CallsAssumption, Core, CloseBegins
    PROVE  Core'
<1>1. Hands' /\ Stages' /\ Frame' /\ Claims' /\ PlacesComeBack' /\
    AnsweredOrCancelled'
  BY DEF Core, Hands, Stages, Frame, Claims, PlacesComeBack,
      AnsweredOrCancelled, Direct, Began, Recorded, endRest,
      closerRest, CloseBegins, InHand
<1>2. TypeOK'
  <2>1. dropped' \in BOOLEAN /\ givenUp' \in BOOLEAN
    BY DEF CloseBegins
  <2>2. ended' \in Ends \cup {"none"} /\ closer' = "recorded"
    BY DEF Core, TypeOK, CloseBegins, Recorded, Ends
  <2>3. UNCHANGED <<callVars, writer, writing, pump, matched, worker, poisoned, sealed, closed,
                    cancels, heard>>
    BY DEF CloseBegins, closerRest, endRest, callVars
  <2>4. /\ sealed' \in BOOLEAN /\ closed' \in BOOLEAN
        /\ poisoned' \in BOOLEAN
    BY <2>3 DEF Core, TypeOK
  <2> QED
    BY <2>1, <2>2, <2>3, <2>4 DEF Core, TypeOK, callVars
<1>3. Ending'
  BY CallsAssumption DEF CallsAssumption, Core, TypeOK, Ending,       Direct, Recorded, endRest, closerRest, CloseBegins, Ends
<1>4. Orphans'
  BY CallsAssumption DEF CallsAssumption, Core, TypeOK, Orphans,       Direct, Entries, Dead, Recorded, endRest, closerRest, CloseBegins, Ends
<1>5. NobodyForgotten'
  BY CallsAssumption DEF CallsAssumption, Core, TypeOK, NobodyForgotten,
      Direct, Entries, Recorded, endRest, closerRest, CloseBegins,
      Ends
<1>6. FailureNamesTheEnd'
  BY CallsAssumption DEF CallsAssumption, Core, TypeOK, FailureNamesTheEnd,
      Direct, Recorded, endRest, closerRest, CloseBegins, Ends
<1> QED
  BY <1>1, <1>2, <1>3, <1>4, <1>5, <1>6 DEF Core

LEMMA CloseSealsKeepsCore ==
    ASSUME CallsAssumption, Core, CloseSeals
    PROVE  Core'
<1>1. Hands' /\ Stages' /\ Frame' /\ Claims' /\ PlacesComeBack' /\
    FailureNamesTheEnd' /\ AnsweredOrCancelled'
  BY DEF Core, Hands, Stages, Frame, Claims, PlacesComeBack,
      FailureNamesTheEnd, AnsweredOrCancelled, Direct, Began,
      endRest, closerRest, CloseSeals, Ends, InHand
<1>2. TypeOK'
  BY CallsAssumption DEF CallsAssumption, Core, TypeOK, endRest,
      closerRest, CloseSeals, Ends
<1>3. Ending'
  BY CallsAssumption DEF CallsAssumption, Core, TypeOK, Ending,       endRest, closerRest, CloseSeals, Ends
<1>4. Orphans'
  BY CallsAssumption DEF CallsAssumption, Core, TypeOK, Orphans,       Entries, Dead, endRest, closerRest, CloseSeals, Ends
<1>5. NobodyForgotten'
  BY CallsAssumption DEF CallsAssumption, Core, TypeOK, NobodyForgotten,
      Entries, endRest, closerRest, CloseSeals, Ends
<1> QED
  BY <1>1, <1>2, <1>3, <1>4, <1>5 DEF Core

LEMMA CloseMarksKeepsCore ==
    ASSUME CallsAssumption, Core, CloseMarks
    PROVE  Core'
<1>1. Hands' /\ Stages' /\ Frame' /\ PlacesComeBack' /\ FailureNamesTheEnd' /\
    AnsweredOrCancelled'
  BY DEF Core, Hands, Stages, Frame, PlacesComeBack, FailureNamesTheEnd,
      AnsweredOrCancelled, Direct, Began, endRest, closerRest,
      CloseMarks, Ends, InHand
<1>2. TypeOK'
  BY CallsAssumption DEF CallsAssumption, Core, TypeOK, endRest,
      closerRest, CloseMarks, Ends
<1>3. Claims'
  BY CallsAssumption DEF CallsAssumption, Core, TypeOK, Claims,       endRest, closerRest, CloseMarks, Ends
<1>4. Ending'
  BY CallsAssumption DEF CallsAssumption, Core, TypeOK, Ending,       endRest, closerRest, CloseMarks, Ends
<1>5. Orphans'
  BY CallsAssumption DEF CallsAssumption, Core, TypeOK, Orphans,       Entries, Dead, endRest, closerRest, CloseMarks, Ends
<1>6. NobodyForgotten'
  BY CallsAssumption DEF CallsAssumption, Core, TypeOK, NobodyForgotten,
      Entries, endRest, closerRest, CloseMarks, Ends
<1> QED
  BY <1>1, <1>2, <1>3, <1>4, <1>5, <1>6 DEF Core

LEMMA CloseFailsKeepsCore ==
    ASSUME CallsAssumption, Core, CloseFails
    PROVE  Core'
<1>1. Frame'
  BY DEF Core, Frame, Settle, Entries, endRest, closerRest,
      CloseFails
<1>2. TypeOK'
  BY CallsAssumption DEF CallsAssumption, Core, TypeOK, Settle,
      Entries, endRest, closerRest, CloseFails, Ends
<1>3. Hands'
  BY CallsAssumption DEF CallsAssumption, Core, TypeOK, Hands,       Settle, Entries, endRest, closerRest, CloseFails, Ends, InHand
<1>4. Stages'
  BY CallsAssumption DEF CallsAssumption, Core, TypeOK, Stages,       Direct, Settle, Entries, endRest, closerRest, CloseFails, Ends
<1>5. Claims'
  BY CallsAssumption DEF CallsAssumption, Core, TypeOK, Ending, Claims,
      Settle, Entries, endRest, closerRest, CloseFails, Ends
<1>6. Ending'
  BY CallsAssumption DEF CallsAssumption, Core, TypeOK, Ending,       Settle, Entries, endRest, closerRest, CloseFails, Ends
<1>7. Orphans'
  BY CallsAssumption DEF CallsAssumption, Core, TypeOK, Orphans,       Settle, Entries, Dead, endRest, closerRest, CloseFails, Ends
<1>8. NobodyForgotten'
  BY CallsAssumption DEF CallsAssumption, Core, TypeOK, NobodyForgotten,
      Settle, Entries, endRest, closerRest, CloseFails, Ends
<1>9. PlacesComeBack'
  BY CallsAssumption DEF CallsAssumption, Core, TypeOK, PlacesComeBack,
      Settle, Entries, endRest, closerRest, CloseFails, Ends
<1>10. FailureNamesTheEnd'
  BY CallsAssumption DEF CallsAssumption, Core, TypeOK, FailureNamesTheEnd,
      Settle, Entries, endRest, closerRest, CloseFails, Ends
<1>11. AnsweredOrCancelled'
  BY CallsAssumption DEF CallsAssumption, Core, TypeOK, AnsweredOrCancelled,
      Began, Settle, Entries, endRest, closerRest, CloseFails, Ends
<1> QED
  BY <1>1, <1>2, <1>3, <1>4, <1>5, <1>6, <1>7, <1>8, <1>9, <1>10, <1>11 DEF
      Core

LEMMA CloseGivenUpKeepsCore ==
    ASSUME CallsAssumption, Core, CloseGivenUp
    PROVE  Core'
<1>1. Hands' /\ Stages' /\ Frame' /\ Claims' /\ PlacesComeBack' /\
    FailureNamesTheEnd' /\ AnsweredOrCancelled'
  BY DEF Core, Hands, Stages, Frame, Claims, PlacesComeBack,
      FailureNamesTheEnd, AnsweredOrCancelled, Direct, Began, CloseGivenUp,
      Ends, InHand
<1>2. TypeOK'
  BY CallsAssumption DEF CallsAssumption, Core, TypeOK, CloseGivenUp, Ends
<1>3. Ending'
  BY CallsAssumption DEF CallsAssumption, Core, TypeOK, Ending, CloseGivenUp,
      Ends
<1>4. Orphans'
  BY CallsAssumption DEF CallsAssumption, Core, TypeOK, Ending, Claims,
      Orphans, Entries, Dead, CloseGivenUp, Ends
<1>5. NobodyForgotten'
  BY CallsAssumption DEF CallsAssumption, Core, TypeOK, NobodyForgotten,
      Entries, CloseGivenUp, Ends
<1> QED
  BY <1>1, <1>2, <1>3, <1>4, <1>5 DEF Core

LEMMA WriterAbortedKeepsCore ==
    ASSUME CallsAssumption, Core, WriterAborted
    PROVE  Core'
<1>1. TypeOK'
  BY CallsAssumption DEF CallsAssumption, Core, TypeOK, endVars,
      WriterAborted, Ends
<1>2. Hands'
  BY CallsAssumption DEF CallsAssumption, Core, TypeOK, Hands, endVars,
      WriterAborted, Ends, InHand
<1>3. Stages'
  BY CallsAssumption DEF CallsAssumption, Core, TypeOK, Stages, endVars,
      Direct, WriterAborted, Ends
<1>4. Frame'
  BY CallsAssumption DEF CallsAssumption, Core, TypeOK, Frame, endVars,
      WriterAborted, Ends
<1>5. Claims'
  BY CallsAssumption DEF CallsAssumption, Core, TypeOK, Hands, Stages, Claims,
      endVars, Direct, WriterAborted, Ends, InHand
<1>6. Ending'
  BY CallsAssumption DEF CallsAssumption, Core, TypeOK, Ending, endVars,
      WriterAborted, Ends
<1>7. Orphans'
  BY CallsAssumption DEF CallsAssumption, Core, TypeOK, Hands, Stages, Ending,
      NobodyForgotten, Orphans, endVars, Direct, Entries, Dead, WriterAborted,
      Ends, InHand
<1>8. NobodyForgotten'
  BY CallsAssumption DEF CallsAssumption, Core, TypeOK, NobodyForgotten,
      endVars, Entries, WriterAborted, Ends
<1>9. PlacesComeBack'
  BY CallsAssumption DEF CallsAssumption, Core, TypeOK, PlacesComeBack,
      endVars, WriterAborted, Ends
<1>10. FailureNamesTheEnd'
  BY CallsAssumption DEF CallsAssumption, Core, TypeOK, FailureNamesTheEnd,
      endVars, WriterAborted, Ends
<1>11. AnsweredOrCancelled'
  BY CallsAssumption DEF CallsAssumption, Core, TypeOK, AnsweredOrCancelled,
      endVars, Began, WriterAborted, Ends
<1> QED
  BY <1>1, <1>2, <1>3, <1>4, <1>5, <1>6, <1>7, <1>8, <1>9, <1>10, <1>11 DEF
      Core

-----------------------------------------------------------------------------
(* The budget.                                                             *)

\* The calls that count: those waited for and counted.
Live == (Entries \ Dead) \cap Counted

\* A step that enters nobody among those awaiting an answer, and brings nobody
\* who stopped waiting back.
EntersNobody ==
    \A x \in Calls : /\ holder'[x] = "map" => holder[x] = "map"
                     /\ caller[x] = "done" => caller'[x] = "done"

LEMMA LiveIsFinite ==
    ASSUME CallsAssumption
    PROVE  /\ IsFiniteSet(Live) /\ IsFiniteSet(Live')
           /\ Cardinality(Live) \in Nat /\ Cardinality(Live') \in Nat
<1>1. Live \subseteq Calls /\ Live' \subseteq Calls
  BY DEF Live, Entries
<1>2. IsFiniteSet(Live) /\ IsFiniteSet(Live')
  BY <1>1, CallsAssumption, FS_Subset DEF CallsAssumption
<1> QED
  BY <1>2, FS_CardinalityType

LEMMA NoNewEntry ==
    ASSUME CallsAssumption, PendingBounded, EntersNobody
    PROVE  PendingBounded'
<1>1. Live' \subseteq Live
  BY DEF Live, Entries, Dead, EntersNobody
<1>2. Cardinality(Live') <= Cardinality(Live)
  BY <1>1, LiveIsFinite, FS_Subset
<1>3. MaxPendingRequests \in Nat
  BY DEF CallsAssumption
<1> QED
  BY <1>2, <1>3, LiveIsFinite DEF PendingBounded, Live

LEMMA OneMoreEntry ==
    ASSUME CallsAssumption, PendingBounded, NEW c \in Calls, HasRoom(c),
           \A x \in Calls : x # c => /\ holder'[x] = "map" => holder[x] = "map"
                                     /\ caller[x] = "done" => caller'[x] = "done"
    PROVE  PendingBounded'
<1>1. MaxPendingRequests \in Nat
  BY DEF CallsAssumption
<1>2. CASE c \in Counted
  <2>1. ASSUME NEW x \in Live', x # c PROVE x \in Live
    BY <2>1 DEF Live, Entries, Dead
  <2>2. Cardinality(Live) < MaxPendingRequests
    BY <1>2 DEF HasRoom, Live
  <2>3. /\ IsFiniteSet(Live \cup {c})
        /\ Cardinality(Live \cup {c}) <= Cardinality(Live) + 1
    <3>1. /\ IsFiniteSet(Live \cup {c})
          /\ \/ Cardinality(Live \cup {c}) = Cardinality(Live)
             \/ Cardinality(Live \cup {c}) = Cardinality(Live) + 1
      BY LiveIsFinite, FS_AddElement
    <3> QED
      BY <3>1, LiveIsFinite
  <2>4. Cardinality(Live') <= Cardinality(Live \cup {c})
    BY <2>1, <2>3, FS_Subset
  <2>5. Cardinality(Live \cup {c}) \in Nat
    BY <2>3, FS_CardinalityType
  <2> QED
    BY <1>1, <2>2, <2>3, <2>4, <2>5, LiveIsFinite DEF PendingBounded, Live
<1>3. CASE c \notin Counted
  <2>1. Live' \subseteq Live
    BY <1>3 DEF Live, Entries, Dead
  <2>2. Cardinality(Live') <= Cardinality(Live)
    BY <2>1, LiveIsFinite, FS_Subset
  <2> QED
    BY <1>1, <2>2, LiveIsFinite DEF PendingBounded, Live
<1> QED
  BY <1>2, <1>3

LEMMA PendingStep ==
    ASSUME CallsAssumption, Core, PendingBounded, [Next]_vars
    PROVE  PendingBounded'
<1>1. ASSUME NEW c \in Calls, Enter(c) PROVE PendingBounded'
  <2>2. CASE HasRoom(c) /\ Insert(c) /\ Move(c, "writing")
    <3>1. \A x \in Calls : x # c => /\ holder'[x] = "map" => holder[x] = "map"
                                    /\ caller[x] = "done" => caller'[x] = "done"
      BY <2>2 DEF Core, TypeOK, Insert, Move
    <3> QED
      BY <2>2, <3>1, OneMoreEntry
  <2>3. CASE Move(c, "done") /\ (UNCHANGED holder \/ Prune)
    <3>1. EntersNobody
      BY <2>3 DEF Core, TypeOK, EntersNobody, Move, Prune
    <3> QED
      BY <3>1, NoNewEntry
  <2> QED
    BY <1>1, <2>2, <2>3 DEF Enter
<1>2. ASSUME Register PROVE PendingBounded'
  <2> DEFINE c == writing
  <2>1. c \in Calls /\ caller' = caller
    BY <1>2 DEF Core, Hands, InHand, Register, Writer, writerRest
  <2>2. CASE HasRoom(c) /\ Insert(c)
    <3>1. \A x \in Calls : x # c => /\ holder'[x] = "map" => holder[x] = "map"
                                    /\ caller[x] = "done" => caller'[x] = "done"
      BY <2>1, <2>2 DEF Insert
    <3> HIDE DEF c
    <3> QED
      BY <2>1, <2>2, <3>1, OneMoreEntry
  <2>3. CASE ~(HasRoom(c) /\ Insert(c))
    <3>1. EntersNobody
      BY <1>2, <2>1, <2>3 DEF EntersNobody, Register, Settle
    <3> QED
      BY <3>1, NoNewEntry
  <2> QED
    BY <2>2, <2>3
<1>3. ASSUME NEW c \in Calls, Ask(c) PROVE EntersNobody
  BY <1>3 DEF Core, TypeOK, EntersNobody, endVars, Move, Ask
<1>4. ASSUME NEW c \in Calls, TakeLink(c) PROVE EntersNobody
  BY <1>4 DEF Core, TypeOK, EntersNobody, endVars, Direct, Phase, TakeLink
<1>5. ASSUME NEW c \in Calls, WriteRefused(c) PROVE EntersNobody
  BY <1>5 DEF Core, TypeOK, EntersNobody, endVars, Direct, Move, WriteRefused
<1>6. ASSUME NEW c \in Calls, Written(c) PROVE EntersNobody
  BY <1>6 DEF Core, TypeOK, EntersNobody, endVars, Direct, Move, Phase,
      Written
<1>7. ASSUME NEW c \in Calls, WriteFails(c) PROVE EntersNobody
  BY <1>7 DEF Core, TypeOK, EntersNobody, endVars, Direct, Move, Phase,
      WriteFails
<1>8. ASSUME NEW c \in Calls, ReturnFailure(c) PROVE EntersNobody
  BY <1>8 DEF Core, TypeOK, EntersNobody, endVars, LetGo, Move, ReturnFailure
<1>9. ASSUME NEW c \in Calls, Queue(c) PROVE EntersNobody
  BY <1>9 DEF Core, TypeOK, EntersNobody, endVars, Move, Phase, Queue
<1>10. ASSUME NEW c \in Calls, Overflow(c) PROVE EntersNobody
  BY <1>10 DEF Core, TypeOK, EntersNobody, Move, Overflow
<1>11. ASSUME NEW c \in Calls, Hear(c) PROVE EntersNobody
  BY <1>11 DEF Core, TypeOK, EntersNobody, endVars, Direct, Move, Leave, Hear
<1>12. ASSUME NEW c \in Calls, GiveUp(c) PROVE EntersNobody
  BY <1>12 DEF Core, TypeOK, EntersNobody, endVars, Direct, Move, Leave,
      GiveUp
<1>13. ASSUME NEW c \in Calls, GiveUpEntering(c) PROVE EntersNobody
  BY <1>13 DEF Core, TypeOK, EntersNobody, endVars, Direct, Move,
      GiveUpEntering
<1>14. ASSUME NEW c \in Calls, CleanUp(c) PROVE EntersNobody
  BY <1>14 DEF Core, TypeOK, EntersNobody, endVars, LetGo, TakeOut, CleanUp
<1>15. ASSUME NEW c \in Calls, TakeFrame(c) PROVE EntersNobody
  BY <1>15 DEF Core, TypeOK, EntersNobody, endVars, LetGo, writerRest, Writer,
      TakeFrame
<1>16. ASSUME NEW c \in Calls, Match(c) PROVE EntersNobody
  BY <1>16 DEF Core, TypeOK, EntersNobody, endVars, readerRest, Match
<1>17. ASSUME NEW c \in Calls, DeliverQueued(c) PROVE EntersNobody
  BY <1>17 DEF Core, TypeOK, EntersNobody, endVars, Settle, readerRest,
      DeliverQueued
<1>18. ASSUME Begin PROVE EntersNobody
  BY <1>18 DEF Core, TypeOK, EntersNobody, endVars, Phase, writerRest, Writer,
      Begin
<1>19. ASSUME NotBegun PROVE EntersNobody
  BY <1>19 DEF Core, TypeOK, EntersNobody, endVars, writerRest, Writer,
      NotBegun
<1>20. ASSUME Sent PROVE EntersNobody
  BY <1>20 DEF Core, TypeOK, EntersNobody, endVars, Phase, writerRest, Writer,
      Sent
<1>21. ASSUME SendFails PROVE EntersNobody
  BY <1>21 DEF Core, TypeOK, EntersNobody, endVars, Phase, writerRest, Writer,
      SendFails
<1>22. ASSUME TakeClaim PROVE EntersNobody
  BY <1>22 DEF Core, TypeOK, EntersNobody, endVars, writerRest, Writer,
      TakeClaim
<1>23. ASSUME FailUnwritten PROVE EntersNobody
  BY <1>23 DEF Core, TypeOK, EntersNobody, endVars, Settle, writerRest,
      Writer, FailUnwritten
<1>24. ASSUME Claim PROVE EntersNobody
  BY <1>24 DEF Core, TypeOK, EntersNobody, endVars, LetGo, readerRest, Claim
<1>25. ASSUME Deliver PROVE EntersNobody
  BY <1>25 DEF Core, TypeOK, EntersNobody, endVars, Settle, readerRest,
      Deliver
<1>26. ASSUME WorkerStops PROVE EntersNobody
  BY <1>26 DEF Core, TypeOK, EntersNobody, endVars, Settle, readerRest,
      WorkerStops
<1>27. ASSUME PumpEnds PROVE EntersNobody
  BY <1>27 DEF Core, TypeOK, EntersNobody, endRest, PumpEnds
<1>28. ASSUME PumpSeals PROVE EntersNobody
  BY <1>28 DEF Core, TypeOK, EntersNobody, endRest, PumpSeals
<1>29. ASSUME PumpCloses PROVE EntersNobody
  BY <1>29 DEF Core, TypeOK, EntersNobody, endRest, PumpCloses
<1>30. ASSUME PumpFailsUnordered PROVE EntersNobody
  BY <1>30 DEF Core, TypeOK, EntersNobody, endVars, Settle, Entries, endRest,
      PumpFailsUnordered
<1>31. ASSUME PumpFails PROVE EntersNobody
  BY <1>31 DEF Core, TypeOK, EntersNobody, endVars, Settle, Entries, endRest,
      LeftOver, PumpFails
<1>32. ASSUME PumpStops PROVE EntersNobody
  BY <1>32 DEF Core, TypeOK, EntersNobody, endVars, endRest, PumpStops
<1>33. ASSUME CloseBegins PROVE EntersNobody
  BY <1>33 DEF Core, TypeOK, EntersNobody, Direct, endRest, closerRest,
      CloseBegins
<1>34. ASSUME CloseSeals PROVE EntersNobody
  BY <1>34 DEF Core, TypeOK, EntersNobody, endRest, closerRest, CloseSeals
<1>35. ASSUME CloseMarks PROVE EntersNobody
  BY <1>35 DEF Core, TypeOK, EntersNobody, endRest, closerRest, CloseMarks
<1>36. ASSUME CloseFails PROVE EntersNobody
  BY <1>36 DEF Core, TypeOK, EntersNobody, Settle, Entries, endRest,
      closerRest, CloseFails
<1>37. ASSUME CloseGivenUp PROVE EntersNobody
  BY <1>37 DEF Core, TypeOK, EntersNobody, CloseGivenUp
<1>38. ASSUME WriterAborted PROVE EntersNobody
  BY <1>38 DEF Core, TypeOK, EntersNobody, endVars, WriterAborted
<1>39. ASSUME UNCHANGED vars PROVE EntersNobody
  BY <1>39 DEF EntersNobody, vars, callVars
<1> QED
  BY <1>1, <1>2, <1>3, <1>4, <1>5, <1>6, <1>7, <1>8, <1>9, <1>10, <1>11,
      <1>12, <1>13, <1>14, <1>15, <1>16, <1>17, <1>18, <1>19, <1>20, <1>21,
      <1>22, <1>23, <1>24, <1>25, <1>26, <1>27, <1>28, <1>29, <1>30, <1>31,
      <1>32, <1>33, <1>34, <1>35, <1>36, <1>37, <1>38, <1>39, NoNewEntry DEF
      Next, CallerActs, WriterActs, PumpActs, CloserActs

-----------------------------------------------------------------------------
(* Every step, and the behaviours.                                         *)

LEMMA CoreStep == ASSUME CallsAssumption, Core, [Next]_vars PROVE Core'
<1>1. ASSUME NEW c \in Calls,
             Ask(c) \/ CallerActs(c) \/ GiveUp(c) \/ GiveUpEntering(c) \/ CleanUp(c)
               \/ TakeFrame(c) \/ Match(c) \/ DeliverQueued(c)
      PROVE  Core'
  BY <1>1, AskKeepsCore, EnterKeepsCore, TakeLinkKeepsCore,
      WriteRefusedKeepsCore, WrittenKeepsCore, WriteFailsKeepsCore,
      ReturnFailureKeepsCore, QueueKeepsCore, OverflowKeepsCore,
      HearKeepsCore, GiveUpKeepsCore, GiveUpEnteringKeepsCore,
      CleanUpKeepsCore, TakeFrameKeepsCore, MatchKeepsCore,
      DeliverQueuedKeepsCore DEF CallerActs
<1>2. CASE Register \/ Begin \/ NotBegun \/ Sent \/ SendFails \/ TakeClaim \/ FailUnwritten
  BY <1>2, RegisterKeepsCore, BeginKeepsCore, NotBegunKeepsCore,
      SentKeepsCore, SendFailsKeepsCore, TakeClaimKeepsCore,
      FailUnwrittenKeepsCore
<1>3. CASE Claim \/ Deliver \/ WorkerStops \/ PumpEnds \/ PumpActs
  BY <1>3, ClaimKeepsCore, DeliverKeepsCore, WorkerStopsKeepsCore,
      PumpEndsKeepsCore, PumpSealsKeepsCore, PumpClosesKeepsCore,
      PumpFailsUnorderedKeepsCore, PumpFailsKeepsCore, PumpStopsKeepsCore DEF
      PumpActs
<1>4. CASE CloseBegins \/ CloserActs \/ CloseGivenUp \/ WriterAborted
  BY <1>4, CloseBeginsKeepsCore, CloseSealsKeepsCore, CloseMarksKeepsCore,
      CloseFailsKeepsCore, CloseGivenUpKeepsCore, WriterAbortedKeepsCore DEF
      CloserActs
<1>5. CASE UNCHANGED vars
  BY <1>5, CoreStutters
<1> QED
  BY <1>1, <1>2, <1>3, <1>4, <1>5 DEF Next, WriterActs

LEMMA Invariance == Spec => []Inv
<1>1. Init => Inv
  <2> SUFFICES ASSUME Init PROVE Inv
    OBVIOUS
  <2>1. (Entries \ Dead) \cap Counted = {}
    BY DEF Init, Entries
  <2> QED
    BY <2>1, CoreInit, CallsAssumption, FS_EmptySet
       DEF Inv, PendingBounded, CallsAssumption
<1>2. Inv /\ [Next]_vars => Inv'
  BY CoreStep, PendingStep, CallsAssumption DEF Inv
<1> QED
  BY <1>1, <1>2, PTL DEF Spec

-----------------------------------------------------------------------------
(* The client implements CallContract.                                     *)

\* Who heard what became of his call has nobody left to settle it, and what is answered
\* was on the wire.
Finality ==
    \A c \in Calls :
        /\ c \in heard => holder[c] = "gone"
        /\ holder[c] \in {"reader", "queue"} => Began(c)

\* A sending end that is gone stays so, and a frame once begun was begun.
LEMMA GoneStays ==
    ASSUME CallsAssumption, Core, [Next]_vars, NEW c \in Calls
    PROVE  /\ holder[c] = "gone" => holder'[c] = "gone"
           /\ Began(c) => Began(c)'
<1>. USE DEF Core, TypeOK, Stages, Hands, Frame, InHand, Began, CallsAssumption
<1>1. ASSUME NEW x \in Calls, Ask(x) \/ CallerActs(x) \/ GiveUpEntering(x)
      PROVE  /\ holder[c] = "gone" => holder'[c] = "gone"
             /\ Began(c) => Began(c)'
  BY <1>1 DEF Ask, CallerActs, Enter, TakeLink, WriteRefused, Written, WriteFails,
     ReturnFailure, Queue, Overflow, Hear, Leave, MidSend, GiveUpEntering, Move, Phase,
     Insert, Prune, LetGo, Direct
<1>2. ASSUME NEW x \in Calls,
             GiveUp(x) \/ CleanUp(x) \/ Match(x) \/ DeliverQueued(x) \/ TakeFrame(x)
      PROVE  /\ holder[c] = "gone" => holder'[c] = "gone"
             /\ Began(c) => Began(c)'
  BY <1>2 DEF GiveUp, Leave, MidSend, CleanUp, TakeOut, LetGo, Match, DeliverQueued, Settle,
     TakeFrame, readerRest, Direct, Move
<1>3. CASE Register \/ Begin \/ NotBegun \/ Sent \/ SendFails \/ TakeClaim \/ FailUnwritten
  BY <1>3 DEF Register, Begin, NotBegun, Sent, SendFails, TakeClaim, FailUnwritten, Writer,
     Phase, Settle, Insert
<1>4. CASE Claim \/ Deliver \/ WorkerStops \/ PumpEnds \/ PumpActs
  BY <1>4 DEF Claim, LetGo, Deliver, WorkerStops, PumpEnds, PumpActs, PumpSeals, PumpCloses,
     PumpFailsUnordered, PumpFails, PumpStops, Settle, readerRest, endRest
<1>5. CASE CloseBegins \/ CloserActs \/ CloseGivenUp \/ WriterAborted \/ UNCHANGED vars
  BY <1>5 DEF CloseBegins, CloserActs, CloseSeals, CloseMarks, CloseFails, CloseGivenUp,
     WriterAborted, Settle, closerRest, endRest, vars, callVars
<1>. QED BY <1>1, <1>2, <1>3, <1>4, <1>5 DEF Next, WriterActs

LEMMA FinalityStep ==
    ASSUME CallsAssumption, Core, Finality, [Next]_vars
    PROVE  Finality'
<1>1. ASSUME NEW c \in Calls, c \in heard' PROVE holder'[c] = "gone"
  <2>1. CASE c \in heard
    BY <2>1, GoneStays DEF Finality
  <2>2. CASE c \notin heard
    <3>1. Hear(c)
      BY <1>1, <2>2 DEF Next, Ask, CallerActs, Enter, TakeLink, WriteRefused, Written,
         WriteFails, ReturnFailure, Queue, Overflow, Hear, GiveUpEntering, GiveUp, CleanUp,
         Match, DeliverQueued, WriterActs, TakeFrame, Register, Begin, NotBegun, Sent,
         SendFails, TakeClaim, FailUnwritten, Writer, writerRest, Claim, Deliver,
         WorkerStops, readerRest, PumpEnds, PumpActs, PumpSeals, PumpCloses,
         PumpFailsUnordered, PumpFails, PumpStops, endRest, CloseBegins, CloserActs,
         CloseSeals, CloseMarks, CloseFails, closerRest, CloseGivenUp, WriterAborted, vars
    <3>2. holder[c] = "gone"
      BY <3>1 DEF Hear, Core, TypeOK, Stages
    <3>. QED BY <3>2, GoneStays
  <2>. QED BY <2>1, <2>2
<1>2. ASSUME NEW c \in Calls, holder'[c] \in {"reader", "queue"} PROVE Began(c)
  <2>1. CASE holder[c] \in {"reader", "queue"}
    BY <2>1 DEF Finality
  <2>2. CASE holder[c] \notin {"reader", "queue"}
    <3>. USE DEF Core, TypeOK, Hands
    <3>1. ASSUME NEW x \in Calls,
                 \/ Ask(x) \/ CallerActs(x) \/ GiveUpEntering(x)
                 \/ GiveUp(x) \/ CleanUp(x) \/ DeliverQueued(x) \/ TakeFrame(x)
          PROVE  FALSE
      BY <1>2, <2>2, <3>1 DEF Ask, CallerActs, Enter, TakeLink, WriteRefused, Written,
         WriteFails, ReturnFailure, Queue, Overflow, Hear, Leave, GiveUpEntering, Move,
         Phase, Insert, Prune, LetGo, GiveUp, CleanUp, TakeOut, DeliverQueued, Settle,
         TakeFrame
    <3>2. CASE WriterActs /\ ~(\E x \in Calls : TakeFrame(x))
      BY <1>2, <2>2, <3>2 DEF WriterActs, Register, Begin, NotBegun, Sent, SendFails,
         TakeClaim, FailUnwritten, Insert, Settle
    <3>3. CASE Claim \/ Deliver \/ WorkerStops \/ PumpEnds \/ PumpActs
      BY <1>2, <2>2, <3>3 DEF Claim, LetGo, Deliver, WorkerStops, PumpEnds, PumpActs,
         PumpSeals, PumpCloses, PumpFailsUnordered, PumpFails, PumpStops, Settle
    <3>4. CASE CloseBegins \/ CloserActs \/ CloseGivenUp \/ WriterAborted \/ UNCHANGED vars
      BY <1>2, <2>2, <3>4 DEF CloseBegins, CloserActs, CloseSeals, CloseMarks, CloseFails,
         CloseGivenUp, WriterAborted, Settle, vars, callVars
    <3>5. ASSUME NEW x \in Calls, Match(x) PROVE Began(c)
      BY <1>2, <2>2, <3>5 DEF Match
    <3>. QED BY <3>1, <3>2, <3>3, <3>4, <3>5 DEF Next, WriterActs
  <2>. QED BY <2>1, <2>2
<1>. QED BY <1>1, <1>2, GoneStays DEF Finality

LEMMA Final == Spec => []Finality
<1>1. Init => Finality
  BY DEF Init, Finality, Began
<1>2. Inv /\ Finality /\ [Next]_vars => Finality'
  BY FinalityStep, CallsAssumption DEF Inv
<1>. QED BY <1>1, <1>2, Invariance, PTL DEF Spec

\* What a caller has been told, as the contract has it.
Stage ==
    [c \in Calls |-> CASE caller[c] = "idle" -> "idle"
                       [] caller[c] \in {"overflowing", "done"} ->
                            IF c \in heard THEN "told" ELSE "gone"
                       [] OTHER -> "asking"]

OnWire == {c \in Calls : Began(c)}

\* Nothing of the contract changes.
LEMMA Stutters ==
    ASSUME Stage' = Stage, OnWire' = OnWire, UNCHANGED <<answer, cancels, ended>>
    PROVE  [Contract!Next]_Contract!vars
BY DEF Stage, OnWire, Contract!vars

\* A caller asks, or is refused.
LEMMA CallerMoves ==
    ASSUME Core, NEW c \in Calls, NEW to \in {"entering", "writing", "failing",
                                              "overflowing", "waiting", "done"},
           caller[c] # "done", Move(c, to), OnWire' = OnWire,
           UNCHANGED <<answer, cancels, ended, heard>>,
           caller[c] = "overflowing" => to = "done"
    PROVE  [Contract!Next]_Contract!vars
<1>. USE DEF Core, TypeOK
<1>1. caller' = [caller EXCEPT ![c] = to]
  BY DEF Move
<1>2. c \notin heard
  BY DEF Claims
<1>3. \A x \in Calls \ {c} : Stage'[x] = Stage[x]
  BY <1>1 DEF Stage
<1>4. /\ Stage \in [Calls -> {"idle", "told", "gone", "asking"}]
      /\ Stage' \in [Calls -> {"idle", "told", "gone", "asking"}]
  BY DEF Stage
<1>5. CASE Stage'[c] = Stage[c]
  <2>1. Stage' = Stage
    BY <1>3, <1>4, <1>5
  <2>. QED BY <2>1, Stutters
<1>6. CASE Stage'[c] # Stage[c]
  <2>1. \/ Stage[c] = "idle" /\ Stage'[c] = "asking"
        \/ Stage[c] \in {"idle", "asking"} /\ Stage'[c] = "gone"
    BY <1>1, <1>2, <1>6 DEF Stage
  <2>2. Stage' = [Stage EXCEPT ![c] = Stage'[c]]
    BY <1>3, <1>4
  <2>3. CASE Stage[c] = "idle" /\ Stage'[c] = "asking"
    <3>1. Contract!Ask(c)
      BY <2>2, <2>3 DEF Stage, OnWire, Contract!Ask
    <3>. QED BY <3>1 DEF Contract!Next
  <2>4. CASE Stage[c] \in {"idle", "asking"} /\ Stage'[c] = "gone"
    <3>1. Contract!Leave(c)
      BY <2>2, <2>4 DEF Stage, OnWire, Contract!Leave
    <3>. QED BY <3>1 DEF Contract!Next
  <2>. QED BY <2>1, <2>3, <2>4
<1>. QED BY <1>5, <1>6

\* The frame of a call whose caller waits for it is begun.
LEMMA Sends ==
    ASSUME Core, NEW c \in Calls, caller[c] \in {"writing", "waiting"}, ~Began(c),
           Phase(c, "writing"), UNCHANGED <<caller, heard, answer, cancels, ended>>
    PROVE  [Contract!Next]_Contract!vars
<1>. USE DEF Core, TypeOK
<1>1. c \notin heard
  BY DEF Claims
<1>2. OnWire' = OnWire \cup {c} /\ c \notin OnWire
  BY DEF OnWire, Began, Phase
<1>3. Stage' = Stage /\ Stage[c] = "asking"
  BY <1>1 DEF Stage
<1>4. Contract!Send(c)
  BY <1>2, <1>3 DEF Stage, OnWire, Contract!Send
<1>. QED BY <1>4 DEF Contract!Next

\* Calls nobody has settled are settled.
LEMMA Settles ==
    ASSUME Core, Finality, NEW settled \in SUBSET Calls, NEW with, Settle(settled, with),
           \A c \in settled : holder[c] \in {"writer", "map", "reader", "queue"},
           UNCHANGED <<caller, heard, cancels, ended>>, OnWire' = OnWire,
           \/ with = "answer" /\ \E c \in Calls : settled = {c} /\ Began(c) /\ c \notin cancels
           \/ with \in {"stopped", "unwritten"}
           \/ ended # "none" /\ with = ended
    PROVE  [Contract!Next]_Contract!vars
<1>. USE DEF Core, TypeOK
<1>1. Stage' = Stage
  BY DEF Stage
<1>2. \A c \in settled : answer[c] = "none" /\ Stage[c] # "told"
  BY DEF Finality, Stages, Stage
<1>3. answer' = [c \in Calls |-> IF c \in settled THEN with ELSE answer[c]]
  BY DEF Settle
<1>4. Contract!Settle(settled, with)
  BY <1>1, <1>2, <1>3 DEF Stage, OnWire, Contract!Settle, Contract!Open
<1>5. CASE with = "answer" /\ \E c \in Calls : settled = {c} /\ Began(c) /\ c \notin cancels
  <2>1. PICK c \in Calls : settled = {c} /\ Began(c) /\ c \notin cancels
    BY <1>5
  <2>2. Contract!Answer(c)
    BY <1>4, <1>5, <2>1 DEF Contract!Answer
  <2>. QED BY <2>2 DEF Contract!Next
<1>6. CASE with \in {"stopped", "unwritten"} \/ (ended # "none" /\ with = ended)
  <2>1. Contract!Fail(settled)
    BY <1>4, <1>6 DEF Contract!Fail
  <2>. QED BY <2>1 DEF Contract!Next
<1>. QED BY <1>5, <1>6

\* The end goes on record: the first, or what is there already.
LEMMA Ended ==
    ASSUME Core, NEW end \in Ends, ended' = Recorded(end),
           Stage' = Stage, OnWire' = OnWire, UNCHANGED <<answer, cancels>>
    PROVE  [Contract!Next]_Contract!vars
<1>1. CASE ended # "none"
  BY <1>1, Stutters DEF Recorded
<1>2. CASE ended = "none"
  <2>1. Contract!End
    BY <1>2 DEF Recorded, Stage, OnWire, Contract!End
  <2>. QED BY <2>1 DEF Contract!Next
<1>. QED BY <1>1, <1>2

\* A caller that goes is told what there is to tell, and then the peer is not told to
\* forget the call; or he is not, and then it may be.
LEMMA HearTells ==
    ASSUME CallsAssumption, Core, NEW c \in Calls, Hear(c)
    PROVE  Contract!Next
<1>. USE DEF Core, TypeOK
<1>1. caller[c] = "waiting" /\ c \notin heard /\ heard' = heard \cup {c}
  BY DEF Hear, Claims
<1>2. caller' = [caller EXCEPT ![c] = "done"] /\ UNCHANGED <<answer, ended>>
  BY DEF Hear, Leave, Move, endVars
<1>3. OnWire' = OnWire
  BY DEF Hear, Leave, OnWire, Began, MidSend, Stages
<1>4. cancels' = cancels
  <2>1. Wrote(c) => phase[c] # "unwritten"
    BY <1>1 DEF Wrote, Began, Stages, Direct
  <2>2. Wrote(c) /\ MayCancel(c) => closed
    BY <1>1, <2>1 DEF MayCancel, Claims, Hear
  <2>. QED BY <2>2 DEF Hear, Leave
<1>5. Stage[c] = "asking" /\ Stage' = [Stage EXCEPT ![c] = "told"]
  <2>1. Stage[c] = "asking" /\ Stage'[c] = "told"
    <3>1. caller[c] = "waiting" /\ c \notin heard /\ caller'[c] = "done" /\ c \in heard'
      BY <1>1, <1>2
    <3>2. Stage[c] = "asking"
      BY <3>1 DEF Stage
    <3>3. Stage'[c] = "told"
      BY <3>1 DEF Stage
    <3>. QED BY <3>2, <3>3
  <2>2. \A x \in Calls \ {c} : Stage'[x] = Stage[x]
    BY <1>1, <1>2 DEF Stage
  <2>3. /\ Stage \in [Calls -> {"idle", "told", "gone", "asking"}]
        /\ Stage' \in [Calls -> {"idle", "told", "gone", "asking"}]
    BY DEF Stage
  <2>. QED BY <2>1, <2>2, <2>3
<1>6. Contract!Tell(c)
  BY <1>2, <1>3, <1>4, <1>5 DEF Stage, OnWire, Contract!Tell
<1>. QED BY <1>6 DEF Contract!Next

LEMMA GiveUpLeaves ==
    ASSUME CallsAssumption, Core, NEW c \in Calls, GiveUp(c)
    PROVE  Contract!Next
<1>. USE DEF Core, TypeOK
<1>1. caller[c] \in {"writing", "failing", "waiting"} /\ c \notin heard /\ heard' = heard
  BY DEF GiveUp, Claims
<1>2. caller' = [caller EXCEPT ![c] = "done"] /\ UNCHANGED <<answer, ended>>
  BY DEF GiveUp, Leave, Move, endVars
<1>3. OnWire' = OnWire
  BY DEF GiveUp, Leave, OnWire, Began, MidSend, Stages
<1>4. cancels' = cancels \/ (c \in OnWire /\ answer[c] # "answer" /\ cancels' = cancels \cup {c})
  <2>1. Wrote(c) => c \in OnWire
    BY DEF Wrote, OnWire, Began, Stages, Direct
  <2>2. MayCancel(c) => answer[c] # "answer"
    BY DEF MayCancel, Claims
  <2>. QED BY <2>1, <2>2 DEF GiveUp, Leave
<1>5. Stage[c] = "asking" /\ Stage' = [Stage EXCEPT ![c] = "gone"]
  <2>1. Stage[c] = "asking" /\ Stage'[c] = "gone"
    BY <1>1, <1>2 DEF Stage
  <2>2. \A x \in Calls \ {c} : Stage'[x] = Stage[x]
    BY <1>1, <1>2 DEF Stage
  <2>3. /\ Stage \in [Calls -> {"idle", "told", "gone", "asking"}]
        /\ Stage' \in [Calls -> {"idle", "told", "gone", "asking"}]
    BY DEF Stage
  <2>. QED BY <2>1, <2>2, <2>3
<1>6. Contract!Leave(c)
  BY <1>2, <1>3, <1>4, <1>5 DEF Stage, OnWire, Contract!Leave
<1>. QED BY <1>6 DEF Contract!Next

LEMMA CallerSteps ==
    ASSUME CallsAssumption, Core, NEW c \in Calls,
           Ask(c) \/ CallerActs(c) \/ GiveUp(c) \/ GiveUpEntering(c) \/ CleanUp(c)
    PROVE  [Contract!Next]_Contract!vars
<1>. USE DEF Core, TypeOK
<1>1. CASE Ask(c) \/ Enter(c) \/ WriteRefused(c) \/ ReturnFailure(c) \/ GiveUpEntering(c)
  <2>1. UNCHANGED <<answer, cancels, ended, heard>> /\ OnWire' = OnWire
    BY <1>1 DEF Ask, Enter, WriteRefused, ReturnFailure, GiveUpEntering, endVars, OnWire,
       Began, LetGo
  <2>2. \E to \in {"entering", "writing", "failing", "done"} : Move(c, to)
    BY <1>1 DEF Ask, Enter, WriteRefused, ReturnFailure, GiveUpEntering, Move
  <2>3. caller[c] \notin {"overflowing", "done"}
    BY <1>1 DEF Ask, Enter, WriteRefused, ReturnFailure, GiveUpEntering
  <2>. QED BY <2>1, <2>2, <2>3, CallerMoves
<1>2. CASE TakeLink(c)
  <2>1. ~Began(c)
    BY <1>2 DEF TakeLink, Began
  <2>. QED BY <1>2, <2>1, Sends DEF TakeLink, endVars
<1>3. CASE Written(c) \/ WriteFails(c)
  <2>1. UNCHANGED <<answer, cancels, ended, heard>> /\ caller[c] = "writing"
    BY <1>3 DEF Written, WriteFails, endVars
  <2>2. OnWire' = OnWire
    BY <1>3 DEF Written, WriteFails, OnWire, Began, Phase
  <2>3. Move(c, "waiting") \/ Move(c, "failing")
    BY <1>3 DEF Written, WriteFails
  <2>. QED BY <2>1, <2>2, <2>3, CallerMoves
<1>4. CASE Queue(c)
  <2>1. UNCHANGED <<answer, cancels, ended, heard>> /\ caller[c] = "entering"
    BY <1>4 DEF Queue, endVars
  <2>2. OnWire' = OnWire
    BY <1>4 DEF Queue, OnWire, Began, Phase, Stages
  <2>3. Move(c, "done") \/ Move(c, "waiting") \/ Move(c, "overflowing")
    BY <1>4 DEF Queue
  <2>. QED BY <2>1, <2>2, <2>3, CallerMoves
<1>5. CASE Overflow(c)
  <2>1. UNCHANGED <<answer, cancels, heard>> /\ OnWire' = OnWire
    BY <1>5 DEF Overflow, OnWire, Began
  <2>2. Stage' = Stage
    BY <1>5, <2>1 DEF Overflow, Move, Stage
  <2>. QED BY <1>5, <2>1, <2>2, Ended DEF Overflow, Ends
<1>6. CASE CleanUp(c)
  <2>1. UNCHANGED <<answer, cancels, ended, heard, caller, phase>>
    BY <1>6 DEF CleanUp, TakeOut, LetGo, endVars
  <2>. QED BY <2>1, Stutters DEF Stage, OnWire, Began
<1>. QED BY <1>1, <1>2, <1>3, <1>4, <1>5, <1>6, HearTells, GiveUpLeaves DEF CallerActs

LEMMA WriterSteps ==
    ASSUME CallsAssumption, Core, Finality, WriterActs
    PROVE  [Contract!Next]_Contract!vars
<1>. USE DEF Core, TypeOK
<1>1. UNCHANGED <<caller, cancels, ended, heard>> /\ Stage' = Stage
  BY DEF WriterActs, TakeFrame, Register, Begin, NotBegun, Sent, SendFails, TakeClaim,
     FailUnwritten, Writer, writerRest, endVars, Stage
<1>2. CASE Begin
  <2>1. writing \in Calls /\ caller[writing] = "waiting" /\ ~Began(writing)
    BY <1>2 DEF Begin, Writer, Hands, InHand, Stages, Began
  <2>. QED BY <1>1, <1>2, <2>1, Sends DEF Begin
<1>3. ASSUME ~Begin PROVE OnWire' = OnWire
  BY <1>3 DEF WriterActs, TakeFrame, Register, NotBegun, Sent, SendFails, TakeClaim,
     FailUnwritten, Writer, Phase, OnWire, Began, Hands, InHand, Frame
<1>4. CASE Register /\ answer' # answer
  <2>1. writing \in Calls /\ holder[writing] = "writer" /\ answer[writing] = "none"
    BY <1>4 DEF Register, Writer, Hands, InHand, Stages
  <2>2. CASE closed
    <3>1. ended # "none"
      BY <2>2 DEF Ending
    <3>2. Settle({writing}, ended)
      BY <1>4, <2>2, <3>1 DEF Register, EndOr
    <3>3. OnWire' = OnWire
      BY <1>3, <1>4 DEF Register, Begin, Writer
    <3>. QED BY <1>1, <2>1, <3>1, <3>2, <3>3, Settles
  <2>3. CASE ~closed
    <3>1. answer' = [answer EXCEPT ![writing] = "unwritten"]
      BY <1>4, <2>3 DEF Register
    <3>2. OnWire' = OnWire
      BY <1>3, <1>4 DEF Register, Begin, Writer
    <3>3. Stage[writing] # "told"
      BY <2>1 DEF Finality, Stage
    <3>4. Contract!Settle({writing}, "unwritten")
      BY <1>1, <2>1, <3>1, <3>2, <3>3 DEF Stage, OnWire, Contract!Settle, Contract!Open
    <3>5. Contract!Fail({writing})
      BY <3>4 DEF Contract!Fail
    <3>. QED BY <2>1, <3>5 DEF Contract!Next
  <2>. QED BY <2>2, <2>3
<1>5. CASE FailUnwritten /\ holder[writing] = "map"
  <2>1. writing \in Calls /\ Settle({writing}, EndOr("unwritten"))
    BY <1>5 DEF FailUnwritten, Writer, Hands, InHand
  <2>2. OnWire' = OnWire
    BY <1>3, <1>5 DEF FailUnwritten, Begin, Writer
  <2>. QED BY <1>1, <1>5, <2>1, <2>2, Settles DEF EndOr
<1>6. CASE ~Begin /\ UNCHANGED answer
  BY <1>1, <1>3, <1>6, Stutters
<1>. QED BY <1>2, <1>4, <1>5, <1>6 DEF WriterActs, TakeFrame, NotBegun, Sent, SendFails,
     TakeClaim, FailUnwritten, LetGo, Register, Writer, Begin

LEMMA ReaderSteps ==
    ASSUME CallsAssumption, Core, Finality,
           \/ \E c \in Calls : Match(c) \/ DeliverQueued(c)
           \/ Claim \/ Deliver \/ WorkerStops
    PROVE  [Contract!Next]_Contract!vars
<1>. USE DEF Core, TypeOK
<1>1. UNCHANGED <<caller, phase, cancels, ended, heard>>
  BY DEF Match, DeliverQueued, Claim, Deliver, WorkerStops, readerRest, endVars
<1>2. Stage' = Stage /\ OnWire' = OnWire
  BY <1>1 DEF Stage, OnWire, Began
<1>3. CASE Claim \/ \E c \in Calls : Match(c)
  <2>1. answer' = answer
    BY <1>3 DEF Claim, Match, LetGo
  <2>. QED BY <1>1, <1>2, <2>1, Stutters
<1>4. ASSUME NEW c \in Calls, DeliverQueued(c) PROVE [Contract!Next]_Contract!vars
  <2>1. Began(c) /\ c \notin cancels
    BY <1>4 DEF DeliverQueued, Finality, Claims
  <2>. QED BY <1>1, <1>2, <1>4, <2>1, Settles DEF DeliverQueued
<1>5. CASE Deliver
  <2>1. matched \in Calls /\ holder[matched] = "reader"
    BY <1>5 DEF Deliver, Hands
  <2>2. Began(matched) /\ matched \notin cancels
    BY <1>5, <2>1 DEF Deliver, Finality, Claims
  <2>3. CASE answer' = answer
    BY <1>1, <1>2, <2>3, Stutters
  <2>4. CASE Settle({matched}, "answer")
    BY <1>1, <1>2, <2>1, <2>2, <2>4, Settles
  <2>5. CASE Settle({matched}, EndOr("stopped"))
    BY <1>1, <1>2, <2>1, <2>5, Settles DEF EndOr
  <2>. QED BY <1>5, <2>3, <2>4, <2>5 DEF Deliver
<1>6. CASE WorkerStops
  BY <1>1, <1>2, <1>6, Settles DEF WorkerStops, EndOr
<1>. QED BY <1>3, <1>4, <1>5, <1>6

LEMMA EndSteps ==
    ASSUME CallsAssumption, Core, Finality,
           \/ PumpEnds \/ PumpActs \/ CloseBegins \/ CloserActs
           \/ CloseGivenUp \/ WriterAborted
    PROVE  [Contract!Next]_Contract!vars
<1>. USE DEF Core, TypeOK
<1>1. UNCHANGED <<caller, cancels, heard>> /\ Stage' = Stage
  BY DEF PumpEnds, PumpActs, PumpSeals, PumpCloses, PumpFailsUnordered, PumpFails, PumpStops,
     endRest, CloseBegins, CloserActs, CloseSeals, CloseMarks, CloseFails, closerRest,
     CloseGivenUp, WriterAborted, Stage
<1>2. OnWire' = OnWire
  <2>1. \A c \in Calls : Began(c)' <=> Began(c)
    BY DEF PumpEnds, PumpActs, PumpSeals, PumpCloses, PumpFailsUnordered, PumpFails,
       PumpStops, endRest, CloseBegins, CloserActs, CloseSeals, CloseMarks, CloseFails,
       closerRest, CloseGivenUp, WriterAborted, Began
  <2>. QED BY <2>1 DEF OnWire
<1>3. CASE PumpEnds \/ CloseBegins
  <2>1. answer' = answer
    BY <1>3 DEF PumpEnds, CloseBegins
  <2>. QED BY <1>1, <1>2, <1>3, <2>1, Ended DEF PumpEnds, CloseBegins, Ends
<1>4. CASE PumpFailsUnordered \/ PumpFails \/ CloseFails
  <2>1. ended # "none" /\ ended' = ended
    BY <1>4 DEF PumpFailsUnordered, PumpFails, CloseFails, Ending, endVars
  <2>2. Settle(Entries \ places, ended) \/ Settle(Entries, ended)
    BY <1>4 DEF PumpFailsUnordered, PumpFails, CloseFails, LeftOver
  <2>3. \A c \in Entries : c \in Calls /\ holder[c] = "map"
    BY DEF Entries
  <2>. QED BY <1>1, <1>2, <2>1, <2>2, <2>3, Settles
<1>5. CASE \/ PumpSeals \/ PumpCloses \/ PumpStops \/ CloseSeals \/ CloseMarks
           \/ CloseGivenUp \/ WriterAborted
  <2>1. UNCHANGED <<answer, ended>>
    BY <1>5 DEF PumpSeals, PumpCloses, PumpStops, CloseSeals, CloseMarks, CloseGivenUp,
       WriterAborted, endVars
  <2>. QED BY <1>1, <1>2, <2>1, Stutters
<1>. QED BY <1>3, <1>4, <1>5 DEF PumpActs, CloserActs

LEMMA ContractInit == Init => Contract!Init
BY DEF Init, Contract!Init, Began

LEMMA ContractStep ==
    ASSUME CallsAssumption, Core, Finality, [Next]_vars
    PROVE  [Contract!Next]_Contract!vars
<1>1. CASE UNCHANGED vars
  BY <1>1, Stutters DEF vars, callVars, endVars, Stage, OnWire, Began
<1>2. CASE Next
  BY <1>2, CallerSteps, WriterSteps, ReaderSteps, EndSteps DEF Next
<1>. QED BY <1>1, <1>2

-----------------------------------------------------------------------------
(* The theorems.                                                           *)

\* Every variable keeps its type, for any calls and any budget.
THEOREM TypeCorrect == Spec => []TypeOK
<1>1. Inv => TypeOK
  BY DEF Inv, Core
<1> QED
  BY <1>1, Invariance, PTL

\* A call is answered or its cancel is queued, never both, wherever the answer,
\* the caller and the failed write meet.
THEOREM AnsweredXorCancelled == Spec => []AnsweredOrCancelled
<1>1. Inv => AnsweredOrCancelled
  BY DEF Inv, Core
<1> QED
  BY <1>1, Invariance, PTL

\* After the last pass over the record no entry is left in it and none comes in.
THEOREM NobodyIsForgotten == Spec => []NobodyForgotten
<1>1. Inv => NobodyForgotten
  BY DEF Inv, Core
<1> QED
  BY <1>1, Invariance, PTL

\* The calls that wait and count never pass max_pending_requests.
THEOREM PendingHolds == Spec => []PendingBounded
<1>1. Inv => PendingBounded
  BY DEF Inv
<1> QED
  BY <1>1, Invariance, PTL

\* An ordered place is held only for an answer that can still come.
THEOREM PlacesReturn == Spec => []PlacesComeBack
<1>1. Inv => PlacesComeBack
  BY DEF Inv, Core
<1> QED
  BY <1>1, Invariance, PTL

\* Whatever raced it, a failure names the end that is on record.
THEOREM FailuresTellTheCause == Spec => []FailureNamesTheEnd
<1>1. Inv => FailureNamesTheEnd
  BY DEF Inv, Core
<1> QED
  BY <1>1, Invariance, PTL

\* An entry whose caller is gone is somebody's to take out.
THEOREM OrphansAreSomebodys == Spec => []NoOrphanEntry
<1>1. Inv => NoOrphanEntry
  BY DEF Inv, Core, Orphans, NoOrphanEntry
<1> QED
  BY <1>1, Invariance, PTL

\* Whatever answers, deadlines, drops, the writer and the end of the connection race, a
\* call is settled once and for all, by an answer or by what went wrong, and is answered
\* or cancelled; every step of the client is one of the contract or changes nothing of it.
THEOREM Implements == Spec => ImplementsContract
<1>1. Inv /\ Finality /\ [Next]_vars => [Contract!Next]_Contract!vars
  BY ContractStep, CallsAssumption DEF Inv
<1>2. Spec => Init /\ [][Next]_vars
  BY DEF Spec
<1>. QED BY <1>1, <1>2, ContractInit, Invariance, Final, PTL
     DEF ImplementsContract, Contract!Spec
=============================================================================
