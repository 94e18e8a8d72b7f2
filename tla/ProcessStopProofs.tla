------------------------- MODULE ProcessStopProofs -------------------------
(***************************************************************************)
(* What holds of stopping a process tree for any number of calls and of    *)
(* helpers.  A tree that is gone stays gone, since only a member forks; so *)
(* what the escalation, or a second caller, saw of the group is still true *)
(* when the call answers.  The claim on the escalation is taken before the *)
(* escalation exists, which bounds it to one.                              *)
(***************************************************************************)
EXTENDS ProcessStop, TLAPS

\* What was seen of the group still holds of it.
Seen ==
    /\ escalation = "gone" => TreeGone
    /\ \A c \in Callers : caller[c].pc \in {"reap", "ok"} => TreeGone
    /\ \A c \in Callers :
          caller[c].pc = "ok" /\ caller[c].kind = "stop" => exitSeen

\* The claim comes first.
Claimed ==
    /\ ~killed => escalation = "none" /\ escalations = 0
    /\ escalations <= 1

Inv == TypeOK /\ Seen /\ Claimed

\* A call moves to a place: it is still a call, and no other one moved.
LEMMA MoveIsACall ==
    ASSUME caller \in [Callers -> Call], NEW c \in Callers,
           NEW place \in {"idle"} \cup Busy \cup Ended, Move(c, place)
    PROVE  /\ caller' \in [Callers -> Call]
           /\ caller'[c].pc = place /\ caller'[c].kind = caller[c].kind
           /\ \A d \in Callers : d # c => caller'[d] = caller[d]
BY DEF Move, Call

\* The number gets one of the launcher's signals, and nothing else changes.
LEMMA SignalIsTyped ==
    ASSUME sent \subseteq Signals, stray \subseteq Signals,
           NEW s \in Signals, Signal(s)
    PROVE  /\ sent' \subseteq Signals /\ stray' \subseteq Signals
           /\ UNCHANGED <<leader, helpers, reused>>
BY DEF Signal

\* Nothing brings a tree that is gone back: only a member forks, and a leader
\* that was reaped does nothing more.
LEMMA GoneStaysGone == Next /\ TreeGone => TreeGone'
<1> SUFFICES ASSUME Next, TreeGone PROVE TreeGone'
  OBVIOUS
<1> USE DEF TreeGone
<1>1. CASE System
  BY <1>1 DEF System, Fork, LeaderExits, HelperExits, NumberReused, Reap,
     PublishExit, osVars
<1>2. CASE Handles
  BY <1>2 DEF Handles, GuardFinishes, GuardDropped, IntoControl,
     FinishDropped, FinishAnswers, HostLetsGo, ChildDropped, CallStarts,
     CallDropped, osVars, Signal
<1>3. CASE Escalate
  BY <1>3 DEF Escalate, AskToStop, SeesTheEnd, GraceOver, InsistTreeStops,
     osVars, Signal
<1>4. ASSUME NEW c \in Callers, CallProgress(c) PROVE TreeGone'
  BY <1>4 DEF CallProgress, Interrupt, InterruptSignals, Grace, Kill, KillSucceeds,
     KillFails, Reaped, osVars, Signal
<1> QED BY <1>1, <1>2, <1>3, <1>4 DEF Next

-----------------------------------------------------------------------------
\* A step of the operating system touches no call and no task.
LEMMA SystemKeepsInv == Inv /\ System => Inv'
<1> SUFFICES ASSUME Inv, System PROVE Inv'
  OBVIOUS
<1>1. TreeGone => TreeGone'
  BY GoneStaysGone DEF Next
<1>2. UNCHANGED <<killed, childDropped, escalation, escalations, caller,
                  holder>>
  BY DEF System, Fork, LeaderExits, HelperExits, NumberReused, Reap,
     PublishExit, childVars, taskVars, callVars
<1>3. exitSeen => exitSeen'
  BY DEF System, Fork, LeaderExits, HelperExits, NumberReused, Reap,
     PublishExit, childVars
<1>4. TypeOK'
  BY <1>2 DEF Inv, TypeOK, System, Fork, LeaderExits, HelperExits,
     NumberReused, Reap, PublishExit, osVars, childVars
<1>5. Seen'
  BY <1>1, <1>2, <1>3 DEF Inv, Seen
<1>6. Claimed'
  BY <1>2 DEF Inv, Claimed
<1> QED BY <1>4, <1>5, <1>6 DEF Inv

\* A step of the escalation: it is claimed, and it says "gone" of a group it
\* found empty.
LEMMA EscalateKeepsInv == Inv /\ Escalate => Inv'
<1> SUFFICES ASSUME Inv, Escalate PROVE Inv'
  OBVIOUS
<1>1. TreeGone => TreeGone'
  BY GoneStaysGone DEF Next
<1>2. UNCHANGED <<exitSeen, killed, childDropped, escalations, caller,
                  holder>>
  BY DEF Escalate, AskToStop, SeesTheEnd, GraceOver, InsistTreeStops,
     EscalationGoesTo, childVars, callVars
<1>3. killed
  BY DEF Inv, Claimed, Escalate, AskToStop, SeesTheEnd, GraceOver,
     InsistTreeStops
<1>4. /\ escalation' \in Escalation
      /\ escalation' = "gone" => TreeGone
  BY DEF Escalate, AskToStop, SeesTheEnd, GraceOver, InsistTreeStops,
     EscalationGoesTo, Escalation, tree_is_gone
<1>5. \/ UNCHANGED osVars
      \/ Signal("TERM")
      \/ Signal("KILL")
  BY DEF Escalate, AskToStop, SeesTheEnd, GraceOver, InsistTreeStops
<1>6. /\ sent' \subseteq Signals /\ stray' \subseteq Signals
      /\ UNCHANGED <<leader, helpers, reused>>
  BY <1>5, SignalIsTyped DEF Inv, TypeOK, osVars, Signals
<1>7. TypeOK'
  BY <1>2, <1>4, <1>6 DEF Inv, TypeOK
<1>8. Seen'
  BY <1>1, <1>2, <1>4 DEF Inv, Seen
<1>9. Claimed'
  BY <1>2, <1>3 DEF Inv, Claimed
<1> QED BY <1>7, <1>8, <1>9 DEF Inv

\* A step of a stop or kill call: it gets past the kill only when the group
\* was seen empty, and it answers a stop only with the exit.
LEMMA CallKeepsInv ==
    ASSUME Inv, NEW c \in Callers, CallProgress(c)
    PROVE  Inv'
<1>1. TreeGone => TreeGone'
  BY GoneStaysGone DEF Next
<1>2. caller \in [Callers -> Call]
  BY DEF Inv, TypeOK
<1>3. CASE Interrupt(c)
  <2>1. UNCHANGED <<holder, osVars, childVars, taskVars>>
    BY <1>3 DEF Interrupt
  <2>2. \E place \in {"kill", "signalling"} : Move(c, place)
    BY <1>3 DEF Interrupt
  <2>3. /\ caller' \in [Callers -> Call]
        /\ \A d \in Callers : \/ caller'[d] = caller[d]
                              \/ caller'[d].pc \in {"kill", "signalling"}
    BY <1>2, <2>2, MoveIsACall DEF Busy, Waiting
  <2> QED BY <1>1, <2>1, <2>3
          DEF Inv, TypeOK, Seen, Claimed, osVars, childVars, taskVars
<1>4. CASE Grace(c)
  <2>1. UNCHANGED <<holder, osVars, childVars, taskVars>>
    BY <1>4 DEF Grace
  <2>2. PICK exited \in BOOLEAN :
          caller' = [caller EXCEPT ![c].pc = "kill",
                                   ![c].interrupted = exited]
    BY <1>4 DEF Grace, Inv, TypeOK
  <2>3. /\ caller' \in [Callers -> Call]
        /\ \A d \in Callers : \/ caller'[d] = caller[d]
                              \/ caller'[d].pc = "kill"
    BY <1>2, <2>2 DEF Call, Busy, Waiting
  <2> QED BY <1>1, <2>1, <2>3
          DEF Inv, TypeOK, Seen, Claimed, osVars, childVars, taskVars
<1>5. CASE Kill(c)
  <2>1. UNCHANGED <<holder, osVars, exitSeen, childDropped>> /\ killed'
    BY <1>5 DEF Kill
  <2>2. \E place \in {"second", "escalating"} : Move(c, place)
    BY <1>5 DEF Kill
  <2>3. /\ caller' \in [Callers -> Call]
        /\ \A d \in Callers : \/ caller'[d] = caller[d]
                              \/ caller'[d].pc \in {"second", "escalating"}
    BY <1>2, <2>2, MoveIsACall DEF Busy, Waiting
  <2>4. CASE killed
    <3>1. UNCHANGED taskVars
      BY <1>5, <2>4 DEF Kill
    <3> QED BY <1>1, <2>1, <2>3, <2>4, <3>1
            DEF Inv, TypeOK, Seen, Claimed, osVars, taskVars
  <2>5. CASE ~killed
    <3>1. escalation' = "ask" /\ escalations' = 1
      BY <1>5, <2>5 DEF Kill, Inv, Claimed
    <3> QED BY <1>1, <2>1, <2>3, <3>1
            DEF Inv, TypeOK, Seen, Claimed, osVars, Escalation
  <2> QED BY <2>4, <2>5
<1>6. CASE KillSucceeds(c)
  <2>1. UNCHANGED <<holder, osVars, childVars, taskVars>>
    BY <1>6 DEF KillSucceeds
  <2>2. TreeGone
    BY <1>6 DEF KillSucceeds, tree_is_gone, Inv, Seen
  <2>3. Move(c, IF caller[c].kind = "kill" THEN "ok" ELSE "reap")
    BY <1>6 DEF KillSucceeds
  <2>4. /\ caller' \in [Callers -> Call]
        /\ \A d \in Callers :
              caller'[d].pc = "ok" /\ caller'[d].kind = "stop" =>
                  caller[d].pc = "ok" /\ caller[d].kind = "stop"
    <3>1. CASE caller[c].kind = "kill"
      BY <1>2, <2>3, <3>1, MoveIsACall DEF Ended
    <3>2. CASE caller[c].kind # "kill"
      BY <1>2, <2>3, <3>2, MoveIsACall DEF Busy, Waiting
    <3> QED BY <3>1, <3>2
  <2> QED BY <1>1, <2>1, <2>2, <2>4
          DEF Inv, TypeOK, Seen, Claimed, osVars, childVars, taskVars
<1>7. CASE KillFails(c)
  <2>1. UNCHANGED <<holder, osVars, childVars, taskVars>>
    BY <1>7 DEF KillFails
  <2>2. Move(c, "error")
    BY <1>7 DEF KillFails
  <2>3. /\ caller' \in [Callers -> Call]
        /\ \A d \in Callers : \/ caller'[d] = caller[d]
                              \/ caller'[d].pc = "error"
    BY <1>2, <2>2, MoveIsACall DEF Ended
  <2> QED BY <1>1, <2>1, <2>3
          DEF Inv, TypeOK, Seen, Claimed, osVars, childVars, taskVars
<1>8. CASE Reaped(c)
  <2>1. UNCHANGED <<holder, osVars, childVars, taskVars>>
    BY <1>8 DEF Reaped
  <2>2. TreeGone
    BY <1>8 DEF Reaped, Inv, Seen
  <2>3. (exitSeen /\ Move(c, "ok")) \/ Move(c, "error")
    BY <1>8 DEF Reaped
  <2>4. /\ caller' \in [Callers -> Call]
        /\ \A d \in Callers : \/ caller'[d] = caller[d]
                              \/ caller'[d].pc = "error"
                              \/ exitSeen
    BY <1>2, <2>3, MoveIsACall DEF Ended
  <2> QED BY <1>1, <2>1, <2>2, <2>4
          DEF Inv, TypeOK, Seen, Claimed, osVars, childVars, taskVars
<1>9. CASE InterruptSignals(c)
  <2>1. \E place \in {"kill", "grace"} : Move(c, place)
    BY <1>9 DEF InterruptSignals
  <2>2. /\ sent' \subseteq Signals /\ stray' \subseteq Signals
        /\ UNCHANGED <<leader, helpers, reused>>
    BY <1>9, SignalIsTyped DEF InterruptSignals, Inv, TypeOK, Signals
  <2>3. UNCHANGED <<holder, exitSeen, killed, childDropped, escalation,
                    escalations>>
    BY <1>9 DEF InterruptSignals, childVars, taskVars
  <2>4. /\ caller' \in [Callers -> Call]
        /\ \A d \in Callers : \/ caller'[d] = caller[d]
                              \/ caller'[d].pc \in {"kill", "grace"}
    BY <1>2, <2>1, MoveIsACall DEF Busy, Waiting
  <2> QED BY <1>1, <2>2, <2>3, <2>4 DEF Inv, TypeOK, Seen, Claimed
<1> QED BY <1>3, <1>4, <1>5, <1>6, <1>7, <1>8, <1>9, CallProgress(c)
        DEF CallProgress

\* A step of the handles: the guard's worker is the only call it starts, and
\* the last handle claims the escalation before it starts one.
LEMMA HandlesKeepInv == Inv /\ Handles => Inv'
<1> SUFFICES ASSUME Inv, Handles PROVE Inv'
  OBVIOUS
<1>1. TreeGone => TreeGone'
  BY GoneStaysGone DEF Next
<1>2. caller \in [Callers -> Call]
  BY DEF Inv, TypeOK
<1>3. CASE GuardFinishes \/ GuardDropped
  <2>1. UNCHANGED <<osVars, childVars, taskVars>>
    BY <1>3 DEF GuardFinishes, GuardDropped
  <2>2. holder' \in {"finish", "nobody"} /\ Move(Worker, "interrupt")
    BY <1>3 DEF GuardFinishes, GuardDropped, Begin, Move
  <2>3. /\ caller' \in [Callers -> Call]
        /\ \A d \in Callers : \/ caller'[d] = caller[d]
                              \/ caller'[d].pc = "interrupt"
    BY <1>2, <2>2, MoveIsACall, WorkerAssumption DEF Busy, Waiting
  <2> QED BY <1>1, <2>1, <2>2, <2>3
          DEF Inv, TypeOK, Seen, Claimed, osVars, childVars, taskVars
<1>4. CASE IntoControl \/ FinishDropped \/ FinishAnswers \/ HostLetsGo
  <2>1. UNCHANGED <<caller, osVars, childVars, taskVars>>
    BY <1>4 DEF IntoControl, FinishDropped, FinishAnswers, HostLetsGo
  <2>2. holder' \in {"host", "nobody"}
    BY <1>4 DEF IntoControl, FinishDropped, FinishAnswers, HostLetsGo
  <2> QED BY <1>1, <2>1, <2>2
          DEF Inv, TypeOK, Seen, Claimed, osVars, childVars, taskVars
<1>5. CASE ChildDropped
  <2>1. UNCHANGED <<exitSeen, callVars>> /\ childDropped' /\ killed'
    BY <1>5 DEF ChildDropped
  <2>2. CASE killed
    <3>1. UNCHANGED <<osVars, taskVars>>
      BY <1>5, <2>2 DEF ChildDropped
    <3> QED BY <1>1, <2>1, <2>2, <3>1
            DEF Inv, TypeOK, Seen, Claimed, osVars, taskVars, callVars
  <2>3. CASE ~killed
    <3>1. /\ escalations' = 1
          /\ \/ escalation' \in {"ask", "refused"}
             \/ escalation' = "gone" /\ tree_is_gone
      BY <1>5, <2>3 DEF ChildDropped, Inv, Claimed
    <3>2. UNCHANGED osVars \/ Signal("KILL")
      BY <1>5, <2>3 DEF ChildDropped
    <3>3. /\ sent' \subseteq Signals /\ stray' \subseteq Signals
          /\ UNCHANGED <<leader, helpers, reused>>
      BY <3>2, SignalIsTyped DEF Inv, TypeOK, osVars, Signals
    <3>4. escalation' = "gone" => TreeGone
      BY <3>1 DEF tree_is_gone
    <3>5. TypeOK'
      BY <2>1, <3>1, <3>3 DEF Inv, TypeOK, callVars, Escalation
    <3>6. Seen'
      BY <1>1, <2>1, <3>4 DEF Inv, Seen, callVars
    <3>7. Claimed'
      BY <2>1, <3>1 DEF Claimed
    <3> QED BY <3>5, <3>6, <3>7 DEF Inv
  <2> QED BY <2>2, <2>3
<1>6. ASSUME NEW c \in Callers, CallStarts(c) PROVE Inv'
  <2>1. UNCHANGED <<holder, osVars, childVars, taskVars>>
    BY <1>6 DEF CallStarts
  <2>2. PICK kind \in {"stop", "kill"} :
          caller' = [caller EXCEPT ![c].kind = kind,
                       ![c].pc = IF kind = "stop" THEN "interrupt" ELSE "kill"]
    BY <1>6 DEF CallStarts
  <2>3. /\ caller' \in [Callers -> Call]
        /\ \A d \in Callers : \/ caller'[d] = caller[d]
                              \/ caller'[d].pc \in {"interrupt", "kill"}
    BY <1>2, <2>2 DEF Call, Busy, Waiting
  <2> QED BY <1>1, <2>1, <2>3
          DEF Inv, TypeOK, Seen, Claimed, osVars, childVars, taskVars
<1>7. ASSUME NEW c \in Callers, CallDropped(c) PROVE Inv'
  <2>1. UNCHANGED <<holder, osVars, childVars, taskVars>>
    BY <1>7 DEF CallDropped
  <2>2. Move(c, "dropped")
    BY <1>7 DEF CallDropped
  <2>3. /\ caller' \in [Callers -> Call]
        /\ \A d \in Callers : \/ caller'[d] = caller[d]
                              \/ caller'[d].pc = "dropped"
    BY <1>2, <2>2, MoveIsACall DEF Ended
  <2> QED BY <1>1, <2>1, <2>3
          DEF Inv, TypeOK, Seen, Claimed, osVars, childVars, taskVars
<1> QED BY <1>3, <1>4, <1>5, <1>6, <1>7 DEF Handles

-----------------------------------------------------------------------------
\* The strengthening is inductive.
THEOREM Inductive == Spec => []Inv
<1>1. Init => Inv
  <2> SUFFICES ASSUME Init PROVE Inv
    OBVIOUS
  <2>1. caller \in [Callers -> Call]
    BY DEF Init, Call
  <2>2. \A c \in Callers : caller[c].pc = "idle"
    BY DEF Init
  <2>3. TypeOK
    BY <2>1 DEF Init, TypeOK, Escalation
  <2>4. Seen
    BY <2>2 DEF Init, Seen
  <2>5. Claimed
    BY DEF Init, Claimed
  <2> QED BY <2>3, <2>4, <2>5 DEF Inv
<1>2. Inv /\ [Next]_vars => Inv'
  <2> SUFFICES ASSUME Inv, [Next]_vars PROVE Inv'
    OBVIOUS
  <2>1. CASE UNCHANGED vars
    BY <2>1 DEF vars, osVars, childVars, taskVars, callVars, Inv, TypeOK, Seen,
       Claimed, TreeGone
  <2>2. CASE Next
    BY <2>2, SystemKeepsInv, EscalateKeepsInv, HandlesKeepInv, CallKeepsInv
       DEF Next
  <2> QED BY <2>1, <2>2
<1> QED BY <1>1, <1>2, PTL DEF Spec

\* Every variable keeps its type, for any number of callers and helpers.
THEOREM TypeCorrect == Spec => []TypeOK
<1>1. Inv => TypeOK
  BY DEF Inv
<1> QED BY <1>1, Inductive, PTL

\* A stop or kill that answers Ok has the whole tree gone
\* (stop_process_bounded, `ProcessControl::kill`).
THEOREM OkMeansGone == Spec => []OkProvesTreeGone
<1>1. Inv => OkProvesTreeGone
  BY DEF Inv, Seen, OkProvesTreeGone
<1> QED BY <1>1, Inductive, PTL

\* The tree is escalated against once (the claim of kill and of drop).
THEOREM EscalatedOnce == Spec => []EscalatesOnce
<1>1. Inv => EscalatesOnce
  BY DEF Inv, Claimed, EscalatesOnce
<1> QED BY <1>1, Inductive, PTL

\* A step keeps to the order of the escalation: only a call that has looked already
\* signals beside it, and it sends the interrupt.
LEMMA StepOnlyEscalates ==
    ASSUME Inv, [Next]_vars
    PROVE  /\ escalation = "gone" => sent' = sent /\ stray' \ {"INT"} = stray \ {"INT"}
           /\ killed => Signalling' \subseteq Signalling
           /\ killed /\ Signalling = {} =>
                 ("INT" \in sent' \cup stray' => "INT" \in sent \cup stray)
<1>1. caller \in [Callers -> Call]
  BY DEF Inv, TypeOK
<1>2. /\ escalation = "gone" => killed /\ TreeGone
      /\ escalation # "none" => killed
  BY DEF Inv, Claimed, Seen
<1>3. CASE UNCHANGED vars
  BY <1>3 DEF vars, osVars, callVars, Signalling
<1>4. CASE System
  BY <1>4 DEF System, Fork, LeaderExits, HelperExits, NumberReused, Reap,
     PublishExit, osVars, callVars, Signalling
<1>5. CASE Escalate
  BY <1>5 DEF Escalate, AskToStop, SeesTheEnd, GraceOver, InsistTreeStops,
     EscalationGoesTo, Signal, osVars, callVars, Signalling
<1>6. CASE Handles
  <2>1. killed => UNCHANGED <<sent, stray>>
    BY <1>6 DEF Handles, GuardFinishes, GuardDropped, IntoControl,
       FinishDropped, FinishAnswers, HostLetsGo, ChildDropped, CallStarts,
       CallDropped, osVars
  <2>2. \A c \in Callers : caller'[c].pc = "signalling" => caller[c].pc = "signalling"
    BY <1>1, <1>6, WorkerAssumption
       DEF Handles, GuardFinishes, GuardDropped, Begin, IntoControl, FinishDropped,
           FinishAnswers, HostLetsGo, ChildDropped, CallStarts, CallDropped, Move,
           Call, callVars
  <2> QED BY <1>2, <2>1, <2>2 DEF Signalling
<1>7. ASSUME NEW c \in Callers, InterruptSignals(c)
      PROVE  /\ escalation = "gone" => sent' = sent /\ stray' \ {"INT"} = stray \ {"INT"}
             /\ Signalling # {} /\ Signalling' \subseteq Signalling
  <2>1. c \in Signalling /\ Signal("INT")
    BY <1>7 DEF InterruptSignals, Signalling
  <2>2. \E place \in {"kill", "grace"} : Move(c, place)
    BY <1>7 DEF InterruptSignals
  <2>3. Signalling' \subseteq Signalling
    BY <1>1, <2>2, MoveIsACall DEF Busy, Waiting, Signalling
  <2> QED BY <1>2, <2>1, <2>3 DEF Signal
<1>8. ASSUME NEW c \in Callers, CallProgress(c), ~InterruptSignals(c)
      PROVE  UNCHANGED <<sent, stray>> /\ (killed => Signalling' \subseteq Signalling)
  <2>1. UNCHANGED <<sent, stray>>
    BY <1>8 DEF CallProgress, Interrupt, Grace, Kill, KillSucceeds, KillFails,
       Reaped, osVars
  <2>2. killed => \A d \in Callers :
                     caller'[d].pc = "signalling" => caller[d].pc = "signalling"
    BY <1>1, <1>8 DEF CallProgress, Interrupt, Grace, Kill, KillSucceeds, KillFails,
       Reaped, Move, Call
  <2> QED BY <2>1, <2>2 DEF Signalling
<1> QED BY <1>3, <1>4, <1>5, <1>6, <1>7, <1>8 DEF Next

\* Once the group was seen empty nobody asks or insists any more, once the escalation is
\* claimed no further call gets to interrupt, and no interrupt is delivered behind those
\* that had looked before the claim (`interrupt`, `end_process_tree`).
THEOREM SignalsInOrder == Spec => SignalsOnlyEscalate
<1>1. Inv /\ [Next]_vars =>
        [ /\ escalation = "gone" => sent' = sent /\ stray' \ {"INT"} = stray \ {"INT"}
          /\ killed => Signalling' \subseteq Signalling
          /\ killed /\ Signalling = {} =>
                ("INT" \in sent' \cup stray' => "INT" \in sent \cup stray)
        ]_vars
  BY StepOnlyEscalates
<1> QED BY <1>1, Inductive, PTL DEF Spec, SignalsOnlyEscalate
=============================================================================
