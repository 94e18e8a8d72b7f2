---------------------------- MODULE ProcessStop ----------------------------
(***************************************************************************)
(* Stopping a vendor's process tree on Unix: the bounded stop and the      *)
(* cleanup guard of `process.rs` over the launcher's `TokioChild`          *)
(* (`launcher/tokio_launcher.rs`) and the operating system under it.       *)
(*                                                                         *)
(* The tree is one process group: a leader the launcher's task reaps, and  *)
(* helpers that may outlive it.  A signal goes to the group's number,      *)
(* which the system reserves while the group has a member and may give to  *)
(* anybody afterwards.  Several callers stop the same child, any of their  *)
(* futures may be dropped, and so may the last handle.  A deadline is a    *)
(* step that may come at any moment of the wait it bounds.  The            *)
(* escalation's look at the group and the signal right behind it are one   *)
(* step; an interrupt's look at the claim and its signal are two, since    *)
(* the claim is taken on any thread.                                       *)
(***************************************************************************)
EXTENDS Naturals, FiniteSets

CONSTANTS Callers,      \* calls to stop or to kill the child
          Worker,       \* the one the cleanup guard spawns
          Helpers       \* what the leader may start

ASSUME WorkerAssumption == Worker \in Callers

VARIABLES
    \* the operating system: the leader, the other members of its group,
    \* whether somebody else's group has the number, the signals the tree got,
    \* the signals somebody else's group got, and what the leader had been
    \* sent when it exited
    leader, helpers, reused, sent, stray,
    \* TokioChild: the reaper's watch, the escalation's claim, whether the
    \* last handle went away
    exitSeen, killed, childDropped,
    \* the owned escalation task, and how many were ever started
    escalation, escalations,
    \* the stop and kill calls, and who holds the control besides them
    caller, holder

osVars    == <<leader, helpers, reused, sent, stray>>
childVars == <<exitSeen, killed, childDropped>>
taskVars  == <<escalation, escalations>>
callVars  == <<caller, holder>>
vars == <<osVars, childVars, taskVars, callVars>>

Signals == {"INT", "TERM", "KILL"}

\* Where a call is: the await it is at, between the look of an interrupt and its
\* signal, or how it ended.
Waiting == {"interrupt", "grace", "kill", "escalating", "second", "reap"}
Busy    == Waiting \cup {"signalling"}
Ended   == {"ok", "error", "dropped"}
Call == [pc : {"idle"} \cup Busy \cup Ended,
         kind : {"stop", "kill"}, interrupted : BOOLEAN]

\* The escalation: not started, its steps, and what it found.
Escalation == {"none", "ask", "wait_term", "wait_kill", "insist", "gone",
               "refused"}

\* The group has no member left: the leader was reaped and no helper runs.
TreeGone == leader = "reaped" /\ helpers = {}

\* killpg(pid, 0) = ESRCH
tree_is_gone == TreeGone /\ ~reused

Init ==
    /\ leader = "running" /\ helpers = {} /\ reused = FALSE
    /\ sent = {} /\ stray = {}
    /\ exitSeen = FALSE /\ killed = FALSE /\ childDropped = FALSE
    /\ escalation = "none" /\ escalations = 0
    /\ caller = [c \in Callers |->
                   [pc |-> "idle", kind |-> "stop", interrupted |-> FALSE]]
    /\ holder = "guard"

-----------------------------------------------------------------------------
(* The operating system.  A member may fork until it is killed, and exit   *)
(* at any time, for whatever reason.                                       *)

Fork(h) ==
    /\ leader = "running" \/ helpers # {}
    /\ "KILL" \notin sent
    /\ h \notin helpers
    /\ helpers' = helpers \cup {h}
    /\ UNCHANGED <<leader, reused, sent, stray, childVars,
                   taskVars, callVars>>

LeaderExits ==
    /\ leader = "running"
    /\ leader' = "zombie"
    /\ UNCHANGED <<helpers, reused, sent, stray, childVars, taskVars,
                   callVars>>

HelperExits(h) ==
    /\ h \in helpers
    /\ helpers' = helpers \ {h}
    /\ UNCHANGED <<leader, reused, sent, stray, childVars,
                   taskVars, callVars>>

\* The number of an empty group goes to somebody else, and comes back.
NumberReused ==
    /\ TreeGone
    /\ reused' = ~reused
    /\ UNCHANGED <<leader, helpers, sent, stray, childVars,
                   taskVars, callVars>>

\* The reaper task's `child.wait()`: the zombie is collected first, and only
\* then is the exit published.
Reap ==
    /\ leader = "zombie"
    /\ leader' = "reaped"
    /\ UNCHANGED <<helpers, reused, sent, stray, childVars,
                   taskVars, callVars>>

PublishExit ==
    /\ leader = "reaped" /\ ~exitSeen
    /\ exitSeen' = TRUE
    /\ UNCHANGED <<osVars, killed, childDropped, taskVars, callVars>>

\* killpg: whoever has the number gets the signal.
Signal(s) ==
    /\ sent' = IF TreeGone THEN sent ELSE sent \cup {s}
    /\ stray' = IF reused THEN stray \cup {s} ELSE stray
    /\ UNCHANGED <<leader, helpers, reused>>

-----------------------------------------------------------------------------
(* The escalation: ask the tree to stop, wait, insist on what is left.     *)

EscalationGoesTo(place) ==
    /\ escalation' = place
    /\ UNCHANGED <<escalations, childVars, callVars>>

AskToStop ==
    /\ escalation = "ask"
    /\ IF tree_is_gone
       THEN EscalationGoesTo("gone") /\ UNCHANGED osVars
       ELSE EscalationGoesTo("wait_term") /\ Signal("TERM")

\* Mutant: the leader's exit is taken for the tree's.
SeesTheEnd_OfTheLeader ==
    /\ escalation \in {"wait_term", "wait_kill"}
    /\ exitSeen
    /\ EscalationGoesTo("gone") /\ UNCHANGED osVars

\* tree_ends_within: the poll sees the group empty...
SeesTheEnd ==
    /\ escalation \in {"wait_term", "wait_kill"}
    /\ tree_is_gone
    /\ EscalationGoesTo("gone") /\ UNCHANGED osVars

\* ... or the grace is over.
GraceOver ==
    /\ \/ escalation = "wait_term" /\ EscalationGoesTo("insist")
       \/ escalation = "wait_kill" /\ EscalationGoesTo("refused")
    /\ UNCHANGED osVars

InsistTreeStops ==
    /\ escalation = "insist"
    /\ EscalationGoesTo("wait_kill") /\ Signal("KILL")

Escalate == AskToStop \/ SeesTheEnd \/ GraceOver \/ InsistTreeStops

-----------------------------------------------------------------------------
(* stop_process_bounded, and kill called alone.                            *)

Move(c, place) == caller' = [caller EXCEPT ![c].pc = place]

\* The host starts one while it holds the control.
CallStarts(c) ==
    /\ c # Worker /\ holder = "host" /\ caller[c].pc = "idle"
    /\ \E kind \in {"stop", "kill"} :
          caller' = [caller EXCEPT ![c].kind = kind,
                       ![c].pc = IF kind = "stop" THEN "interrupt" ELSE "kill"]
    /\ UNCHANGED <<holder, osVars, childVars, taskVars>>

\* Not sent when the exit is known or the escalation is claimed...
Interrupt(c) ==
    /\ caller[c].pc = "interrupt"
    /\ Move(c, IF exitSeen \/ killed THEN "kill" ELSE "signalling")
    /\ UNCHANGED <<holder, osVars, childVars, taskVars>>

\* ... and sent to whatever has the number by then; an error of killpg is no
\* delivery either.
InterruptSignals(c) ==
    /\ caller[c].pc = "signalling"
    /\ Move(c, IF tree_is_gone THEN "kill" ELSE "grace")
    /\ Signal("INT")
    /\ UNCHANGED <<holder, childVars, taskVars>>

\* The wait for the interrupted leader: it exits, or the grace is over.
Grace(c) ==
    /\ caller[c].pc = "grace"
    /\ \E exited \in {exitSeen, FALSE} :
          caller' = [caller EXCEPT ![c].pc = "kill",
                                   ![c].interrupted = exited]
    /\ UNCHANGED <<holder, osVars, childVars, taskVars>>

\* TokioChild::kill: the first caller claims the escalation and awaits the
\* task that owns it; any other waits for the tree itself.
Kill(c) ==
    /\ caller[c].pc = "kill"
    /\ killed' = TRUE
    /\ IF killed
       THEN Move(c, "second") /\ UNCHANGED taskVars
       ELSE /\ Move(c, "escalating")
            /\ escalation' = "ask" /\ escalations' = escalations + 1
    /\ UNCHANGED <<holder, osVars, exitSeen, childDropped>>

\* The tree is known to be gone: a kill is done, a stop still waits for the
\* leader to be reaped.
KillSucceeds(c) ==
    /\ \/ caller[c].pc = "escalating" /\ escalation = "gone"
       \/ caller[c].pc = "second" /\ tree_is_gone
    /\ Move(c, IF caller[c].kind = "kill" THEN "ok" ELSE "reap")
    /\ UNCHANGED <<holder, osVars, childVars, taskVars>>

\* Mutant: a second caller waits for as long as the number is in use.
KillFails_SecondWaits(c) ==
    /\ \/ caller[c].pc = "escalating" /\ escalation = "refused"
       \/ caller[c].pc = "escalating" /\ caller[c].kind = "stop"
    /\ Move(c, "error")
    /\ UNCHANGED <<holder, osVars, childVars, taskVars>>

\* The escalation gave up, a second caller's wait or the shutdown bound of a
\* stop is over.
KillFails(c) ==
    /\ \/ caller[c].pc = "escalating" /\ escalation = "refused"
       \/ caller[c].pc = "escalating" /\ caller[c].kind = "stop"
       \/ caller[c].pc = "second"
    /\ Move(c, "error")
    /\ UNCHANGED <<holder, osVars, childVars, taskVars>>

Reaped(c) ==
    /\ caller[c].pc = "reap"
    /\ \/ exitSeen /\ Move(c, "ok")
       \/ Move(c, "error")
    /\ UNCHANGED <<holder, osVars, childVars, taskVars>>

\* A future of the host's is dropped at an await; the guard's worker is a
\* task of its own.
CallDropped(c) ==
    /\ c # Worker
    /\ caller[c].pc \in Waiting
    /\ Move(c, "dropped")
    /\ UNCHANGED <<holder, osVars, childVars, taskVars>>

CallProgress(c) ==
    \/ Interrupt(c) \/ InterruptSignals(c) \/ Grace(c) \/ Kill(c)
    \/ KillSucceeds(c) \/ KillFails(c) \/ Reaped(c)

-----------------------------------------------------------------------------
(* ProcessCleanupGuard, and the last handle.                               *)

Begin == caller' = [caller EXCEPT ![Worker].pc = "interrupt"]

GuardFinishes ==
    /\ holder = "guard"
    /\ holder' = "finish"
    /\ Begin
    /\ UNCHANGED <<osVars, childVars, taskVars>>

GuardDropped ==
    /\ holder = "guard"
    /\ holder' = "nobody"
    /\ Begin
    /\ UNCHANGED <<osVars, childVars, taskVars>>

IntoControl ==
    /\ holder = "guard"
    /\ holder' = "host"
    /\ UNCHANGED <<caller, osVars, childVars, taskVars>>

\* The worker is detached, not stopped.
FinishDropped ==
    /\ holder = "finish"
    /\ holder' = "nobody"
    /\ UNCHANGED <<caller, osVars, childVars, taskVars>>

\* A cleanup that failed hands the control to the host (CleanupRequired).
FinishAnswers ==
    /\ holder = "finish"
    /\ \/ caller[Worker].pc = "ok" /\ holder' = "nobody"
       \/ caller[Worker].pc = "error" /\ holder' = "host"
    /\ UNCHANGED <<caller, osVars, childVars, taskVars>>

HostLetsGo ==
    /\ holder = "host"
    /\ holder' = "nobody"
    /\ UNCHANGED <<caller, osVars, childVars, taskVars>>

LastHandle ==
    /\ holder = "nobody" /\ ~childDropped
    /\ \A c \in Callers : caller[c].pc \notin Busy

\* Mutant: a child that has exited is left alone.
ChildDropped_TrustsTheLeader ==
    /\ LastHandle
    /\ childDropped' = TRUE /\ killed' = TRUE
    /\ IF killed \/ exitSeen THEN UNCHANGED taskVars
       ELSE escalation' = "ask" /\ escalations' = escalations + 1
    /\ UNCHANGED <<osVars, exitSeen, callVars>>

\* TokioChild::drop: unless it was claimed, the same escalation, or, outside
\* a runtime, no grace at all.
ChildDropped ==
    /\ LastHandle
    /\ childDropped' = TRUE /\ killed' = TRUE
    /\ \/ killed /\ UNCHANGED <<osVars, taskVars>>
       \/ /\ ~killed
          /\ escalation' = "ask" /\ escalations' = escalations + 1
          /\ UNCHANGED osVars
       \/ /\ ~killed
          /\ escalations' = escalations + 1
          /\ IF tree_is_gone
             THEN escalation' = "gone" /\ UNCHANGED osVars
             ELSE escalation' = "refused" /\ Signal("KILL")
    /\ UNCHANGED <<exitSeen, callVars>>

-----------------------------------------------------------------------------
System ==
    \/ LeaderExits \/ NumberReused \/ Reap \/ PublishExit
    \/ \E h \in Helpers : Fork(h) \/ HelperExits(h)

Handles ==
    \/ GuardFinishes \/ GuardDropped \/ IntoControl \/ FinishDropped
    \/ FinishAnswers \/ HostLetsGo \/ ChildDropped
    \/ \E c \in Callers : CallStarts(c) \/ CallDropped(c)

Next == System \/ Handles \/ Escalate \/ \E c \in Callers : CallProgress(c)

Spec == Init /\ [][Next]_vars

\* A killed member dies.  Nothing else makes a process exit.
KilledDies ==
    /\ "KILL" \in sent
    /\ LeaderExits \/ \E h \in Helpers : HelperExits(h)

\* The runtime polls its tasks and fires its timers, and the kernel ends what
\* was killed; the vendor, the host and the other groups owe nothing.
Fairness ==
    /\ WF_vars(Reap) /\ WF_vars(PublishExit) /\ WF_vars(KilledDies)
    /\ WF_vars(Escalate) /\ WF_vars(ChildDropped)
    /\ \A c \in Callers : WF_vars(CallProgress(c))

FairSpec == Spec /\ Fairness

-----------------------------------------------------------------------------
(* Properties.                                                             *)

\* Every variable has its type; a signal is one the launcher sends.
TypeOK ==
    /\ leader \in {"running", "zombie", "reaped"}
    /\ helpers \subseteq Helpers
    /\ sent \subseteq Signals /\ stray \subseteq Signals
    /\ reused \in BOOLEAN /\ exitSeen \in BOOLEAN
    /\ killed \in BOOLEAN /\ childDropped \in BOOLEAN
    /\ escalation \in Escalation /\ escalations \in Nat
    /\ caller \in [Callers -> Call]
    /\ holder \in {"guard", "finish", "host", "nobody"}

\* A stop or kill that answers Ok, to whichever of several callers, has the
\* whole tree gone, helpers that outlived the leader included; a stop also
\* has the exit in hand (`ProcessControl::kill`, stop_process_bounded).
OkProvesTreeGone ==
    \A c \in Callers : caller[c].pc = "ok" =>
        TreeGone /\ (caller[c].kind = "stop" => exitSeen)

\* However many callers ask and whatever is dropped, the tree is escalated
\* against once (the `killed` claim of kill and of drop).
EscalatesOnce == escalations <= 1

\* The calls whose interrupt has looked at the claim and is not sent yet.
Signalling == {c \in Callers : caller[c].pc = "signalling"}

\* Once the escalation has seen the group empty nobody asks or insists any more; once it
\* is claimed no further call gets to interrupt, and when those that had looked before
\* the claim are through no interrupt is delivered (`interrupt`, `end_process_tree`).
SignalsOnlyEscalate ==
    [][ /\ escalation = "gone" => sent' = sent /\ stray' \ {"INT"} = stray \ {"INT"}
        /\ killed => Signalling' \subseteq Signalling
        /\ killed /\ Signalling = {} =>
              ("INT" \in sent' \cup stray' => "INT" \in sent \cup stray)
      ]_vars

\* Whoever lets go of the child, at whatever await, the tree ends: a guard
\* that is dropped, a finish that is cancelled, a stop that is abandoned, or
\* the last handle (`ProcessCleanupGuard`, `TokioChild::drop`).
AbandonedTreeEnds == (holder = "nobody") ~> TreeGone

\* Every stop and kill call answers, whether or not the tree ends: each
\* stage has a bound of its own (stop_process_bounded).
CallsAnswer ==
    \A c \in Callers : (caller[c].pc \in Waiting) ~> (caller[c].pc \in Ended)

\* "a tree that is already gone must not be signalled, because the number may
\* name whatever the operating system handed it to next"
\* (tokio_launcher.rs:868, the escalation's own promise).
EscalationSparesStrangers == stray \cap {"TERM", "KILL"} = {}
=============================================================================
