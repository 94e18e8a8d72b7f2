-------------------------- MODULE CodexTurnProofs --------------------------
(***************************************************************************)
(* What holds of the admission slot of a Codex session for any number of   *)
(* start attempts and of frames in flight.  The argument: before new work  *)
(* is stopped, a start that is installed and a native turn that may run    *)
(* have the slot; after it nobody takes the slot any more, so what had it  *)
(* is all there ever is.  A frame therefore belongs to the attempt in the  *)
(* slot or to a turn that was remembered as completed, which is what lets  *)
(* the first frame name a pending start.                                   *)
(* A second invariant follows why turns end: whoever wakes the teardown    *)
(* has first claimed what is still open, unless a stop or a close was      *)
(* asked for.  Last, every step is one of TurnAdmission or changes nothing *)
(* of what it speaks of.                                                   *)
(***************************************************************************)
EXTENDS CodexTurn, TLAPS

\* The start or the native turn of this attempt is not over.
Pending(o) == start[o] = "installed" \/ native[o] \in Live

\* The app-server may have sent frames of this native turn.
Known(o) == native[o] \in {"running", "over"}

SlotInv ==
    /\ slot.owner = NoOwner => slot = Vacant
    /\ slot.name = NoOwner => ~slot.dispatched
    /\ NamesItsOwnTurn

\* What has the slot before new work is stopped, and what had it after.
StartInv ==
    \A o \in Owners :
        /\ start[o] \in {"idle", "installed"} => native[o] = "none"
        /\ start[o] = "idle" => stop[o] = "none" /\ stream[o] = "none" /\ slot.owner # o
        /\ Pending(o) => slot.owner = o \/ (slot.owner = NoOwner /\ shutting)
        /\ Known(o) => slot.owner = o \/ o \in recent \/ (slot.owner = NoOwner /\ shutting)
        /\ stream[o] = "open" => slot.owner = o

OnePending == \A o, p \in Owners : Pending(o) /\ Pending(p) => o = p

InboxInv ==
    \A i \in 1..Len(inbox) :
        /\ Known(inbox[i][2])
        /\ inbox[i][1] = "completed" => native[inbox[i][2]] = "over"

\* A completion is claimed for the turn it names, and that turn is remembered.
HandlerInv ==
    /\ handler.at \in {"claim", "commit", "release"} /\ handler.as = "vendor" =>
         /\ handler.owner \in Owners
         /\ native[handler.owner] = "over"
         /\ handler.at = "claim" /\ slot.owner = handler.owner => slot.name = handler.owner
         /\ handler.at # "claim" => handler.owner \in recent
    /\ handler.at # "idle" /\ handler.as = "failed" => shutting
    /\ handler.at = "interrupt" => handler.as = "failed"
    /\ handler.at \in {"commit", "release"} => handler.owner \in Owners
    /\ handler.at = "release" => stream[handler.owner] # "open"

ReporterInv ==
    /\ reporter.at # "idle" => shutting
    /\ reporter.at \in {"commit", "release"} => reporter.owner \in Owners
    /\ reporter.at = "release" => stream[reporter.owner] # "open"

TeardownInv ==
    /\ teardown.at \notin {"none", "interrupt"} => shutting
    /\ teardown.at = "commit" => teardown.owner \in Owners
    /\ teardown.at \in {"commit", "settle"} => slot.owner = NoOwner \/ slot.finishing
    /\ TeardownEndsEveryTurn

InterruptInv ==
    \A o \in Owners :
        /\ interrupt[o] <= 1
        /\ start[o] = "idle" => interrupt[o] = 0
        /\ slot.owner = o /\ ~slot.dispatched => interrupt[o] = 0
        /\ slot.owner = o /\ stop[o] = "send" => slot.dispatched /\ interrupt[o] = 0

IInv ==
    /\ TypeOK /\ SlotInv /\ StartInv /\ OnePending /\ InboxInv
    /\ HandlerInv /\ ReporterInv /\ TeardownInv /\ InterruptInv

-----------------------------------------------------------------------------
(* What the operators the actions share do.                                *)

LEMMA NamedFacts ==
    /\ NoOwner \in Named /\ NoOwner \notin Owners
    /\ Owners \subseteq Named
    /\ \A x \in Named : x # NoOwner => x \in Owners
BY NoOwnerAssumption DEF Named

\* What the assignments to the slot make of it.
LEMMA TurnFacts ==
    ASSUME NEW o \in Named
    PROVE  /\ Turn(o) \in Slots /\ Turn(o).owner = o /\ Turn(o).name = NoOwner
           /\ Turn(o).dispatched = FALSE /\ Turn(o).finishing = FALSE
BY NamedFacts DEF Turn, Slots

LEMMA VacantFacts ==
    /\ Vacant \in Slots /\ Vacant.owner = NoOwner /\ Vacant.name = NoOwner
    /\ Vacant.dispatched = FALSE /\ Vacant.finishing = FALSE
BY TurnFacts, NamedFacts DEF Vacant

LEMMA NameFacts ==
    ASSUME slot \in Slots, NEW n \in Named, slot' = [slot EXCEPT !.name = n]
    PROVE  /\ slot' \in Slots /\ slot'.owner = slot.owner /\ slot'.name = n
           /\ slot'.dispatched = slot.dispatched /\ slot'.finishing = slot.finishing
BY DEF Slots

LEMMA DispatchFacts ==
    ASSUME slot \in Slots, slot' = [slot EXCEPT !.dispatched = TRUE]
    PROVE  /\ slot' \in Slots /\ slot'.owner = slot.owner /\ slot'.name = slot.name
           /\ slot'.dispatched = TRUE /\ slot'.finishing = slot.finishing
BY DEF Slots

LEMMA ClaimFacts ==
    ASSUME slot \in Slots, Claim
    PROVE  /\ slot' \in Slots /\ slot'.owner = slot.owner /\ slot'.name = slot.name
           /\ slot'.dispatched = slot.dispatched /\ slot'.finishing = TRUE
BY DEF Slots, Claim

LEMMA ActiveFacts ==
    ASSUME slot \in Slots, NEW o, Active(o)
    PROVE  o \in Owners /\ slot.owner = o /\ slot.finishing = FALSE
BY NamedFacts DEF Slots, Active

\* Ending a stream opens none and touches no other.
LEMMA EndedFacts ==
    ASSUME stream \in Streams, NEW o, NEW as \in Terminals
    PROVE  /\ Ended(o, as) \in Streams
           /\ \A p \in Owners : /\ Ended(o, as)[p] = "open" => stream[p] = "open" /\ p # o
                                /\ stream[p] = "none" => Ended(o, as)[p] = "none"
BY DEF Ended, Streams, Terminals

\* An interrupt is recorded on the turn it is sent for, and the turn had none.
LEMMA InterruptFacts ==
    ASSUME slot \in Slots, interrupt \in [Owners -> Nat], Interrupt
    PROVE  /\ slot' \in Slots /\ interrupt' \in [Owners -> Nat]
           /\ slot'.owner = slot.owner /\ slot'.name = slot.name
           /\ slot'.finishing = slot.finishing
           /\ \/ slot' = slot /\ interrupt' = interrupt
              \/ /\ slot.name \in Owners /\ slot.owner \in Owners
                 /\ slot.dispatched = FALSE /\ slot'.dispatched = TRUE
                 /\ \A p \in Owners : interrupt'[p] = IF p = slot.name THEN interrupt[p] + 1
                                                      ELSE interrupt[p]
<1>1. CASE Interruptible(slot.owner)
  <2>1. slot.name \in Owners /\ slot.owner \in Owners /\ slot.dispatched = FALSE
    BY <1>1, NamedFacts, ActiveFacts DEF Interruptible, Slots
  <2>2. /\ slot' = [slot EXCEPT !.dispatched = TRUE]
        /\ interrupt' = [interrupt EXCEPT ![slot.name] = @ + 1]
    BY <1>1 DEF Interrupt
  <2> QED BY <2>1, <2>2, DispatchFacts
<1>2. CASE ~Interruptible(slot.owner)
  BY <1>2 DEF Interrupt
<1> QED BY <1>1, <1>2

\* A frame that is handled is one of the attempt in the slot, and names it.
LEMMA HandlesFacts ==
    ASSUME IInv, NEW kind, Handles(kind)
    PROVE  /\ inbox # <<>> /\ inbox' = Tail(inbox) /\ handler.at = "idle"
           /\ slot.owner \in Owners /\ slot.finishing = FALSE
           /\ native[slot.owner] \in {"running", "over"}
           /\ Head(inbox)[1] \in kind
           /\ Head(inbox)[1] = "completed" => native[slot.owner] = "over"
           /\ slot' = [slot EXCEPT !.name = slot.owner]
<1> USE DEF IInv
<1>1. /\ inbox # <<>> /\ Head(inbox) \in Frames \X Owners
      /\ 1 \in 1..Len(inbox) /\ Head(inbox) = inbox[1]
  BY DEF Handles, TypeOK
<1>2. Known(Head(inbox)[2]) /\ (Head(inbox)[1] = "completed" => native[Head(inbox)[2]] = "over")
  BY <1>1 DEF InboxInv
<1>3. slot.owner \in Owners /\ slot.finishing = FALSE
  BY ActiveFacts DEF Handles, Routed, TypeOK
<1>4. Head(inbox)[2] = slot.owner
  BY <1>1, <1>2, <1>3, NamedFacts DEF Handles, Routed, SlotInv, NamesItsOwnTurn, StartInv, Known
<1> QED BY <1>1, <1>2, <1>3, <1>4 DEF Handles, Known

\* ... which changes nothing else of the slot, and leaves only the frames behind it.
LEMMA HandlesKeeps ==
    ASSUME IInv, NEW kind, Handles(kind)
    PROVE  /\ slot' \in Slots /\ slot'.owner = slot.owner /\ slot'.name = slot.owner
           /\ slot'.dispatched = slot.dispatched /\ slot'.finishing = FALSE
           /\ inbox' \in Seq(Frames \X Owners)
           /\ \A i \in 1..Len(inbox') : i + 1 \in 1..Len(inbox) /\ inbox'[i] = inbox[i + 1]
<1>1. slot' = [slot EXCEPT !.name = slot.owner] /\ slot.finishing = FALSE /\ slot.owner \in Named
  BY HandlesFacts, NamedFacts
<1>2. inbox # <<>> /\ inbox' = Tail(inbox)
  BY HandlesFacts
<1>3. slot \in Slots /\ inbox \in Seq(Frames \X Owners)
  BY DEF IInv, TypeOK
<1>4. /\ inbox' \in Seq(Frames \X Owners)
      /\ \A i \in 1..Len(inbox') : i + 1 \in 1..Len(inbox) /\ inbox'[i] = inbox[i + 1]
  BY <1>2, <1>3
<1> QED BY <1>1, <1>3, <1>4, NameFacts

LEMMA ReleaseFacts ==
    ASSUME slot \in Slots, NEW o, ReleaseClaimed(o)
    PROVE  /\ slot' \in Slots
           /\ \/ slot' = Vacant /\ slot.owner = o
              \/ slot' = slot /\ (slot.owner # o \/ slot.finishing = FALSE)
BY VacantFacts DEF ReleaseClaimed, Slots

LEMMA RefusedFacts ==
    ASSUME slot \in Slots, stream \in Streams, NEW o \in Owners, ReleaseRefused(o)
    PROVE  /\ slot' \in Slots /\ stream' \in Streams
           /\ \/ slot' = slot /\ stream' = stream
              \/ /\ slot.owner = o /\ slot' = Vacant /\ stream'[o] = "none"
                 /\ \A p \in Owners : p # o => stream'[p] = stream[p]
<1>1. CASE Active(o)
  BY <1>1, VacantFacts, ActiveFacts DEF ReleaseRefused, Streams
<1>2. CASE ~Active(o)
  BY <1>2 DEF ReleaseRefused
<1> QED BY <1>1, <1>2

-----------------------------------------------------------------------------
(* The steps.  Each says what it leaves alone, then what it makes of the   *)
(* rest, and then why every part of the invariant survives it.             *)

\* The slot is vacant and work is not stopped: nothing is pending.
LEMMA StartKeeps ==
    ASSUME IInv, TypeOK', NEW o \in Owners, Start(o)
    PROVE  IInv'
<1> USE DEF IInv
<1>1. UNCHANGED <<recent, native, interrupt, inbox, link, handler, reporter, shutting,
                   terminated, closed, teardown, stop>>
  BY DEF Start, vendor, tasks, ending
<1>2. /\ slot.owner = NoOwner /\ ~shutting /\ start[o] = "idle"
      /\ slot' = Turn(o)
  BY VacantFacts DEF Start
<1>3. /\ slot'.owner = o /\ slot'.name = NoOwner
      /\ slot'.dispatched = FALSE /\ slot'.finishing = FALSE
  BY <1>2, TurnFacts, NamedFacts
<1>4. /\ start'[o] = "installed" /\ stream'[o] = "open"
      /\ \A p \in Owners : p # o => start'[p] = start[p] /\ stream'[p] = stream[p]
  BY DEF Start, TypeOK, Streams
<1>5. SlotInv'
  BY <1>1, <1>2, <1>3, <1>4, NamedFacts DEF SlotInv, NamesItsOwnTurn
<1>6. StartInv'
  BY <1>1, <1>2, <1>3, <1>4, NamedFacts DEF StartInv, Pending, Known, Live, TypeOK
<1>7. OnePending'
  BY <1>1, <1>2, <1>3, <1>4, NamedFacts DEF OnePending, Pending, Live, TypeOK, StartInv, Known
<1>8. HandlerInv'
  BY <1>1, <1>2, <1>3, <1>4 DEF HandlerInv, TypeOK, StartInv
<1>9. ReporterInv'
  BY <1>1, <1>2, <1>3, <1>4 DEF ReporterInv, TypeOK
<1>10. TeardownInv'
  BY <1>1, <1>2, <1>3, <1>4 DEF TeardownInv, TeardownEndsEveryTurn, TypeOK
<1>11. InterruptInv'
  BY <1>1, <1>2, <1>3, <1>4 DEF InterruptInv, TypeOK, StartInv
<1>12. InboxInv'
  BY <1>1 DEF InboxInv, Known
<1> QED BY <1>5, <1>6, <1>7, <1>8, <1>9, <1>10, <1>11, <1>12

\* A start is refused before it had a turn, or of a turn that never ran.
LEMMA StartRefusedKeeps ==
    ASSUME IInv, TypeOK', NEW o \in Owners, StartRefused(o)
    PROVE  IInv'
<1> USE DEF IInv
<1>1. UNCHANGED <<recent, native, interrupt, inbox, link, handler, reporter, shutting,
                   terminated, closed, teardown, stop>>
  BY DEF StartRefused, ReleaseRefused, vendor, tasks, ending
<1>2. /\ start[o] # "idle" /\ native[o] \in {"none", "refused"}
      /\ start'[o] = "over"
      /\ \A p \in Owners : p # o => start'[p] = start[p]
  BY DEF StartRefused, StartInv, TypeOK
<1>3. \/ slot' = slot /\ stream' = stream
      \/ /\ slot.owner = o /\ slot' = Vacant /\ stream'[o] = "none"
         /\ \A p \in Owners : p # o => stream'[p] = stream[p]
  BY RefusedFacts DEF StartRefused, TypeOK
<1>4. SlotInv'
  BY <1>1, <1>2, <1>3, NamedFacts, VacantFacts DEF SlotInv, NamesItsOwnTurn, TypeOK
<1>5. StartInv'
  BY <1>1, <1>2, <1>3, NamedFacts, VacantFacts DEF StartInv, Pending, Known, Live, TypeOK
<1>6. OnePending'
  BY <1>1, <1>2 DEF OnePending, Pending, Live
<1>7. HandlerInv'
  BY <1>1, <1>2, <1>3, NamedFacts, VacantFacts DEF HandlerInv, TypeOK
<1>8. ReporterInv'
  BY <1>1, <1>2, <1>3, NamedFacts, VacantFacts DEF ReporterInv, TypeOK
<1>9. TeardownInv'
  BY <1>1, <1>2, <1>3, NamedFacts, VacantFacts DEF TeardownInv, TeardownEndsEveryTurn, TypeOK
<1>10. InterruptInv'
  BY <1>1, <1>2, <1>3, NamedFacts, VacantFacts DEF InterruptInv, TypeOK
<1>11. InboxInv'
  BY <1>1 DEF InboxInv, Known
<1> QED BY <1>4, <1>5, <1>6, <1>7, <1>8, <1>9, <1>10, <1>11

\* The answer names the attempt after its own native turn.
LEMMA StartAnsweredKeeps ==
    ASSUME IInv, TypeOK', NEW o \in Owners, StartAnswered(o)
    PROVE  IInv'
<1> USE DEF IInv
<1>1. UNCHANGED <<recent, stream, native, interrupt, inbox, link, handler, reporter,
                   shutting, terminated, closed, teardown, stop>>
  BY DEF StartAnswered, vendor, tasks, ending
<1>2. /\ start[o] = "written" /\ start'[o] = "returned"
      /\ \A p \in Owners : p # o => start'[p] = start[p]
  BY DEF StartAnswered, TypeOK
<1>3. \/ slot' = slot
      \/ slot.owner = o /\ slot' = [slot EXCEPT !.name = o]
  BY DEF StartAnswered
<1>4. \/ slot' = slot
      \/ /\ slot.owner = o /\ slot'.owner = o /\ slot'.name = o
         /\ slot'.dispatched = slot.dispatched /\ slot'.finishing = slot.finishing
  BY <1>3, NameFacts, NamedFacts DEF TypeOK
<1>5. SlotInv'
  BY <1>1, <1>2, <1>3, <1>4, NamedFacts, VacantFacts DEF SlotInv, NamesItsOwnTurn
<1>6. StartInv'
  BY <1>1, <1>2, <1>3, <1>4, NamedFacts, VacantFacts DEF StartInv, Pending, Known, Live
<1>7. OnePending'
  BY <1>1, <1>2, <1>3, <1>4, NamedFacts, VacantFacts DEF OnePending, Pending, Live
<1>8. HandlerInv'
  BY <1>1, <1>2, <1>3, <1>4, NamedFacts, VacantFacts DEF HandlerInv
<1>9. TeardownInv'
  BY <1>1, <1>2, <1>3, <1>4, NamedFacts, VacantFacts DEF TeardownInv, TeardownEndsEveryTurn
<1>10. InterruptInv'
  BY <1>1, <1>2, <1>3, <1>4, NamedFacts, VacantFacts DEF InterruptInv
<1>11. InboxInv' /\ ReporterInv'
  BY <1>1 DEF InboxInv, ReporterInv, Known
<1> QED BY <1>5, <1>6, <1>7, <1>8, <1>9, <1>10, <1>11

\* The interrupt is recorded on a turn that had none.
LEMMA StopLatchesKeeps ==
    ASSUME IInv, TypeOK', NEW o \in Owners, StopLatches(o)
    PROVE  IInv'
<1> USE DEF IInv
<1>1. UNCHANGED <<recent, start, stream, native, interrupt, inbox, link, handler,
                   reporter, shutting, terminated, closed, teardown>>
  BY DEF StopLatches, Goto, host, vendor, ending
<1>2. \/ slot' = slot /\ stop'[o] # "send"
      \/ Interruptible(o) /\ slot' = [slot EXCEPT !.dispatched = TRUE]
  BY DEF StopLatches, Goto, TypeOK
<1>3. \/ slot' = slot /\ stop'[o] # "send"
      \/ /\ slot.owner = o /\ slot.name # NoOwner /\ slot.dispatched = FALSE
         /\ slot'.owner = o /\ slot'.name = slot.name /\ slot'.dispatched = TRUE
         /\ slot'.finishing = slot.finishing
  BY <1>2, DispatchFacts, ActiveFacts DEF TypeOK, Interruptible, Slots
<1>4. /\ stop[o] # "none" /\ stop'[o] # "none"
      /\ \A p \in Owners : p # o => stop'[p] = stop[p]
  BY DEF StopLatches, Goto, TypeOK
<1>5. SlotInv'
  BY <1>1, <1>2, <1>3, <1>4, NamedFacts, VacantFacts DEF SlotInv, NamesItsOwnTurn
<1>6. StartInv'
  BY <1>1, <1>2, <1>3, <1>4, NamedFacts, VacantFacts DEF StartInv, Pending, Known, Live
<1>7. HandlerInv'
  BY <1>1, <1>2, <1>3, <1>4, NamedFacts, VacantFacts DEF HandlerInv
<1>8. TeardownInv'
  BY <1>1, <1>2, <1>3, <1>4, NamedFacts, VacantFacts DEF TeardownInv, TeardownEndsEveryTurn
<1>9. InterruptInv'
  BY <1>1, <1>2, <1>3, <1>4, NamedFacts, VacantFacts DEF InterruptInv
<1>10. OnePending' /\ InboxInv' /\ ReporterInv'
  BY <1>1 DEF OnePending, InboxInv, ReporterInv, Pending, Live, Known
<1> QED BY <1>5, <1>6, <1>7, <1>8, <1>9, <1>10

\* It is sent for the turn it was recorded on, if that is still in the slot.
LEMMA StopSendsKeeps ==
    ASSUME IInv, TypeOK', NEW o \in Owners, StopSends(o)
    PROVE  IInv'
<1> USE DEF IInv
<1>1. UNCHANGED <<slot, recent, start, stream, native, inbox, link, handler, reporter,
                   shutting, terminated, closed, teardown>>
  BY DEF StopSends, Goto, admission, host, ending
<1>2. /\ stop[o] = "send" /\ stop'[o] \notin {"none", "send"}
      /\ \A p \in Owners : p # o => stop'[p] = stop[p]
  BY DEF StopSends, Goto, TypeOK
<1>3. \/ interrupt' = interrupt
      \/ /\ slot.owner = o
         /\ interrupt' = [interrupt EXCEPT ![slot.name] = @ + 1]
  BY DEF StopSends, Active
<1>4. \/ interrupt' = interrupt
      \/ /\ slot.owner = o /\ slot.dispatched /\ interrupt[o] = 0
         /\ \A p \in Owners : interrupt'[p] = IF p = o THEN 1 ELSE interrupt[p]
  BY <1>2, <1>3 DEF InterruptInv, SlotInv, NamesItsOwnTurn, TypeOK
<1>5. StartInv'
  BY <1>1, <1>2, <1>3, <1>4 DEF StartInv, Pending, Known, Live, TypeOK
<1>6. InterruptInv'
  BY <1>1, <1>2, <1>3, <1>4 DEF InterruptInv, TypeOK, StartInv
<1>7. SlotInv' /\ OnePending' /\ InboxInv' /\ HandlerInv' /\ ReporterInv' /\ TeardownInv'
  BY <1>1 DEF SlotInv, OnePending, InboxInv, HandlerInv, ReporterInv, TeardownInv,
         NamesItsOwnTurn, Pending, Live, Known, TeardownEndsEveryTurn
<1> QED BY <1>5, <1>6, <1>7

\* A frame names the attempt it is for; publishing it opens no stream.
LEMMA HandleItemKeeps ==
    ASSUME IInv, TypeOK', HandleItem
    PROVE  IInv'
<1> USE DEF IInv
<1>1. UNCHANGED <<recent, start, native, interrupt, link, handler, reporter, shutting,
                   terminated, closed, teardown, stop>>
  BY DEF HandleItem, Handles, tasks, ending
<1>2. Handles({"item"})
  BY DEF HandleItem
<1>3. /\ handler.at = "idle" /\ slot.owner \in Owners /\ slot.finishing = FALSE
      /\ native[slot.owner] \in {"running", "over"}
      /\ slot'.owner = slot.owner /\ slot'.name = slot.owner
      /\ slot'.dispatched = slot.dispatched /\ slot'.finishing = FALSE
  BY <1>2, HandlesFacts, HandlesKeeps
<1>4. \A i \in 1..Len(inbox') : i + 1 \in 1..Len(inbox) /\ inbox'[i] = inbox[i + 1]
  BY <1>2, HandlesKeeps
<1>5. \A p \in Owners : /\ stream'[p] = "open" => stream[p] = "open"
                        /\ stream[p] = "none" => stream'[p] = "none" 
  BY EndedFacts DEF HandleItem, TypeOK, Terminals
<1>6. SlotInv'
  BY <1>1, <1>2, <1>3, <1>4, <1>5, NamedFacts, VacantFacts DEF SlotInv, NamesItsOwnTurn
<1>7. StartInv'
  BY <1>1, <1>3, <1>5, NamedFacts DEF StartInv, Pending, Known, Live
<1>8. InboxInv'
  BY <1>1, <1>2, <1>3, <1>4, <1>5, NamedFacts, VacantFacts DEF InboxInv, Known
<1>9. HandlerInv'
  BY <1>1, <1>2, <1>3, <1>4, <1>5, NamedFacts, VacantFacts DEF HandlerInv
<1>10. ReporterInv'
  BY <1>1, <1>5 DEF ReporterInv
<1>11. TeardownInv'
  BY <1>1, <1>2, <1>3, <1>4, <1>5, NamedFacts, VacantFacts DEF TeardownInv, TeardownEndsEveryTurn
<1>12. InterruptInv'
  BY <1>1, <1>2, <1>3, <1>4, <1>5, NamedFacts, VacantFacts DEF InterruptInv
<1>13. OnePending'
  BY <1>1 DEF OnePending, Pending, Live
<1> QED BY <1>6, <1>7, <1>8, <1>9, <1>10, <1>11, <1>12, <1>13

\* The completion that is going to be claimed is of the turn in the slot.
LEMMA HandleCompletedKeeps ==
    ASSUME IInv, TypeOK', HandleCompleted
    PROVE  IInv'
<1> USE DEF IInv
<1>1. UNCHANGED <<recent, start, stream, native, interrupt, link, reporter, shutting,
                   terminated, closed, teardown, stop>>
  BY DEF HandleCompleted, Handles, host, vendor, ending
<1>2. Handles({"completed"})
  BY DEF HandleCompleted
<1>3. /\ handler.at = "idle" /\ slot.owner \in Owners /\ slot.finishing = FALSE
      /\ native[slot.owner] \in {"running", "over"}
      /\ slot'.owner = slot.owner /\ slot'.name = slot.owner
      /\ slot'.dispatched = slot.dispatched /\ slot'.finishing = FALSE
  BY <1>2, HandlesFacts, HandlesKeeps
<1>4. \A i \in 1..Len(inbox') : i + 1 \in 1..Len(inbox) /\ inbox'[i] = inbox[i + 1]
  BY <1>2, HandlesKeeps
<1>5. Head(inbox)[1] \in {"completed"}
  BY <1>2, HandlesFacts
<1>6. /\ native[slot.owner] = "over"
      /\ handler' = [at |-> "claim", owner |-> slot.owner, as |-> "vendor"]
  BY <1>2, <1>5, HandlesFacts DEF HandleCompleted
<1>7. SlotInv'
  BY <1>1, <1>2, <1>3, <1>4, <1>5, <1>6, NamedFacts, VacantFacts DEF SlotInv, NamesItsOwnTurn
<1>8. StartInv'
  BY <1>1, <1>3, NamedFacts DEF StartInv, Pending, Known, Live
<1>9. InboxInv'
  BY <1>1, <1>2, <1>3, <1>4, <1>5, <1>6, NamedFacts, VacantFacts DEF InboxInv, Known
<1>10. HandlerInv'
  BY <1>1, <1>2, <1>3, <1>4, <1>5, <1>6, NamedFacts, VacantFacts DEF HandlerInv
<1>11. TeardownInv'
  BY <1>1, <1>2, <1>3, <1>4, <1>5, <1>6, NamedFacts, VacantFacts DEF TeardownInv, TeardownEndsEveryTurn
<1>12. InterruptInv'
  BY <1>1, <1>2, <1>3, <1>4, <1>5, <1>6, NamedFacts, VacantFacts DEF InterruptInv
<1>13. OnePending' /\ ReporterInv'
  BY <1>1 DEF OnePending, ReporterInv, Pending, Live
<1> QED BY <1>7, <1>8, <1>9, <1>10, <1>11, <1>12, <1>13

\* A poison stops new work before it goes for the turn.
LEMMA HandlePoisonKeeps ==
    ASSUME IInv, TypeOK', HandlePoison
    PROVE  IInv'
<1> USE DEF IInv
<1>1. UNCHANGED <<recent, start, native, interrupt, link, reporter, terminated, closed,
                   teardown, stop>>
  BY DEF HandlePoison, Handles
<1>2. Handles(Frames)
  BY DEF HandlePoison
<1>3. /\ handler.at = "idle" /\ slot.owner \in Owners /\ slot.finishing = FALSE
      /\ native[slot.owner] \in {"running", "over"}
      /\ slot'.owner = slot.owner /\ slot'.name = slot.owner
      /\ slot'.dispatched = slot.dispatched /\ slot'.finishing = FALSE
  BY <1>2, HandlesFacts, HandlesKeeps
<1>4. \A i \in 1..Len(inbox') : i + 1 \in 1..Len(inbox) /\ inbox'[i] = inbox[i + 1]
  BY <1>2, HandlesKeeps
<1>5. \A p \in Owners : /\ stream'[p] = "open" => stream[p] = "open"
                        /\ stream[p] = "none" => stream'[p] = "none" 
  BY EndedFacts DEF HandlePoison, TypeOK, Terminals
<1>6. /\ shutting'
      /\ handler' = handler \/ handler' = [at |-> "interrupt", owner |-> NoOwner, as |-> "failed"]
  BY DEF HandlePoison
<1>7. SlotInv'
  BY <1>1, <1>2, <1>3, <1>4, <1>5, <1>6, NamedFacts, VacantFacts DEF SlotInv, NamesItsOwnTurn
<1>8. StartInv'
  BY <1>1, <1>3, <1>5, <1>6, NamedFacts DEF StartInv, Pending, Known, Live
<1>9. InboxInv'
  BY <1>1, <1>2, <1>3, <1>4, <1>5, <1>6, NamedFacts, VacantFacts DEF InboxInv, Known
<1>10. HandlerInv'
  BY <1>1, <1>2, <1>3, <1>4, <1>5, <1>6, NamedFacts, VacantFacts DEF HandlerInv
<1>11. ReporterInv'
  BY <1>1, <1>5, <1>6 DEF ReporterInv
<1>12. TeardownInv'
  BY <1>1, <1>2, <1>3, <1>4, <1>5, <1>6, NamedFacts, VacantFacts DEF TeardownInv, TeardownEndsEveryTurn
<1>13. InterruptInv'
  BY <1>1, <1>2, <1>3, <1>4, <1>5, <1>6, NamedFacts, VacantFacts DEF InterruptInv
<1>14. OnePending'
  BY <1>1 DEF OnePending, Pending, Live
<1> QED BY <1>7, <1>8, <1>9, <1>10, <1>11, <1>12, <1>13, <1>14

\* The interrupt of a poison is the first of its turn.
LEMMA PoisonInterruptsKeeps ==
    ASSUME IInv, TypeOK', PoisonInterrupts
    PROVE  IInv'
<1> USE DEF IInv
<1>1. UNCHANGED <<recent, start, stream, native, inbox, link, reporter, shutting,
                   terminated, closed, teardown, stop>>
  BY DEF PoisonInterrupts, Interrupt, host, ending
<1>2. /\ slot'.owner = slot.owner /\ slot'.name = slot.name
      /\ slot'.finishing = slot.finishing
  BY InterruptFacts DEF PoisonInterrupts, TypeOK
<1>3. \/ slot' = slot /\ interrupt' = interrupt
      \/ /\ slot.name \in Owners /\ slot.owner = slot.name
         /\ slot.dispatched = FALSE /\ slot'.dispatched = TRUE
         /\ \A p \in Owners : interrupt'[p] = IF p = slot.name THEN interrupt[p] + 1
                                              ELSE interrupt[p]
  BY InterruptFacts, NamedFacts DEF PoisonInterrupts, TypeOK, SlotInv, NamesItsOwnTurn
<1>4. handler.at = "interrupt" /\ handler'.at = "claim" /\ handler'.as = handler.as
  BY DEF PoisonInterrupts, TypeOK
<1>5. SlotInv'
  BY <1>1, <1>2, <1>3, <1>4, NamedFacts, VacantFacts DEF SlotInv, NamesItsOwnTurn
<1>6. StartInv'
  BY <1>1, <1>2, <1>3, <1>4, NamedFacts, VacantFacts DEF StartInv, Pending, Known, Live
<1>7. HandlerInv'
  BY <1>1, <1>2, <1>3, <1>4, NamedFacts, VacantFacts DEF HandlerInv
<1>8. TeardownInv'
  BY <1>1, <1>2, <1>3, <1>4, NamedFacts, VacantFacts DEF TeardownInv, TeardownEndsEveryTurn
<1>9. InterruptInv'
  BY <1>1, <1>2, <1>3, <1>4, NamedFacts, VacantFacts DEF InterruptInv, TypeOK, StartInv
<1>10. OnePending' /\ InboxInv' /\ ReporterInv'
  BY <1>1 DEF OnePending, InboxInv, ReporterInv, Pending, Live, Known
<1> QED BY <1>5, <1>6, <1>7, <1>8, <1>9, <1>10

\* So is the teardown's, which stops new work first.
LEMMA TeardownInterruptsKeeps ==
    ASSUME IInv, TypeOK', TeardownInterrupts
    PROVE  IInv'
<1> USE DEF IInv
<1>1. UNCHANGED <<recent, start, stream, native, inbox, link, handler, reporter,
                   terminated, closed, stop>>
  BY DEF TeardownInterrupts, Interrupt, host
<1>2. /\ slot'.owner = slot.owner /\ slot'.name = slot.name
      /\ slot'.finishing = slot.finishing
  BY InterruptFacts DEF TeardownInterrupts, TypeOK
<1>3. \/ slot' = slot /\ interrupt' = interrupt
      \/ /\ slot.name \in Owners /\ slot.owner = slot.name
         /\ slot.dispatched = FALSE /\ slot'.dispatched = TRUE
         /\ \A p \in Owners : interrupt'[p] = IF p = slot.name THEN interrupt[p] + 1
                                              ELSE interrupt[p]
  BY InterruptFacts, NamedFacts DEF TeardownInterrupts, TypeOK, SlotInv, NamesItsOwnTurn
<1>4. shutting' /\ teardown.at = "interrupt" /\ teardown'.at = "claim"
  BY DEF TeardownInterrupts, TypeOK
<1>5. SlotInv'
  BY <1>1, <1>2, <1>3, <1>4, NamedFacts, VacantFacts DEF SlotInv, NamesItsOwnTurn
<1>6. StartInv'
  BY <1>1, <1>2, <1>3, <1>4, NamedFacts, VacantFacts DEF StartInv, Pending, Known, Live
<1>7. HandlerInv'
  BY <1>1, <1>2, <1>3, <1>4, NamedFacts, VacantFacts DEF HandlerInv
<1>8. ReporterInv'
  BY <1>1, <1>2, <1>3, <1>4, NamedFacts, VacantFacts DEF ReporterInv
<1>9. TeardownInv'
  BY <1>1, <1>2, <1>3, <1>4, NamedFacts, VacantFacts DEF TeardownInv, TeardownEndsEveryTurn
<1>10. InterruptInv'
  BY <1>1, <1>2, <1>3, <1>4, NamedFacts, VacantFacts DEF InterruptInv, TypeOK, StartInv
<1>11. OnePending' /\ InboxInv'
  BY <1>1 DEF OnePending, InboxInv, Pending, Live, Known
<1> QED BY <1>5, <1>6, <1>7, <1>8, <1>9, <1>10, <1>11

\* A completion is claimed of the turn it names, which is remembered.
LEMMA HandlerClaimsKeeps ==
    ASSUME IInv, TypeOK', HandlerClaims
    PROVE  IInv'
<1> USE DEF IInv
<1>1. UNCHANGED <<start, stream, native, interrupt, inbox, link, reporter, shutting,
                   closed, teardown, stop>>
  BY DEF HandlerClaims, Claim, admission, host, vendor
<1>2. \/ slot' = slot /\ recent' = recent /\ handler' = HandlerAt("idle")
      \/ /\ handler.as = "vendor" /\ Active(handler.owner) /\ Claim
         /\ recent' = recent \cup {slot.name}
         /\ handler' = [handler EXCEPT !.at = "commit", !.owner = handler.owner]
      \/ /\ handler.as # "vendor" /\ Active(slot.owner) /\ Claim
         /\ recent' = recent
         /\ handler' = [handler EXCEPT !.at = "commit", !.owner = slot.owner]
  <2>1. CASE handler.as = "vendor"
    BY <2>1 DEF HandlerClaims, admission
  <2>2. CASE handler.as # "vendor"
    BY <2>2 DEF HandlerClaims, admission
  <2> QED BY <2>1, <2>2
<1>3. \/ slot' = slot /\ recent' = recent /\ handler'.at = "idle" /\ handler'.as = "vendor"
      \/ /\ handler.as = "vendor" /\ slot.owner = handler.owner
         /\ recent' = recent \cup {slot.name}
         /\ handler'.as = "vendor" /\ handler'.owner = handler.owner /\ handler'.at = "commit"
      \/ /\ handler.as = "failed" /\ recent' = recent /\ slot.owner \in Owners
         /\ handler'.as = "failed" /\ handler'.owner = slot.owner /\ handler'.at = "commit" 
  <2>1. handler \in [at: Working, owner: Named, as: {"vendor", "failed"}] /\ slot \in Slots
    BY DEF TypeOK
  <2>2. CASE handler' = HandlerAt("idle") /\ slot' = slot /\ recent' = recent
    BY <2>2 DEF HandlerAt
  <2>3. CASE /\ handler.as = "vendor" /\ Active(handler.owner) /\ recent' = recent \cup {slot.name}
             /\ handler' = [handler EXCEPT !.at = "commit", !.owner = handler.owner]
    BY <2>1, <2>3, ActiveFacts
  <2>4. CASE /\ handler.as # "vendor" /\ Active(slot.owner) /\ recent' = recent
             /\ handler' = [handler EXCEPT !.at = "commit", !.owner = slot.owner]
    BY <2>1, <2>4, ActiveFacts
  <2> QED BY <1>2, <2>2, <2>3, <2>4
<1>4. /\ slot'.owner = slot.owner /\ slot'.name = slot.name
      /\ slot'.dispatched = slot.dispatched
      /\ slot' = slot \/ (slot'.finishing /\ slot.owner \in Owners)
  BY <1>2, ClaimFacts, ActiveFacts DEF TypeOK
<1>5. handler.at = "claim"
  BY DEF HandlerClaims
<1>6. SlotInv'
  BY <1>1, <1>3, <1>4, <1>5, NamedFacts, VacantFacts DEF SlotInv, NamesItsOwnTurn
<1>7. StartInv'
  BY <1>1, <1>3, <1>4, <1>5, NamedFacts, VacantFacts DEF StartInv, Pending, Known, Live
<1>8. HandlerInv'
  BY <1>1, <1>3, <1>4, <1>5, NamedFacts, VacantFacts DEF HandlerInv
<1>9. TeardownInv'
  BY <1>1, <1>3, <1>4, <1>5, NamedFacts, VacantFacts DEF TeardownInv, TeardownEndsEveryTurn
<1>10. InterruptInv'
  BY <1>1, <1>3, <1>4, <1>5, NamedFacts, VacantFacts DEF InterruptInv
<1>11. OnePending' /\ InboxInv' /\ ReporterInv'
  BY <1>1 DEF OnePending, InboxInv, ReporterInv, Pending, Live, Known
<1> QED BY <1>6, <1>7, <1>8, <1>9, <1>10, <1>11

\* The report claims after new work was stopped.
LEMMA ReporterClaimsKeeps ==
    ASSUME IInv, TypeOK', ReporterClaims
    PROVE  IInv'
<1> USE DEF IInv
<1>1. UNCHANGED <<recent, start, stream, native, interrupt, inbox, link, handler,
                   shutting, closed, teardown, stop>>
  BY DEF ReporterClaims, Claim, host, vendor
<1>2. \/ slot' = slot /\ (slot.owner = NoOwner \/ slot.finishing)
      \/ Claim /\ Active(slot.owner)
  BY DEF ReporterClaims, Active
<1>3. /\ slot'.owner = slot.owner /\ slot'.name = slot.name
      /\ slot'.dispatched = slot.dispatched
      /\ \/ slot' = slot /\ (slot.owner = NoOwner \/ slot.finishing)
         \/ slot'.finishing /\ slot.owner \in Owners
  BY <1>2, ClaimFacts, ActiveFacts DEF TypeOK
<1>4. \/ reporter' = [at |-> "gone", owner |-> NoOwner]
      \/ reporter' = [at |-> "commit", owner |-> slot.owner] /\ Active(slot.owner)
  BY DEF ReporterClaims
<1>5. shutting
  BY DEF ReporterClaims, ReporterInv
<1>6. Active(slot.owner) => slot.owner \in Owners
  BY ActiveFacts DEF TypeOK
<1>7. SlotInv'
  BY <1>1, <1>3, <1>4, <1>5, <1>6, NamedFacts, VacantFacts DEF SlotInv, NamesItsOwnTurn
<1>8. StartInv'
  BY <1>1, <1>3, <1>4, <1>5, <1>6, NamedFacts, VacantFacts DEF StartInv, Pending, Known, Live
<1>9. HandlerInv'
  BY <1>1, <1>3, <1>4, <1>5, <1>6, NamedFacts, VacantFacts DEF HandlerInv
<1>10. ReporterInv'
  BY <1>1, <1>3, <1>4, <1>5, <1>6, NamedFacts, VacantFacts DEF ReporterInv
<1>11. TeardownInv'
  BY <1>1, <1>3, <1>4, <1>5, <1>6, NamedFacts, VacantFacts DEF TeardownInv, TeardownEndsEveryTurn
<1>12. InterruptInv'
  BY <1>1, <1>3, <1>4, <1>5, <1>6, NamedFacts, VacantFacts DEF InterruptInv
<1>13. OnePending' /\ InboxInv'
  BY <1>1 DEF OnePending, InboxInv, Pending, Live, Known
<1> QED BY <1>7, <1>8, <1>9, <1>10, <1>11, <1>12, <1>13

\* Behind the teardown's claim nobody is left to claim.
LEMMA TeardownClaimsKeeps ==
    ASSUME IInv, TypeOK', TeardownClaims
    PROVE  IInv'
<1> USE DEF IInv
<1>1. UNCHANGED <<recent, start, stream, native, interrupt, inbox, link, handler,
                   reporter, shutting, terminated, closed, stop>>
  BY DEF TeardownClaims, Claim, host, vendor, ending
<1>2. \/ slot' = slot /\ (slot.owner = NoOwner \/ slot.finishing)
      \/ Claim /\ Active(slot.owner)
  BY DEF TeardownClaims, Active
<1>3. /\ slot'.owner = slot.owner /\ slot'.name = slot.name
      /\ slot'.dispatched = slot.dispatched
      /\ \/ slot' = slot /\ (slot.owner = NoOwner \/ slot.finishing)
         \/ slot'.finishing /\ slot.owner \in Owners
  BY <1>2, ClaimFacts, ActiveFacts DEF TypeOK
<1>4. \/ slot' = slot /\ teardown' = [teardown EXCEPT !.at = "settle"]
      \/ Claim /\ Active(slot.owner) /\ teardown' = [at |-> "commit", owner |-> slot.owner]
  BY DEF TeardownClaims
<1>5. shutting
  BY DEF TeardownClaims, TeardownInv
<1>6. Active(slot.owner) => slot.owner \in Owners
  BY ActiveFacts DEF TypeOK
<1>7. teardown'.at \in {"commit", "settle"}
  BY <1>4 DEF TypeOK
<1>8. teardown'.at = "commit" => teardown'.owner \in Owners
  BY <1>4, <1>6 DEF TypeOK
<1>9. SlotInv'
  BY <1>1, <1>3, <1>4, <1>5, <1>6, <1>7, <1>8, NamedFacts, VacantFacts DEF SlotInv, NamesItsOwnTurn
<1>10. StartInv'
  BY <1>1, <1>3, <1>4, <1>5, <1>6, <1>7, <1>8, NamedFacts, VacantFacts DEF StartInv, Pending, Known, Live
<1>11. HandlerInv'
  BY <1>1, <1>3, <1>4, <1>5, <1>6, <1>7, <1>8, NamedFacts, VacantFacts DEF HandlerInv
<1>12. TeardownInv'
  BY <1>1, <1>3, <1>5, <1>7, <1>8 DEF TeardownInv, TeardownEndsEveryTurn
<1>13. InterruptInv'
  BY <1>1, <1>3, <1>4, <1>5, <1>6, <1>7, <1>8, NamedFacts, VacantFacts DEF InterruptInv
<1>14. OnePending' /\ InboxInv' /\ ReporterInv'
  BY <1>1 DEF OnePending, InboxInv, ReporterInv, Pending, Live, Known
<1> QED BY <1>9, <1>10, <1>11, <1>12, <1>13, <1>14

\* A committed stream is not open.
LEMMA HandlerCommitsKeeps ==
    ASSUME IInv, TypeOK', HandlerCommits
    PROVE  IInv'
<1> USE DEF IInv
<1>1. UNCHANGED <<slot, recent, start, native, interrupt, inbox, link, reporter,
                   shutting, terminated, closed, teardown, stop>>
  BY DEF HandlerCommits, admission, vendor, ending
<1>2. \A p \in Owners : /\ stream'[p] = "open" => stream[p] = "open" /\ p # handler.owner
                        /\ stream[p] = "none" => stream'[p] = "none" 
  BY EndedFacts DEF HandlerCommits, TypeOK, Terminals
<1>3. handler.at = "commit" /\ handler' = [handler EXCEPT !.at = "release"]
  BY DEF HandlerCommits
<1>4. handler'.at = "release" /\ handler'.owner = handler.owner /\ handler'.as = handler.as
  BY <1>3 DEF TypeOK
<1>5. StartInv'
  BY <1>1, <1>2, <1>3, <1>4, NamedFacts, VacantFacts DEF StartInv, Pending, Known, Live
<1>6. HandlerInv'
  BY <1>1, <1>2, <1>3, <1>4, NamedFacts, VacantFacts DEF HandlerInv
<1>7. ReporterInv'
  BY <1>1, <1>2, <1>3, <1>4, NamedFacts, VacantFacts DEF ReporterInv
<1>8. TeardownInv'
  BY <1>1, <1>2, <1>3, <1>4, NamedFacts, VacantFacts DEF TeardownInv, TeardownEndsEveryTurn
<1>9. SlotInv' /\ OnePending' /\ InboxInv' /\ InterruptInv'
  BY <1>1 DEF SlotInv, OnePending, InboxInv, InterruptInv, NamesItsOwnTurn, Pending,
         Live, Known
<1> QED BY <1>5, <1>6, <1>7, <1>8, <1>9

\* A committed stream is not open.
LEMMA ReporterCommitsKeeps ==
    ASSUME IInv, TypeOK', ReporterCommits
    PROVE  IInv'
<1> USE DEF IInv
<1>1. UNCHANGED <<slot, recent, start, native, interrupt, inbox, link, handler, shutting,
                   terminated, closed, teardown, stop>>
  BY DEF ReporterCommits, admission, vendor, ending
<1>2. \A p \in Owners : /\ stream'[p] = "open" => stream[p] = "open" /\ p # reporter.owner
                        /\ stream[p] = "none" => stream'[p] = "none" 
  BY EndedFacts DEF ReporterCommits, TypeOK, Terminals
<1>3. reporter.at = "commit" /\ reporter' = [reporter EXCEPT !.at = "release"]
  BY DEF ReporterCommits
<1>4. reporter'.at = "release" /\ reporter'.owner = reporter.owner
  BY <1>3 DEF TypeOK
<1>5. StartInv'
  BY <1>1, <1>2, <1>3, <1>4, NamedFacts, VacantFacts DEF StartInv, Pending, Known, Live
<1>6. HandlerInv'
  BY <1>1, <1>2, <1>3, <1>4, NamedFacts, VacantFacts DEF HandlerInv
<1>7. ReporterInv'
  BY <1>1, <1>2, <1>3, <1>4, NamedFacts, VacantFacts DEF ReporterInv
<1>8. TeardownInv'
  BY <1>1, <1>2, <1>3, <1>4, NamedFacts, VacantFacts DEF TeardownInv, TeardownEndsEveryTurn
<1>9. SlotInv' /\ OnePending' /\ InboxInv' /\ InterruptInv'
  BY <1>1 DEF SlotInv, OnePending, InboxInv, InterruptInv, NamesItsOwnTurn, Pending,
         Live, Known
<1> QED BY <1>5, <1>6, <1>7, <1>8, <1>9

\* A turn leaves admission with its stream ended and, if it completed, remembered.
LEMMA HandlerReleasesKeeps ==
    ASSUME IInv, TypeOK', HandlerReleases
    PROVE  IInv'
<1> USE DEF IInv
<1>1. UNCHANGED <<recent, start, stream, native, interrupt, inbox, link, reporter,
                   shutting, closed, teardown, stop>>
  BY DEF HandlerReleases, host, vendor
<1>2. handler.at = "release" /\ handler'.at \in {"idle", "gone"} /\ handler'.as = "vendor"
  BY DEF HandlerReleases, HandlerAt
<1>3. \/ slot' = slot
      \/ slot' = Vacant /\ slot.owner = handler.owner
  BY ReleaseFacts DEF HandlerReleases, TypeOK
<1>4. SlotInv'
  BY <1>1, <1>2, <1>3, NamedFacts, VacantFacts DEF SlotInv, NamesItsOwnTurn
<1>5. StartInv'
  BY <1>1, <1>2, <1>3, NamedFacts, VacantFacts DEF StartInv, Pending, Known, Live, HandlerInv, TypeOK
<1>6. HandlerInv'
  BY <1>1, <1>2, <1>3, NamedFacts, VacantFacts DEF HandlerInv
<1>7. TeardownInv'
  BY <1>1, <1>2, <1>3, NamedFacts, VacantFacts DEF TeardownInv, TeardownEndsEveryTurn
<1>8. InterruptInv'
  BY <1>1, <1>2, <1>3, NamedFacts, VacantFacts DEF InterruptInv
<1>9. OnePending' /\ InboxInv' /\ ReporterInv'
  BY <1>1 DEF OnePending, InboxInv, ReporterInv, Pending, Live, Known
<1> QED BY <1>4, <1>5, <1>6, <1>7, <1>8, <1>9

\* A turn leaves admission with its stream ended.
LEMMA ReporterReleasesKeeps ==
    ASSUME IInv, TypeOK', ReporterReleases
    PROVE  IInv'
<1> USE DEF IInv
<1>1. UNCHANGED <<recent, start, stream, native, interrupt, inbox, link, handler,
                   shutting, closed, teardown, stop>>
  BY DEF ReporterReleases, host, vendor
<1>2. reporter.at = "release" /\ reporter'.at \in {"idle", "gone"}
  BY DEF ReporterReleases, HandlerAt
<1>3. \/ slot' = slot
      \/ slot' = Vacant /\ slot.owner = reporter.owner
  BY ReleaseFacts DEF ReporterReleases, TypeOK
<1>4. SlotInv'
  BY <1>1, <1>2, <1>3, NamedFacts, VacantFacts DEF SlotInv, NamesItsOwnTurn
<1>5. StartInv'
  BY <1>1, <1>2, <1>3, NamedFacts, VacantFacts DEF StartInv, Pending, Known, Live, ReporterInv
<1>6. HandlerInv'
  BY <1>1, <1>2, <1>3, NamedFacts, VacantFacts DEF HandlerInv
<1>7. ReporterInv'
  BY <1>1, <1>2, <1>3, NamedFacts, VacantFacts DEF ReporterInv
<1>8. TeardownInv'
  BY <1>1, <1>2, <1>3, NamedFacts, VacantFacts DEF TeardownInv, TeardownEndsEveryTurn
<1>9. InterruptInv'
  BY <1>1, <1>2, <1>3, NamedFacts, VacantFacts DEF InterruptInv
<1>10. OnePending' /\ InboxInv'
  BY <1>1 DEF OnePending, InboxInv, Pending, Live, Known
<1> QED BY <1>4, <1>5, <1>6, <1>7, <1>8, <1>9, <1>10

\* The teardown leaves the slot vacant or claimed by somebody else.
LEMMA TeardownEndsKeeps ==
    ASSUME IInv, TypeOK', TeardownEnds
    PROVE  IInv'
<1> USE DEF IInv
<1>1. UNCHANGED <<recent, start, native, interrupt, inbox, link, handler, reporter,
                   shutting, terminated, closed, stop>>
  BY DEF TeardownEnds, vendor, ending
<1>2. teardown.at = "commit" /\ teardown' = [at |-> "settle", owner |-> NoOwner] /\ shutting
  BY DEF TeardownEnds, TeardownInv
<1>3. \/ slot' = slot
      \/ slot' = Vacant /\ slot.owner = teardown.owner
  BY ReleaseFacts DEF TeardownEnds, TypeOK
<1>4. \A p \in Owners : /\ stream'[p] = "open" => stream[p] = "open" /\ p # teardown.owner
                        /\ stream[p] = "none" => stream'[p] = "none" 
  BY EndedFacts DEF TeardownEnds, TypeOK, Terminals
<1>5. SlotInv'
  BY <1>1, <1>2, <1>3, <1>4, NamedFacts, VacantFacts DEF SlotInv, NamesItsOwnTurn
<1>6. StartInv'
  BY <1>1, <1>2, <1>3, <1>4, NamedFacts, VacantFacts DEF StartInv, Pending, Known, Live
<1>7. HandlerInv'
  BY <1>1, <1>2, <1>3, <1>4, NamedFacts, VacantFacts DEF HandlerInv
<1>8. ReporterInv'
  BY <1>1, <1>2, <1>3, <1>4, NamedFacts, VacantFacts DEF ReporterInv
<1>9. TeardownInv'
  BY <1>1, <1>2, <1>3, <1>4, NamedFacts, VacantFacts DEF TeardownInv, TeardownEndsEveryTurn
<1>10. InterruptInv'
  BY <1>1, <1>2, <1>3, <1>4, NamedFacts, VacantFacts DEF InterruptInv
<1>11. OnePending' /\ InboxInv'
  BY <1>1 DEF OnePending, InboxInv, Pending, Live, Known
<1> QED BY <1>5, <1>6, <1>7, <1>8, <1>9, <1>10, <1>11

\* The teardown ends a claimed turn in its claimant's place.
LEMMA TeardownSettlesKeeps ==
    ASSUME IInv, TypeOK', TeardownSettles
    PROVE  IInv'
<1> USE DEF IInv
<1>1. UNCHANGED <<recent, start, native, interrupt, inbox, link, handler, reporter,
                   shutting, terminated, closed, stop>>
  BY DEF TeardownSettles, vendor, ending
<1>2. teardown.at = "settle" /\ shutting /\ (slot.owner = NoOwner \/ slot.finishing)
  BY DEF TeardownSettles, TeardownInv
<1>3. teardown'.at = "close"
  BY DEF TeardownSettles, TypeOK
<1>4. slot' = Vacant
  BY <1>2 DEF TeardownSettles, SlotInv
<1>5. \A p \in Owners : /\ stream'[p] = "open" => stream[p] = "open" /\ p # slot.owner
                        /\ stream[p] = "none" => stream'[p] = "none" 
  BY <1>2, EndedFacts, NamedFacts, VacantFacts DEF TeardownSettles, TypeOK, Terminals, SlotInv
<1>6. SlotInv'
  BY <1>1, <1>2, <1>3, <1>4, <1>5, NamedFacts, VacantFacts DEF SlotInv, NamesItsOwnTurn
<1>7. StartInv'
  BY <1>1, <1>2, <1>3, <1>4, <1>5, NamedFacts, VacantFacts DEF StartInv, Pending, Known, Live
<1>8. HandlerInv'
  BY <1>1, <1>2, <1>3, <1>4, <1>5, NamedFacts, VacantFacts DEF HandlerInv
<1>9. ReporterInv'
  BY <1>1, <1>2, <1>3, <1>4, <1>5, NamedFacts, VacantFacts DEF ReporterInv
<1>10. TeardownInv'
  BY <1>1, <1>2, <1>3, <1>4, <1>5, NamedFacts, VacantFacts DEF TeardownInv, TeardownEndsEveryTurn, StartInv
<1>11. InterruptInv'
  BY <1>1, <1>2, <1>3, <1>4, <1>5, NamedFacts, VacantFacts DEF InterruptInv
<1>12. OnePending' /\ InboxInv'
  BY <1>1 DEF OnePending, InboxInv, Pending, Live, Known
<1> QED BY <1>6, <1>7, <1>8, <1>9, <1>10, <1>11, <1>12

\* A start that is written was installed: its turn was not asked for before.
LEMMA WriteStartKeeps ==
    ASSUME IInv, TypeOK', NEW o \in Owners, WriteStart(o)
    PROVE  IInv'
<1> USE DEF IInv
<1>1. UNCHANGED <<slot, recent, stream, interrupt, inbox, link, handler, reporter,
                   shutting, terminated, closed, teardown, stop>>
  BY DEF WriteStart, admission, tasks, ending
<1>2. /\ start[o] = "installed" /\ native[o] = "none" /\ start'[o] = "written" /\ native'[o] = "asked"
      /\ \A p \in Owners : p # o => start'[p] = start[p] /\ native'[p] = native[p]
  BY DEF WriteStart, StartInv, TypeOK
<1>3. StartInv'
  BY <1>1, <1>2 DEF WriteStart, StartInv, Pending, Known, Live, TypeOK
<1>4. OnePending'
  BY <1>1, <1>2 DEF WriteStart, OnePending, Pending, Live, TypeOK
<1>5. InboxInv'
  BY <1>1, <1>2 DEF WriteStart, InboxInv, Known, TypeOK
<1>6. HandlerInv'
  BY <1>1, <1>2 DEF WriteStart, HandlerInv, TypeOK
<1>7. InterruptInv'
  BY <1>1, <1>2 DEF WriteStart, InterruptInv, TypeOK
<1>8. SlotInv' /\ ReporterInv' /\ TeardownInv'
  BY <1>1 DEF SlotInv, ReporterInv, TeardownInv, NamesItsOwnTurn,
         TeardownEndsEveryTurn
<1> QED BY <1>3, <1>4, <1>5, <1>6, <1>7, <1>8

\* A turn the app-server starts was pending.
LEMMA VendorStartsKeeps ==
    ASSUME IInv, TypeOK', NEW o \in Owners, VendorStarts(o)
    PROVE  IInv'
<1> USE DEF IInv
<1>1. UNCHANGED <<slot, recent, start, stream, interrupt, inbox, link, handler, reporter,
                   shutting, terminated, closed, teardown, stop>>
  BY DEF VendorStarts, admission, host, tasks, ending
<1>2. /\ native[o] = "asked" /\ native'[o] \in {"running", "refused"}
      /\ \A p \in Owners : p # o => native'[p] = native[p]
  BY DEF VendorStarts, TypeOK
<1>3. StartInv'
  BY <1>1, <1>2 DEF VendorStarts, StartInv, Pending, Known, Live, TypeOK
<1>4. OnePending'
  BY <1>1, <1>2 DEF VendorStarts, OnePending, Pending, Live, TypeOK
<1>5. InboxInv'
  BY <1>1, <1>2 DEF VendorStarts, InboxInv, Known, TypeOK
<1>6. HandlerInv'
  BY <1>1, <1>2 DEF HandlerInv
<1>7. SlotInv' /\ ReporterInv' /\ TeardownInv' /\ InterruptInv'
  BY <1>1 DEF SlotInv, ReporterInv, TeardownInv, InterruptInv, NamesItsOwnTurn,
         TeardownEndsEveryTurn
<1> QED BY <1>3, <1>4, <1>5, <1>6, <1>7

\* A frame is of a turn that runs or ran.
LEMMA VendorReportsKeeps ==
    ASSUME IInv, TypeOK', NEW o \in Owners, VendorReports(o)
    PROVE  IInv'
<1> USE DEF IInv
<1>1. UNCHANGED <<slot, recent, start, stream, native, interrupt, link, handler,
                   reporter, shutting, terminated, closed, teardown, stop>>
  BY DEF VendorReports, admission, host, tasks, ending
<1>2. InboxInv'
  BY <1>1 DEF VendorReports, InboxInv, Known, TypeOK
<1>3. SlotInv' /\ StartInv' /\ OnePending' /\ HandlerInv' /\ ReporterInv' /\ TeardownInv' /\ InterruptInv'
  BY <1>1 DEF SlotInv, StartInv, OnePending, HandlerInv, ReporterInv, TeardownInv,
         InterruptInv, NamesItsOwnTurn, Pending, Known, Live,
         TeardownEndsEveryTurn
<1> QED BY <1>2, <1>3

\* A completion is of a turn that is over.
LEMMA VendorCompletesKeeps ==
    ASSUME IInv, TypeOK', NEW o \in Owners, VendorCompletes(o)
    PROVE  IInv'
<1> USE DEF IInv
<1>1. UNCHANGED <<slot, recent, start, stream, interrupt, link, handler, reporter,
                   shutting, terminated, closed, teardown, stop>>
  BY DEF VendorCompletes, admission, host, tasks, ending
<1>2. /\ native[o] = "running" /\ native'[o] = "over"
      /\ \A p \in Owners : p # o => native'[p] = native[p]
  BY DEF VendorCompletes, TypeOK
<1>3. inbox' = Append(inbox, <<"completed", o>>)
  BY DEF VendorCompletes
<1>4. StartInv'
  BY <1>1, <1>2, <1>3 DEF VendorCompletes, StartInv, Pending, Known, Live, TypeOK
<1>5. OnePending'
  BY <1>1, <1>2, <1>3 DEF VendorCompletes, OnePending, Pending, Live, TypeOK
<1>6. InboxInv'
  BY <1>1, <1>2, <1>3 DEF VendorCompletes, InboxInv, Known, TypeOK
<1>7. HandlerInv'
  BY <1>1, <1>2, <1>3 DEF VendorCompletes, HandlerInv, TypeOK
<1>8. SlotInv' /\ ReporterInv' /\ TeardownInv' /\ InterruptInv'
  BY <1>1 DEF SlotInv, ReporterInv, TeardownInv, InterruptInv, NamesItsOwnTurn,
         TeardownEndsEveryTurn
<1> QED BY <1>4, <1>5, <1>6, <1>7, <1>8

\* A cut forgets the frames.
LEMMA LinkCutKeeps ==
    ASSUME IInv, TypeOK', LinkCut
    PROVE  IInv'
<1> USE DEF IInv
<1>1. UNCHANGED <<slot, recent, start, stream, native, interrupt, handler, reporter,
                   shutting, terminated, closed, teardown, stop>>
  BY DEF LinkCut, admission, host, tasks, ending
<1>2. InboxInv'
  BY <1>1 DEF LinkCut, InboxInv, Known, TypeOK
<1>3. SlotInv' /\ StartInv' /\ OnePending' /\ HandlerInv' /\ ReporterInv' /\ TeardownInv' /\ InterruptInv'
  BY <1>1 DEF SlotInv, StartInv, OnePending, HandlerInv, ReporterInv, TeardownInv,
         InterruptInv, NamesItsOwnTurn, Pending, Known, Live,
         TeardownEndsEveryTurn
<1> QED BY <1>2, <1>3

\* So does a frame nobody takes.
LEMMA HandleStrayKeeps ==
    ASSUME IInv, TypeOK', HandleStray
    PROVE  IInv'
<1> USE DEF IInv
<1>1. UNCHANGED <<slot, recent, start, stream, native, interrupt, link, handler,
                   reporter, shutting, terminated, closed, teardown, stop>>
  BY DEF HandleStray, admission, host, tasks, ending
<1>2. InboxInv'
  BY <1>1 DEF HandleStray, InboxInv, Known, TypeOK
<1>3. SlotInv' /\ StartInv' /\ OnePending' /\ HandlerInv' /\ ReporterInv' /\ TeardownInv' /\ InterruptInv'
  BY <1>1 DEF SlotInv, StartInv, OnePending, HandlerInv, ReporterInv, TeardownInv,
         InterruptInv, NamesItsOwnTurn, Pending, Known, Live,
         TeardownEndsEveryTurn
<1> QED BY <1>2, <1>3

\* A call that is cut holds nothing.
LEMMA HandlerCutKeeps ==
    ASSUME IInv, TypeOK', HandlerCut
    PROVE  IInv'
<1> USE DEF IInv
<1>1. UNCHANGED <<slot, recent, start, stream, native, interrupt, inbox, link, reporter,
                   shutting, closed, teardown, stop>>
  BY DEF HandlerCut, admission, host, vendor
<1>2. handler' = HandlerAt("gone")
  BY DEF HandlerCut
<1>3. HandlerInv'
  BY <1>1, <1>2 DEF HandlerAt, HandlerInv
<1>4. SlotInv' /\ StartInv' /\ OnePending' /\ InboxInv' /\ ReporterInv' /\ TeardownInv' /\ InterruptInv'
  BY <1>1 DEF SlotInv, StartInv, OnePending, InboxInv, ReporterInv, TeardownInv,
         InterruptInv, NamesItsOwnTurn, Pending, Known, Live,
         TeardownEndsEveryTurn
<1> QED BY <1>3, <1>4

\* The report stops new work first.
LEMMA ReportEndKeeps ==
    ASSUME IInv, TypeOK', ReportEnd
    PROVE  IInv'
<1> USE DEF IInv
<1>1. UNCHANGED <<slot, recent, start, stream, native, interrupt, inbox, link, handler,
                   terminated, closed, teardown, stop>>
  BY DEF ReportEnd, admission, host, vendor
<1>2. StartInv'
  BY <1>1 DEF ReportEnd, StartInv, Pending, Known, Live, TypeOK
<1>3. HandlerInv'
  BY <1>1 DEF ReportEnd, HandlerInv, TypeOK
<1>4. ReporterInv'
  BY <1>1 DEF ReportEnd, ReporterInv, TypeOK
<1>5. TeardownInv'
  BY <1>1 DEF ReportEnd, TeardownInv, TeardownEndsEveryTurn, TypeOK
<1>6. SlotInv' /\ OnePending' /\ InboxInv' /\ InterruptInv'
  BY <1>1 DEF SlotInv, OnePending, InboxInv, InterruptInv, NamesItsOwnTurn, Pending,
         Live, Known
<1> QED BY <1>2, <1>3, <1>4, <1>5, <1>6

\* A report that is cut holds nothing.
LEMMA ReporterCutKeeps ==
    ASSUME IInv, TypeOK', ReporterCut
    PROVE  IInv'
<1> USE DEF IInv
<1>1. UNCHANGED <<slot, recent, start, stream, native, interrupt, inbox, link, handler,
                   shutting, closed, teardown, stop>>
  BY DEF ReporterCut, admission, host, vendor
<1>2. ReporterInv'
  BY <1>1 DEF ReporterCut, ReporterInv, TypeOK
<1>3. SlotInv' /\ StartInv' /\ OnePending' /\ InboxInv' /\ HandlerInv' /\ TeardownInv' /\ InterruptInv'
  BY <1>1 DEF SlotInv, StartInv, OnePending, InboxInv, HandlerInv, TeardownInv,
         InterruptInv, NamesItsOwnTurn, Pending, Known, Live,
         TeardownEndsEveryTurn
<1> QED BY <1>2, <1>3

\* The close forgets the frames.
LEMMA TeardownClosesKeeps ==
    ASSUME IInv, TypeOK', TeardownCloses
    PROVE  IInv'
<1> USE DEF IInv
<1>1. UNCHANGED <<slot, recent, start, stream, native, interrupt, handler, reporter,
                   shutting, terminated, closed, stop>>
  BY DEF TeardownCloses, admission, host, ending
<1>2. InboxInv'
  BY <1>1 DEF TeardownCloses, InboxInv, Known, TypeOK
<1>3. TeardownInv'
  BY <1>1 DEF TeardownCloses, TeardownInv, TeardownEndsEveryTurn, TypeOK
<1>4. SlotInv' /\ StartInv' /\ OnePending' /\ HandlerInv' /\ ReporterInv' /\ InterruptInv'
  BY <1>1 DEF SlotInv, StartInv, OnePending, HandlerInv, ReporterInv, InterruptInv,
         NamesItsOwnTurn, Pending, Known, Live
<1> QED BY <1>2, <1>3, <1>4

\* A step that moves no turn: it touches neither the slot nor a stream, takes no
\* start back, and neither undoes the stop of new work nor skips the teardown.
LEMMA QuietKeeps ==
    ASSUME IInv, TypeOK',
           UNCHANGED <<slot, recent, stream, native, interrupt, inbox, handler, reporter>>,
           shutting => shutting',
           \/ teardown' = teardown
           \/ teardown'.at = "interrupt"
           \/ teardown.at = "reap" /\ teardown'.at \in {"ok", "failed"},
           \A o \in Owners :
              /\ start'[o] = start[o] \/ (start[o] # "idle" /\ start'[o] \notin {"idle", "installed"})
              /\ stop'[o] = "send" => stop[o] = "send"
              /\ stop'[o] # "none" => stop[o] # "none" \/ start[o] # "idle"
    PROVE  IInv'
<1> USE DEF IInv
<1>1. SlotInv' /\ InboxInv' /\ HandlerInv' /\ ReporterInv'
  BY DEF SlotInv, NamesItsOwnTurn, InboxInv, Known, HandlerInv, ReporterInv
<1>2. StartInv' /\ OnePending'
  BY DEF StartInv, OnePending, Pending, Known, Live
<1>3. TeardownInv'
  BY DEF TeardownInv, TeardownEndsEveryTurn
<1>4. InterruptInv'
  BY DEF InterruptInv
<1> QED BY <1>1, <1>2, <1>3, <1>4

\* The host's steps that take no slot.
LEMMA StartsQuietly ==
    ASSUME IInv, TypeOK', NEW o \in Owners, 
           \/ StartLost(o)
           \/ StartUnroutable(o)
           \/ DropStart(o)
           \/ AbandonStart(o)
    PROVE  IInv'
<1>1. UNCHANGED <<slot, recent, stream, native, interrupt, inbox, handler, reporter>>
  BY DEF StartLost, StartUnroutable, DropStart, AbandonStart, admission, host,
         vendor, tasks, ending, WithTeardown, WithStop
<1>2. shutting => shutting'
  BY DEF StartLost, StartUnroutable, DropStart, AbandonStart, admission, host,
         vendor, tasks, ending, WithTeardown, WithStop
<1>3. \/ teardown' = teardown
      \/ teardown'.at = "interrupt"
      \/ teardown.at = "reap" /\ teardown'.at \in {"ok", "failed"}
  BY DEF StartLost, StartUnroutable, DropStart, AbandonStart, admission, host,
         vendor, tasks, ending, WithTeardown, WithStop, IInv, TypeOK
<1>4. \A p \in Owners :
         /\ start'[p] = start[p] \/ (start[p] # "idle" /\ start'[p] \notin {"idle", "installed"})
         /\ stop'[p] = "send" => stop[p] = "send"
         /\ stop'[p] # "none" => stop[p] # "none" \/ start[p] # "idle"
  BY ActiveFacts DEF StartLost, StartUnroutable, DropStart, AbandonStart, admission, host,
         vendor, tasks, ending, WithTeardown, WithStop, IInv, TypeOK, StartInv
<1> QED BY <1>1, <1>2, <1>3, <1>4, QuietKeeps

\* The steps of a stop worker that neither record nor send an interrupt.
LEMMA StopsQuietly ==
    ASSUME IInv, TypeOK', NEW o \in Owners, 
           \/ AskStop(o)
           \/ StopChecks(o)
           \/ StopNames(o)
           \/ StopAnswered(o)
           \/ StopSettles(o)
           \/ StopLeaves(o)
           \/ StopJoins(o)
    PROVE  IInv'
<1>1. UNCHANGED <<slot, recent, stream, native, interrupt, inbox, handler, reporter>>
  BY DEF AskStop, StopChecks, StopNames, StopAnswered, StopSettles, StopLeaves,
         StopJoins, admission, host, vendor, tasks, ending, WithTeardown,
         WithStop, Goto, GivesUp
<1>2. shutting => shutting'
  BY DEF AskStop, StopChecks, StopNames, StopAnswered, StopSettles, StopLeaves,
         StopJoins, admission, host, vendor, tasks, ending, WithTeardown,
         WithStop, Goto, GivesUp
<1>3. \/ teardown' = teardown
      \/ teardown'.at = "interrupt"
      \/ teardown.at = "reap" /\ teardown'.at \in {"ok", "failed"}
  BY DEF AskStop, StopChecks, StopNames, StopAnswered, StopSettles, StopLeaves,
         StopJoins, admission, host, vendor, tasks, ending, WithTeardown,
         WithStop, Goto, GivesUp, IInv, TypeOK
<1>4. \A p \in Owners :
         /\ start'[p] = start[p] \/ (start[p] # "idle" /\ start'[p] \notin {"idle", "installed"})
         /\ stop'[p] = "send" => stop[p] = "send"
         /\ stop'[p] # "none" => stop[p] # "none" \/ start[p] # "idle"
  <2>1. CASE AskStop(o)
    BY <2>1, ActiveFacts, ZenonT(60) DEF AskStop, WithStop, host, IInv, TypeOK, StartInv
  <2>2. CASE ~AskStop(o)
    <3>1. /\ stop[o] # "none" /\ start' = start
          /\ \E place \in {"first", "again", "ok", "settle", "gone", "join", "joinFailed", "failed"} :
                stop' = [stop EXCEPT ![o] = place]
      BY <2>2 DEF StopChecks, StopNames, StopAnswered, StopSettles, StopLeaves, StopJoins,
         Goto, GivesUp, host
    <3> QED BY <3>1 DEF IInv, TypeOK
  <2> QED BY <2>1, <2>2
<1> QED BY <1>1, <1>2, <1>3, <1>4, QuietKeeps

\* The steps that ask for the teardown, and its answer.
LEMMA EndsQuietly ==
    ASSUME IInv, TypeOK', 
           \/ LinkEnds
           \/ Close
           \/ HostLeaves
           \/ WatcherWakes
           \/ TeardownReaps
    PROVE  IInv'
<1>1. UNCHANGED <<slot, recent, stream, native, interrupt, inbox, handler, reporter>>
  BY DEF LinkEnds, Close, HostLeaves, WatcherWakes, TeardownReaps, admission,
         host, vendor, tasks, ending, WithTeardown
<1>2. shutting => shutting'
  BY DEF LinkEnds, Close, HostLeaves, WatcherWakes, TeardownReaps, admission,
         host, vendor, tasks, ending, WithTeardown
<1>3. \/ teardown' = teardown
      \/ teardown'.at = "interrupt"
      \/ teardown.at = "reap" /\ teardown'.at \in {"ok", "failed"}
  BY DEF LinkEnds, Close, HostLeaves, WatcherWakes, TeardownReaps, admission,
         host, vendor, tasks, ending, WithTeardown, IInv, TypeOK
<1>4. \A p \in Owners :
         /\ start'[p] = start[p] \/ (start[p] # "idle" /\ start'[p] \notin {"idle", "installed"})
         /\ stop'[p] = "send" => stop[p] = "send"
         /\ stop'[p] # "none" => stop[p] # "none" \/ start[p] # "idle"
  BY ActiveFacts DEF LinkEnds, Close, HostLeaves, WatcherWakes, TeardownReaps, admission,
         host, vendor, tasks, ending, WithTeardown, IInv, TypeOK, StartInv
<1> QED BY <1>1, <1>2, <1>3, <1>4, QuietKeeps

-----------------------------------------------------------------------------
\* Every step keeps the types.
LEMMA TypeKeeps == ASSUME IInv, Next PROVE TypeOK'
<1>0. slot.owner \in Named /\ slot.name \in Named /\ slot \in Slots
  BY DEF IInv, TypeOK, Slots
<1>1. ASSUME NEW o \in Owners, Start(o) PROVE TypeOK'
  <2>1. slot' \in Slots
    BY <1>1, NamedFacts, VacantFacts, TurnFacts
       DEF Start, vendor, tasks, ending, IInv, TypeOK
  <2>2. start' \in [Owners -> {"idle", "installed", "written", "returned", "dropped", "over"}]
    BY <1>1, NamedFacts, VacantFacts
       DEF Start, vendor, tasks, ending, IInv, TypeOK
  <2>3. stream' \in Streams
    BY <1>1, NamedFacts, VacantFacts, TurnFacts
       DEF Start, vendor, tasks, ending, Terminals, Streams, IInv, TypeOK
  <2> QED BY <1>1, <2>1, <2>2, <2>3 DEF Start, vendor, tasks, ending, IInv, TypeOK
<1>2. ASSUME NEW o \in Owners, WriteStart(o) PROVE TypeOK'
  <2>1. start' \in [Owners -> {"idle", "installed", "written", "returned", "dropped", "over"}]
    BY <1>2, NamedFacts, VacantFacts
       DEF WriteStart, admission, tasks, ending, IInv, TypeOK
  <2>2. native' \in [Owners -> {"none", "asked", "refused", "running", "over"}]
    BY <1>2, NamedFacts, VacantFacts
       DEF WriteStart, admission, tasks, ending, IInv, TypeOK
  <2> QED BY <1>2, <2>1, <2>2 DEF WriteStart, admission, tasks, ending, IInv, TypeOK
<1>3. ASSUME NEW o \in Owners, StartRefused(o) PROVE TypeOK'
  <2>1. slot' \in Slots
    BY <1>3, NamedFacts, VacantFacts, RefusedFacts
       DEF StartRefused, vendor, tasks, ending, IInv, TypeOK
  <2>2. start' \in [Owners -> {"idle", "installed", "written", "returned", "dropped", "over"}]
    BY <1>3, NamedFacts, VacantFacts
       DEF StartRefused, vendor, tasks, ending, IInv, TypeOK
  <2>3. stream' \in Streams
    BY <1>3, NamedFacts, VacantFacts, RefusedFacts
       DEF StartRefused, vendor, tasks, ending, Terminals, IInv, TypeOK
  <2> QED BY <1>3, <2>1, <2>2, <2>3 DEF StartRefused, vendor, tasks, ending, ReleaseRefused, IInv, TypeOK
<1>4. ASSUME NEW o \in Owners, StartAnswered(o) PROVE TypeOK'
  <2>1. slot' \in Slots
    BY <1>4, NamedFacts, VacantFacts, NameFacts
       DEF StartAnswered, vendor, tasks, ending, IInv, TypeOK
  <2>2. start' \in [Owners -> {"idle", "installed", "written", "returned", "dropped", "over"}]
    BY <1>4, NamedFacts, VacantFacts, NameFacts
       DEF StartAnswered, vendor, tasks, ending, IInv, TypeOK
  <2> QED BY <1>4, <2>1, <2>2 DEF StartAnswered, vendor, tasks, ending, IInv, TypeOK
<1>5. ASSUME NEW o \in Owners, StartLost(o) PROVE TypeOK'
  <2>1. start' \in [Owners -> {"idle", "installed", "written", "returned", "dropped", "over"}]
    BY <1>5, NamedFacts, VacantFacts
       DEF StartLost, admission, vendor, tasks, ending, IInv, TypeOK
  <2> QED BY <1>5, <2>1 DEF StartLost, admission, vendor, tasks, ending, IInv, TypeOK
<1>6. ASSUME NEW o \in Owners, StartUnroutable(o) PROVE TypeOK'
  <2>1. start' \in [Owners -> {"idle", "installed", "written", "returned", "dropped", "over"}]
    BY <1>6, NamedFacts, VacantFacts
       DEF StartUnroutable, admission, vendor, WithTeardown, IInv, TypeOK
  <2>2. shutting' \in BOOLEAN
    BY <1>6, NamedFacts, VacantFacts
       DEF StartUnroutable, admission, vendor, WithTeardown, IInv, TypeOK
  <2>3. closed' \in BOOLEAN
    BY <1>6, NamedFacts, VacantFacts
       DEF StartUnroutable, admission, vendor, WithTeardown, IInv, TypeOK
  <2>4. teardown' \in [at: {"none", "interrupt", "claim", "commit", "settle", "close", "reap", "ok", "failed"}, owner: Named]
    BY <1>6, NamedFacts, VacantFacts
       DEF StartUnroutable, admission, vendor, WithTeardown, IInv, TypeOK
  <2> QED BY <1>6, <2>1, <2>2, <2>3, <2>4 DEF StartUnroutable, admission, vendor, IInv, TypeOK
<1>7. ASSUME NEW o \in Owners, DropStart(o) PROVE TypeOK'
  <2>1. start' \in [Owners -> {"idle", "installed", "written", "returned", "dropped", "over"}]
    BY <1>7, NamedFacts, VacantFacts
       DEF DropStart, admission, vendor, tasks, ending, IInv, TypeOK
  <2> QED BY <1>7, <2>1 DEF DropStart, admission, vendor, tasks, ending, IInv, TypeOK
<1>8. ASSUME NEW o \in Owners, AbandonStart(o) PROVE TypeOK'
  <2>1. start' \in [Owners -> {"idle", "installed", "written", "returned", "dropped", "over"}]
    BY <1>8, NamedFacts, VacantFacts
       DEF AbandonStart, admission, vendor, ending, WithStop, IInv, TypeOK
  <2>2. stop' \in [Owners -> StopPlaces]
    BY <1>8, NamedFacts, VacantFacts
       DEF AbandonStart, admission, vendor, ending, WithStop, StopPlaces, IInv,
           TypeOK
  <2> QED BY <1>8, <2>1, <2>2 DEF AbandonStart, admission, vendor, ending, IInv, TypeOK
<1>9. ASSUME NEW o \in Owners, VendorStarts(o) PROVE TypeOK'
  <2>1. native' \in [Owners -> {"none", "asked", "refused", "running", "over"}]
    BY <1>9, NamedFacts, VacantFacts
       DEF VendorStarts, admission, host, tasks, ending, Frames, IInv, TypeOK
  <2> QED BY <1>9, <2>1 DEF VendorStarts, admission, host, tasks, ending, IInv, TypeOK
<1>10. ASSUME NEW o \in Owners, VendorReports(o) PROVE TypeOK'
  <2>1. inbox' \in Seq(Frames \X Owners)
    BY <1>10, NamedFacts, VacantFacts
       DEF VendorReports, admission, host, tasks, ending, Frames, IInv, TypeOK
  <2> QED BY <1>10, <2>1 DEF VendorReports, admission, host, tasks, ending, IInv, TypeOK
<1>11. ASSUME NEW o \in Owners, VendorCompletes(o) PROVE TypeOK'
  <2>1. native' \in [Owners -> {"none", "asked", "refused", "running", "over"}]
    BY <1>11, NamedFacts, VacantFacts
       DEF VendorCompletes, admission, host, tasks, ending, Frames, IInv, TypeOK
  <2>2. inbox' \in Seq(Frames \X Owners)
    BY <1>11, NamedFacts, VacantFacts
       DEF VendorCompletes, admission, host, tasks, ending, Frames, IInv, TypeOK
  <2> QED BY <1>11, <2>1, <2>2 DEF VendorCompletes, admission, host, tasks, ending, IInv, TypeOK
<1>12. ASSUME NEW o \in Owners, AskStop(o) PROVE TypeOK'
  <2>1. stop' \in [Owners -> StopPlaces]
    BY <1>12, NamedFacts, VacantFacts, ActiveFacts
       DEF AskStop, admission, host, vendor, ending, WithStop, StopPlaces, IInv,
           TypeOK
  <2> QED BY <1>12, <2>1 DEF AskStop, admission, host, vendor, ending, IInv, TypeOK
<1>13. ASSUME NEW o \in Owners, StopChecks(o) PROVE TypeOK'
  <2>1. stop' \in [Owners -> StopPlaces]
    BY <1>13, NamedFacts, VacantFacts, ActiveFacts
       DEF StopChecks, admission, host, vendor, ending, Goto, StopPlaces, IInv,
           TypeOK
  <2> QED BY <1>13, <2>1 DEF StopChecks, admission, host, vendor, ending, Goto, IInv, TypeOK
<1>14. ASSUME NEW o \in Owners, StopLatches(o) PROVE TypeOK'
  <2>1. slot' \in Slots
    BY <1>14, NamedFacts, VacantFacts, ActiveFacts, DispatchFacts
       DEF StopLatches, host, vendor, ending, Goto, IInv, TypeOK
  <2>2. stop' \in [Owners -> StopPlaces]
    BY <1>14, NamedFacts, VacantFacts, ActiveFacts
       DEF StopLatches, host, vendor, ending, Goto, StopPlaces, IInv, TypeOK
  <2> QED BY <1>14, <2>1, <2>2 DEF StopLatches, host, vendor, ending, Goto, IInv, TypeOK
<1>15. ASSUME NEW o \in Owners, StopSends(o) PROVE TypeOK'
  <2>1. interrupt' \in [Owners -> Nat]
    BY <1>15, NamedFacts, VacantFacts, ActiveFacts
       DEF StopSends, admission, host, ending, Goto, IInv, TypeOK
  <2>2. stop' \in [Owners -> StopPlaces]
    BY <1>15, NamedFacts, VacantFacts, ActiveFacts, ZenonT(60)
       DEF StopSends, admission, host, ending, Goto, StopPlaces, IInv, TypeOK
  <2> QED BY <1>15, <2>1, <2>2 DEF StopSends, admission, host, ending, Goto, IInv, TypeOK
<1>16. ASSUME NEW o \in Owners, StopNames(o) PROVE TypeOK'
  <2>1. stop' \in [Owners -> StopPlaces]
    BY <1>16, NamedFacts, VacantFacts
       DEF StopNames, admission, host, vendor, ending, Goto, StopPlaces, IInv,
           TypeOK
  <2> QED BY <1>16, <2>1 DEF StopNames, admission, host, vendor, ending, Goto, IInv, TypeOK
<1>17. ASSUME NEW o \in Owners, StopAnswered(o) PROVE TypeOK'
  <2>1. shutting' \in BOOLEAN
    BY <1>17, NamedFacts, VacantFacts
       DEF StopAnswered, admission, host, vendor, Goto, GivesUp, WithTeardown,
           IInv, TypeOK
  <2>2. teardown' \in [at: {"none", "interrupt", "claim", "commit", "settle", "close", "reap", "ok", "failed"}, owner: Named]
    BY <1>17, NamedFacts, VacantFacts
       DEF StopAnswered, admission, host, vendor, Goto, GivesUp, WithTeardown,
           IInv, TypeOK
  <2>3. stop' \in [Owners -> StopPlaces]
    BY <1>17, NamedFacts, VacantFacts
       DEF StopAnswered, admission, host, vendor, Goto, GivesUp, WithTeardown,
           StopPlaces, IInv, TypeOK
  <2> QED BY <1>17, <2>1, <2>2, <2>3 DEF StopAnswered, admission, host, vendor, Goto, GivesUp, IInv, TypeOK
<1>18. ASSUME NEW o \in Owners, StopSettles(o) PROVE TypeOK'
  <2>1. shutting' \in BOOLEAN
    BY <1>18, NamedFacts, VacantFacts
       DEF StopSettles, admission, host, vendor, Goto, GivesUp, WithTeardown,
           IInv, TypeOK
  <2>2. teardown' \in [at: {"none", "interrupt", "claim", "commit", "settle", "close", "reap", "ok", "failed"}, owner: Named]
    BY <1>18, NamedFacts, VacantFacts
       DEF StopSettles, admission, host, vendor, Goto, GivesUp, WithTeardown,
           IInv, TypeOK
  <2>3. stop' \in [Owners -> StopPlaces]
    BY <1>18, NamedFacts, VacantFacts
       DEF StopSettles, admission, host, vendor, Goto, GivesUp, WithTeardown,
           StopPlaces, IInv, TypeOK
  <2> QED BY <1>18, <2>1, <2>2, <2>3 DEF StopSettles, admission, host, vendor, Goto, GivesUp, IInv, TypeOK
<1>19. ASSUME NEW o \in Owners, StopLeaves(o) PROVE TypeOK'
  <2>1. teardown' \in [at: {"none", "interrupt", "claim", "commit", "settle", "close", "reap", "ok", "failed"}, owner: Named]
    BY <1>19, NamedFacts, VacantFacts
       DEF StopLeaves, admission, host, vendor, ending, WithTeardown, Goto, IInv,
           TypeOK
  <2>2. stop' \in [Owners -> StopPlaces]
    BY <1>19, NamedFacts, VacantFacts
       DEF StopLeaves, admission, host, vendor, ending, WithTeardown, Goto,
           StopPlaces, IInv, TypeOK
  <2> QED BY <1>19, <2>1, <2>2 DEF StopLeaves, admission, host, vendor, ending, Goto, IInv, TypeOK
<1>20. ASSUME NEW o \in Owners, StopJoins(o) PROVE TypeOK'
  <2>1. stop' \in [Owners -> StopPlaces]
    BY <1>20, NamedFacts, VacantFacts
       DEF StopJoins, admission, host, vendor, ending, Goto, StopPlaces, IInv,
           TypeOK
  <2> QED BY <1>20, <2>1 DEF StopJoins, admission, host, vendor, ending, Goto, IInv, TypeOK
<1>21. CASE LinkEnds
  <2>1. link' \in {"up", "draining", "cut"}
    BY <1>21, NamedFacts, VacantFacts
       DEF LinkEnds, admission, host, tasks, ending, IInv, TypeOK
  <2> QED BY <1>21, <2>1 DEF LinkEnds, admission, host, tasks, ending, IInv, TypeOK
<1>22. CASE LinkCut
  <2>1. inbox' \in Seq(Frames \X Owners)
    BY <1>22, NamedFacts, VacantFacts
       DEF LinkCut, admission, host, tasks, ending, IInv, TypeOK
  <2>2. link' \in {"up", "draining", "cut"}
    BY <1>22, NamedFacts, VacantFacts
       DEF LinkCut, admission, host, tasks, ending, IInv, TypeOK
  <2> QED BY <1>22, <2>1, <2>2 DEF LinkCut, admission, host, tasks, ending, IInv, TypeOK
<1>23. CASE HandleStray
  <2>1. inbox' \in Seq(Frames \X Owners)
    BY <1>23, NamedFacts, VacantFacts
       DEF HandleStray, admission, host, tasks, ending, IInv, TypeOK
  <2> QED BY <1>23, <2>1 DEF HandleStray, admission, host, tasks, ending, IInv, TypeOK
<1>24. CASE HandleItem
  <2>1. slot' \in Slots
    BY <1>24, NamedFacts, VacantFacts, EndedFacts, HandlesKeeps
       DEF HandleItem, tasks, ending, IInv, TypeOK
  <2>2. stream' \in Streams
    BY <1>24, NamedFacts, VacantFacts, EndedFacts, HandlesKeeps
       DEF HandleItem, tasks, ending, Handles, Terminals, IInv, TypeOK
  <2>3. inbox' \in Seq(Frames \X Owners)
    BY <1>24, NamedFacts, VacantFacts, EndedFacts, HandlesKeeps
       DEF HandleItem, tasks, ending, IInv, TypeOK
  <2> QED BY <1>24, <2>1, <2>2, <2>3 DEF HandleItem, tasks, ending, Handles, IInv, TypeOK
<1>25. CASE HandleCompleted
  <2>1. slot' \in Slots
    BY <1>25, NamedFacts, VacantFacts, HandlesKeeps
       DEF HandleCompleted, host, vendor, ending, IInv, TypeOK
  <2>2. inbox' \in Seq(Frames \X Owners)
    BY <1>25, NamedFacts, VacantFacts, HandlesKeeps
       DEF HandleCompleted, host, vendor, ending, IInv, TypeOK
  <2>3. handler' \in [at: Working, owner: Named, as: {"vendor", "failed"}]
    BY <1>25, <1>0 DEF HandleCompleted, Working
  <2> QED BY <1>25, <2>1, <2>2, <2>3 DEF HandleCompleted, host, vendor, ending, Handles, IInv, TypeOK
<1>26. CASE HandlePoison
  <2>1. slot' \in Slots
    BY <1>26, NamedFacts, VacantFacts, EndedFacts, HandlesKeeps
       DEF HandlePoison, IInv, TypeOK
  <2>2. stream' \in Streams
    BY <1>26, NamedFacts, VacantFacts, EndedFacts, HandlesKeeps
       DEF HandlePoison, Handles, Terminals, IInv, TypeOK
  <2>3. inbox' \in Seq(Frames \X Owners)
    BY <1>26, NamedFacts, VacantFacts, EndedFacts, HandlesKeeps
       DEF HandlePoison, IInv, TypeOK
  <2>4. handler' \in [at: Working, owner: Named, as: {"vendor", "failed"}]
    BY <1>26, NamedFacts, VacantFacts
       DEF HandlePoison, Handles, Working, IInv, TypeOK
  <2>5. shutting' \in BOOLEAN
    BY <1>26, NamedFacts, VacantFacts
       DEF HandlePoison, Handles, IInv, TypeOK
  <2> QED BY <1>26, <2>1, <2>2, <2>3, <2>4, <2>5 DEF HandlePoison, Handles, IInv, TypeOK
<1>27. CASE PoisonInterrupts
  <2>1. slot' \in Slots
    BY <1>27, NamedFacts, VacantFacts, InterruptFacts
       DEF PoisonInterrupts, host, ending, IInv, TypeOK
  <2>2. interrupt' \in [Owners -> Nat]
    BY <1>27, NamedFacts, VacantFacts, InterruptFacts
       DEF PoisonInterrupts, host, ending, IInv, TypeOK
  <2>3. handler' \in [at: Working, owner: Named, as: {"vendor", "failed"}]
    BY <1>27, NamedFacts, VacantFacts
       DEF PoisonInterrupts, host, ending, Working, IInv, TypeOK
  <2> QED BY <1>27, <2>1, <2>2, <2>3 DEF PoisonInterrupts, host, ending, Interrupt, IInv, TypeOK
<1>28. CASE HandlerClaims
  <2>1. slot' \in Slots
    BY <1>28, NamedFacts, VacantFacts, ClaimFacts, ActiveFacts
       DEF HandlerClaims, admission, host, vendor, HandlerAt, IInv, TypeOK
  <2>2. recent' \subseteq Owners
    <3>1. handler.as = "vendor" /\ Active(handler.owner) => slot.name \in Owners
      BY <1>28, ActiveFacts, <1>0 DEF HandlerClaims, IInv, HandlerInv
    <3> QED BY <1>28, <3>1 DEF HandlerClaims, admission, IInv, TypeOK
  <2>3. handler' \in [at: Working, owner: Named, as: {"vendor", "failed"}]
    <3>1. handler \in [at: Working, owner: Named, as: {"vendor", "failed"}]
      BY DEF IInv, TypeOK
    <3>2. \/ handler' = HandlerAt("idle")
          \/ \E o \in Named : handler' = [handler EXCEPT !.at = "commit", !.owner = o]
      BY <1>28, <3>1, <1>0 DEF HandlerClaims
    <3>3. HandlerAt("idle") \in [at: Working, owner: Named, as: {"vendor", "failed"}]
      BY NamedFacts DEF HandlerAt, Working
    <3>4. ASSUME NEW o \in Named, handler' = [handler EXCEPT !.at = "commit", !.owner = o]
          PROVE  handler' \in [at: Working, owner: Named, as: {"vendor", "failed"}]
      BY <3>1, <3>4 DEF Working
    <3> QED BY <3>2, <3>3, <3>4
  <2>4. terminated' \in BOOLEAN
    BY <1>28, NamedFacts, VacantFacts, ActiveFacts
       DEF HandlerClaims, admission, host, vendor, HandlerAt, IInv, TypeOK
  <2> QED BY <1>28, <2>1, <2>2, <2>3, <2>4 DEF HandlerClaims, admission, host, vendor, Claim, IInv, TypeOK
<1>29. CASE HandlerCommits
  <2>1. stream' \in Streams
    BY <1>29, NamedFacts, VacantFacts, EndedFacts
       DEF HandlerCommits, admission, vendor, ending, Terminals, IInv, TypeOK
  <2>2. handler' \in [at: Working, owner: Named, as: {"vendor", "failed"}]
    BY <1>29, NamedFacts, VacantFacts
       DEF HandlerCommits, admission, vendor, ending, Working, IInv, TypeOK
  <2> QED BY <1>29, <2>1, <2>2 DEF HandlerCommits, admission, vendor, ending, IInv, TypeOK
<1>30. CASE HandlerReleases
  <2>1. slot' \in Slots
    BY <1>30, NamedFacts, VacantFacts, ReleaseFacts
       DEF HandlerReleases, host, vendor, HandlerAt, IInv, TypeOK
  <2>2. handler' \in [at: Working, owner: Named, as: {"vendor", "failed"}]
    BY <1>30, NamedFacts, VacantFacts
       DEF HandlerReleases, host, vendor, HandlerAt, Working, IInv, TypeOK
  <2>3. terminated' \in BOOLEAN
    BY <1>30, NamedFacts, VacantFacts
       DEF HandlerReleases, host, vendor, HandlerAt, IInv, TypeOK
  <2> QED BY <1>30, <2>1, <2>2, <2>3 DEF HandlerReleases, host, vendor, IInv, TypeOK
<1>31. CASE HandlerCut
  <2>1. handler' \in [at: Working, owner: Named, as: {"vendor", "failed"}]
    BY <1>31, NamedFacts, VacantFacts
       DEF HandlerCut, admission, host, vendor, HandlerAt, Working, IInv, TypeOK
  <2>2. terminated' \in BOOLEAN
    BY <1>31, NamedFacts, VacantFacts
       DEF HandlerCut, admission, host, vendor, HandlerAt, IInv, TypeOK
  <2> QED BY <1>31, <2>1, <2>2 DEF HandlerCut, admission, host, vendor, IInv, TypeOK
<1>32. CASE ReportEnd
  <2>1. reporter' \in [at: Working, owner: Named]
    BY <1>32, NamedFacts, VacantFacts
       DEF ReportEnd, admission, host, vendor, Working, IInv, TypeOK
  <2>2. shutting' \in BOOLEAN
    BY <1>32, NamedFacts, VacantFacts
       DEF ReportEnd, admission, host, vendor, IInv, TypeOK
  <2> QED BY <1>32, <2>1, <2>2 DEF ReportEnd, admission, host, vendor, IInv, TypeOK
<1>33. CASE ReporterClaims
  <2>1. slot' \in Slots
    BY <1>33, NamedFacts, VacantFacts, ClaimFacts, ActiveFacts
       DEF ReporterClaims, host, vendor, IInv, TypeOK
  <2>2. reporter' \in [at: Working, owner: Named]
    BY <1>33, <1>0, NamedFacts DEF ReporterClaims, Working
  <2>3. terminated' \in BOOLEAN
    BY <1>33, NamedFacts, VacantFacts, ActiveFacts
       DEF ReporterClaims, host, vendor, IInv, TypeOK
  <2> QED BY <1>33, <2>1, <2>2, <2>3 DEF ReporterClaims, host, vendor, Claim, IInv, TypeOK
<1>34. CASE ReporterCommits
  <2>1. stream' \in Streams
    BY <1>34, NamedFacts, VacantFacts, EndedFacts
       DEF ReporterCommits, admission, vendor, ending, Terminals, IInv, TypeOK
  <2>2. reporter' \in [at: Working, owner: Named]
    BY <1>34, NamedFacts, VacantFacts
       DEF ReporterCommits, admission, vendor, ending, Working, IInv, TypeOK
  <2> QED BY <1>34, <2>1, <2>2 DEF ReporterCommits, admission, vendor, ending, IInv, TypeOK
<1>35. CASE ReporterReleases
  <2>1. slot' \in Slots
    BY <1>35, NamedFacts, VacantFacts, ReleaseFacts
       DEF ReporterReleases, host, vendor, IInv, TypeOK
  <2>2. reporter' \in [at: Working, owner: Named]
    BY <1>35, NamedFacts, VacantFacts
       DEF ReporterReleases, host, vendor, Working, IInv, TypeOK
  <2>3. terminated' \in BOOLEAN
    BY <1>35, NamedFacts, VacantFacts
       DEF ReporterReleases, host, vendor, IInv, TypeOK
  <2> QED BY <1>35, <2>1, <2>2, <2>3 DEF ReporterReleases, host, vendor, IInv, TypeOK
<1>36. CASE ReporterCut
  <2>1. reporter' \in [at: Working, owner: Named]
    BY <1>36, NamedFacts, VacantFacts
       DEF ReporterCut, admission, host, vendor, Working, IInv, TypeOK
  <2>2. terminated' \in BOOLEAN
    BY <1>36, NamedFacts, VacantFacts
       DEF ReporterCut, admission, host, vendor, IInv, TypeOK
  <2> QED BY <1>36, <2>1, <2>2 DEF ReporterCut, admission, host, vendor, IInv, TypeOK
<1>37. CASE Close
  <2>1. shutting' \in BOOLEAN
    BY <1>37, NamedFacts, VacantFacts
       DEF Close, admission, vendor, WithTeardown, IInv, TypeOK
  <2>2. closed' \in BOOLEAN
    BY <1>37, NamedFacts, VacantFacts
       DEF Close, admission, vendor, WithTeardown, IInv, TypeOK
  <2>3. teardown' \in [at: {"none", "interrupt", "claim", "commit", "settle", "close", "reap", "ok", "failed"}, owner: Named]
    BY <1>37, NamedFacts, VacantFacts
       DEF Close, admission, vendor, WithTeardown, IInv, TypeOK
  <2> QED BY <1>37, <2>1, <2>2, <2>3 DEF Close, admission, vendor, IInv, TypeOK
<1>38. CASE HostLeaves
  <2>1. closed' \in BOOLEAN
    BY <1>38, NamedFacts, VacantFacts
       DEF HostLeaves, admission, vendor, ending, WithTeardown, IInv, TypeOK
  <2>2. teardown' \in [at: {"none", "interrupt", "claim", "commit", "settle", "close", "reap", "ok", "failed"}, owner: Named]
    BY <1>38, NamedFacts, VacantFacts
       DEF HostLeaves, admission, vendor, ending, WithTeardown, IInv, TypeOK
  <2> QED BY <1>38, <2>1, <2>2 DEF HostLeaves, admission, vendor, ending, IInv, TypeOK
<1>39. CASE WatcherWakes
  <2>1. teardown' \in [at: {"none", "interrupt", "claim", "commit", "settle", "close", "reap", "ok", "failed"}, owner: Named]
    BY <1>39, NamedFacts, VacantFacts
       DEF WatcherWakes, admission, host, vendor, ending, WithTeardown, IInv,
           TypeOK
  <2> QED BY <1>39, <2>1 DEF WatcherWakes, admission, host, vendor, ending, IInv, TypeOK
<1>40. CASE TeardownInterrupts
  <2>1. slot' \in Slots
    BY <1>40, NamedFacts, VacantFacts, InterruptFacts
       DEF TeardownInterrupts, host, IInv, TypeOK
  <2>2. interrupt' \in [Owners -> Nat]
    BY <1>40, NamedFacts, VacantFacts, InterruptFacts
       DEF TeardownInterrupts, host, IInv, TypeOK
  <2>3. shutting' \in BOOLEAN
    BY <1>40, NamedFacts, VacantFacts
       DEF TeardownInterrupts, host, IInv, TypeOK
  <2>4. teardown' \in [at: {"none", "interrupt", "claim", "commit", "settle", "close", "reap", "ok", "failed"}, owner: Named]
    BY <1>40, NamedFacts, VacantFacts
       DEF TeardownInterrupts, host, IInv, TypeOK
  <2> QED BY <1>40, <2>1, <2>2, <2>3, <2>4 DEF TeardownInterrupts, host, Interrupt, IInv, TypeOK
<1>41. CASE TeardownClaims
  <2>1. slot' \in Slots
    BY <1>41, NamedFacts, VacantFacts, ClaimFacts, ActiveFacts
       DEF TeardownClaims, host, vendor, ending, IInv, TypeOK
  <2>2. teardown' \in [at: {"none", "interrupt", "claim", "commit", "settle", "close", "reap", "ok", "failed"}, owner: Named]
    <3>1. \/ teardown' = [teardown EXCEPT !.at = "settle"]
          \/ teardown' = [at |-> "commit", owner |-> slot.owner]
      BY <1>41 DEF TeardownClaims
    <3> QED BY <3>1, <1>0 DEF IInv, TypeOK
  <2> QED BY <1>41, <2>1, <2>2 DEF TeardownClaims, host, vendor, ending, Claim, IInv, TypeOK
<1>42. CASE TeardownEnds
  <2>1. slot' \in Slots
    BY <1>42, NamedFacts, VacantFacts, EndedFacts, ReleaseFacts
       DEF TeardownEnds, vendor, ending, IInv, TypeOK
  <2>2. stream' \in Streams
    BY <1>42, NamedFacts, VacantFacts, EndedFacts, ReleaseFacts
       DEF TeardownEnds, vendor, ending, Terminals, IInv, TypeOK
  <2>3. teardown' \in [at: {"none", "interrupt", "claim", "commit", "settle", "close", "reap", "ok", "failed"}, owner: Named]
    BY <1>42, NamedFacts, VacantFacts
       DEF TeardownEnds, vendor, ending, IInv, TypeOK
  <2> QED BY <1>42, <2>1, <2>2, <2>3 DEF TeardownEnds, vendor, ending, IInv, TypeOK
<1>43. CASE TeardownSettles
  <2>1. slot' \in Slots
    BY <1>43, NamedFacts, VacantFacts, EndedFacts
       DEF TeardownSettles, vendor, ending, IInv, TypeOK
  <2>2. stream' \in Streams
    BY <1>43, NamedFacts, VacantFacts, EndedFacts
       DEF TeardownSettles, vendor, ending, Terminals, IInv, TypeOK
  <2>3. teardown' \in [at: {"none", "interrupt", "claim", "commit", "settle", "close", "reap", "ok", "failed"}, owner: Named]
    BY <1>43, NamedFacts, VacantFacts
       DEF TeardownSettles, vendor, ending, IInv, TypeOK
  <2> QED BY <1>43, <2>1, <2>2, <2>3 DEF TeardownSettles, vendor, ending, IInv, TypeOK
<1>44. CASE TeardownCloses
  <2>1. inbox' \in Seq(Frames \X Owners)
    BY <1>44, NamedFacts, VacantFacts
       DEF TeardownCloses, admission, host, ending, IInv, TypeOK
  <2>2. link' \in {"up", "draining", "cut"}
    BY <1>44, NamedFacts, VacantFacts
       DEF TeardownCloses, admission, host, ending, IInv, TypeOK
  <2>3. teardown' \in [at: {"none", "interrupt", "claim", "commit", "settle", "close", "reap", "ok", "failed"}, owner: Named]
    BY <1>44, NamedFacts, VacantFacts
       DEF TeardownCloses, admission, host, ending, IInv, TypeOK
  <2> QED BY <1>44, <2>1, <2>2, <2>3 DEF TeardownCloses, admission, host, ending, IInv, TypeOK
<1>45. CASE TeardownReaps
  <2>1. teardown' \in [at: {"none", "interrupt", "claim", "commit", "settle", "close", "reap", "ok", "failed"}, owner: Named]
    BY <1>45, NamedFacts, VacantFacts
       DEF TeardownReaps, admission, host, vendor, ending, IInv, TypeOK
  <2> QED BY <1>45, <2>1 DEF TeardownReaps, admission, host, vendor, ending, IInv, TypeOK
<1> QED BY <1>1, <1>2, <1>3, <1>4, <1>5, <1>6, <1>7, <1>8, <1>9, <1>10, <1>11,
           <1>12, <1>13, <1>14, <1>15, <1>16, <1>17, <1>18, <1>19, <1>20, <1>21,
           <1>22, <1>23, <1>24, <1>25, <1>26, <1>27, <1>28, <1>29, <1>30, <1>31,
           <1>32, <1>33, <1>34, <1>35, <1>36, <1>37, <1>38, <1>39, <1>40, <1>41,
           <1>42, <1>43, <1>44, <1>45
       DEF Next, Stops, Notifications, Reports, Tears

\* The invariant is inductive.
LEMMA Inductive == IInv /\ [Next]_vars => IInv'
<1> SUFFICES ASSUME IInv, [Next]_vars PROVE IInv'
  OBVIOUS
<1>1. CASE UNCHANGED vars
  BY <1>1 DEF vars, admission, host, vendor, tasks, ending, IInv, TypeOK, SlotInv,
     NamesItsOwnTurn, StartInv, Pending, Known, OnePending, InboxInv, HandlerInv,
     ReporterInv, TeardownInv, TeardownEndsEveryTurn, InterruptInv
<1>2. CASE Next
  <2>1. TypeOK'
    BY <1>2, TypeKeeps
  <2>2. ASSUME NEW o \in Owners,
               \/ Start(o) \/ WriteStart(o) \/ StartRefused(o) \/ StartAnswered(o)
               \/ StartLost(o) \/ StartUnroutable(o) \/ DropStart(o) \/ AbandonStart(o)
        PROVE  IInv'
    BY <2>1, <2>2, StartKeeps, WriteStartKeeps, StartRefusedKeeps, StartAnsweredKeeps,
       StartsQuietly
  <2>3. ASSUME NEW o \in Owners, VendorStarts(o) \/ VendorReports(o) \/ VendorCompletes(o)
        PROVE  IInv'
    BY <2>1, <2>3, VendorStartsKeeps, VendorReportsKeeps, VendorCompletesKeeps
  <2>4. ASSUME NEW o \in Owners, AskStop(o) \/ Stops(o) PROVE IInv'
    BY <2>1, <2>4, StopsQuietly, StopLatchesKeeps, StopSendsKeeps DEF Stops
  <2>5. CASE Notifications \/ HandlerCut
    BY <2>1, <2>5, HandleStrayKeeps, HandleItemKeeps, HandleCompletedKeeps, HandlePoisonKeeps,
       PoisonInterruptsKeeps, HandlerClaimsKeeps, HandlerCommitsKeeps, HandlerReleasesKeeps,
       HandlerCutKeeps DEF Notifications
  <2>6. CASE Reports \/ ReporterCut
    BY <2>1, <2>6, ReportEndKeeps, ReporterClaimsKeeps, ReporterCommitsKeeps,
       ReporterReleasesKeeps, ReporterCutKeeps DEF Reports
  <2>7. CASE LinkEnds \/ LinkCut \/ Close \/ HostLeaves \/ WatcherWakes
    BY <2>1, <2>7, EndsQuietly, LinkCutKeeps
  <2>8. CASE Tears
    BY <2>1, <2>8, TeardownInterruptsKeeps, TeardownClaimsKeeps, TeardownEndsKeeps,
       TeardownSettlesKeeps, TeardownClosesKeeps, EndsQuietly DEF Tears
  <2> QED BY <1>2, <2>2, <2>3, <2>4, <2>5, <2>6, <2>7, <2>8 DEF Next
<1> QED BY <1>1, <1>2

LEMMA InitHolds == Init => IInv
<1> SUFFICES ASSUME Init PROVE IInv
  OBVIOUS
<1> USE DEF Init
<1>1. TypeOK
  <2>1. slot \in Slots /\ stream \in Streams
    BY VacantFacts DEF Streams
  <2>2. inbox \in Seq(Frames \X Owners)
    OBVIOUS
  <2>3. handler \in [at: Working, owner: Named, as: {"vendor", "failed"}]
    BY NamedFacts DEF HandlerAt, Working
  <2>4. reporter \in [at: Working, owner: Named]
    BY NamedFacts DEF Working
  <2>5. teardown \in [at: {"none", "interrupt", "claim", "commit", "settle",
                          "close", "reap", "ok", "failed"},
                     owner: Named]
    BY NamedFacts
  <2>6. stop \in [Owners -> StopPlaces]
    BY DEF StopPlaces
  <2> QED BY <2>1, <2>2, <2>3, <2>4, <2>5, <2>6 DEF TypeOK
<1>2. SlotInv /\ InboxInv /\ HandlerInv /\ ReporterInv /\ TeardownInv
  BY VacantFacts DEF SlotInv, NamesItsOwnTurn, InboxInv, HandlerInv, HandlerAt, ReporterInv,
     TeardownInv, TeardownEndsEveryTurn
<1>3. StartInv /\ OnePending /\ InterruptInv
  BY VacantFacts, NamedFacts DEF StartInv, OnePending, Pending, Known, Live, InterruptInv
<1> QED BY <1>1, <1>2, <1>3 DEF IInv

LEMMA Invariance == Spec => []IInv
BY InitHolds, Inductive, PTL DEF Spec

-----------------------------------------------------------------------------
(* Why a turn is told that it was cancelled.  Only the teardown says so,   *)
(* and it says so of a turn that is live when it claims; a teardown that a *)
(* poison or the end of the connection woke finds none, since both have    *)
(* claimed what was live before they wake it and nothing starts behind     *)
(* them.                                                                   *)

\* Somebody asked for a stop or an end, or the connection was cut.
Wanted == closed \/ link = "cut" \/ \E a \in Owners : stop[a] # "none"

\* No attempt holds admission with its terminal unclaimed.
Lull == ~Active(slot.owner)

CauseInv ==
    /\ terminated => shutting /\ (Wanted \/ Lull)
    /\ handler.at \in {"commit", "release"} /\ handler.as = "failed" => Lull
    /\ reporter.at \in {"commit", "release"} => Lull
    /\ teardown.at # "none" => Wanted \/ terminated
    /\ teardown.at = "commit" => Wanted

LEMMA CauseInit == Init => CauseInv
BY DEF Init, CauseInv, HandlerAt

\* A request is never taken back.
LEMMA WantedStays ==
    ASSUME IInv, Next, Wanted
    PROVE  Wanted'
<1>1. closed => closed'
  BY DEF Next, Start, WriteStart, StartRefused, StartAnswered, StartLost, StartUnroutable,
     DropStart, AbandonStart, VendorStarts, VendorReports, VendorCompletes, AskStop, Stops,
     StopChecks, StopLatches, StopSends, StopNames, StopAnswered, StopSettles, StopLeaves,
     StopJoins, LinkEnds, LinkCut, Notifications, HandleStray, HandleItem, HandleCompleted,
     HandlePoison, PoisonInterrupts, HandlerClaims, HandlerCommits, HandlerReleases, HandlerCut,
     Reports, ReportEnd, ReporterClaims, ReporterCommits, ReporterReleases, ReporterCut, Close,
     HostLeaves, WatcherWakes, Tears, TeardownInterrupts, TeardownClaims, TeardownEnds,
     TeardownSettles, TeardownCloses, TeardownReaps, host
<1>2. link = "cut" => link' = "cut"
  BY DEF Next, Start, WriteStart, StartRefused, StartAnswered, StartLost, StartUnroutable,
     DropStart, AbandonStart, VendorStarts, VendorReports, VendorCompletes, AskStop, Stops,
     StopChecks, StopLatches, StopSends, StopNames, StopAnswered, StopSettles, StopLeaves,
     StopJoins, LinkEnds, LinkCut, Notifications, HandleStray, HandleItem, HandleCompleted,
     HandlePoison, PoisonInterrupts, HandlerClaims, HandlerCommits, HandlerReleases, HandlerCut,
     Reports, ReportEnd, ReporterClaims, ReporterCommits, ReporterReleases, ReporterCut, Close,
     HostLeaves, WatcherWakes, Tears, TeardownInterrupts, TeardownClaims, TeardownEnds,
     TeardownSettles, TeardownCloses, TeardownReaps, vendor
<1>3. ASSUME NEW a \in Owners, stop[a] # "none" PROVE stop'[a] # "none"
  <2>1. stop \in [Owners -> StopPlaces]
    BY DEF IInv, TypeOK
  <2>2. ASSUME NEW o \in Owners, NEW place, place # "none", Goto(o, place)
        PROVE  stop'[a] # "none"
    BY <1>3, <2>1, <2>2 DEF Goto
  <2>3. ASSUME NEW o \in Owners, stop' = WithStop(o) PROVE stop'[a] # "none"
    BY <1>3, <2>1, <2>3 DEF WithStop
  <2>4. ASSUME NEW o \in Owners, Stops(o) PROVE stop'[a] # "none"
    BY <2>2, <2>4 DEF Stops, StopChecks, StopLatches, StopSends, StopNames, StopAnswered,
       StopSettles, StopLeaves, StopJoins, GivesUp
  <2>5. ASSUME NEW o \in Owners, AskStop(o) \/ AbandonStart(o) PROVE stop'[a] # "none"
    BY <2>3, <2>5 DEF AskStop, AbandonStart
  <2>6. CASE stop' = stop
    BY <1>3, <2>6
  <2>. QED BY <2>4, <2>5, <2>6 DEF Next, Start, WriteStart, StartRefused, StartAnswered,
     StartLost, StartUnroutable,
     DropStart, VendorStarts, VendorReports, VendorCompletes, LinkEnds, LinkCut,
     Notifications, HandleStray, HandleItem, HandleCompleted, HandlePoison, PoisonInterrupts,
     HandlerClaims, HandlerCommits, HandlerReleases, HandlerCut, Reports, ReportEnd,
     ReporterClaims, ReporterCommits, ReporterReleases, ReporterCut, Close,
     HostLeaves, WatcherWakes, Tears, TeardownInterrupts, TeardownClaims, TeardownEnds,
     TeardownSettles, TeardownCloses, TeardownReaps, tasks
<1>. QED BY <1>1, <1>2, <1>3 DEF Wanted

\* Work that was stopped stays stopped.
LEMMA ShuttingStays ==
    ASSUME Next, shutting
    PROVE  shutting'
BY DEF Next, Start, WriteStart, StartRefused, StartAnswered, StartLost, StartUnroutable,
   DropStart, AbandonStart, VendorStarts, VendorReports, VendorCompletes, AskStop, Stops,
   StopChecks, StopLatches, StopSends, StopNames, StopAnswered, StopSettles, GivesUp, StopLeaves,
   StopJoins, LinkEnds, LinkCut, Notifications, HandleStray, HandleItem, HandleCompleted,
   HandlePoison, PoisonInterrupts, HandlerClaims, HandlerCommits, HandlerReleases, HandlerCut,
   Reports, ReportEnd, ReporterClaims, ReporterCommits, ReporterReleases, ReporterCut, Close,
   HostLeaves, WatcherWakes, Tears, TeardownInterrupts, TeardownClaims, TeardownEnds,
   TeardownSettles, TeardownCloses, TeardownReaps, ending

\* Once work is stopped nothing becomes live again: a claim is given up only with the
\* slot.
LEMMA LullStays ==
    ASSUME IInv, Next, shutting, Lull
    PROVE  Lull'
<1>. USE DEF IInv, TypeOK
<1>1. CASE slot' = slot
  BY <1>1 DEF Lull, Active
<1>2. CASE slot' = Vacant
  BY <1>2, VacantFacts DEF Lull, Active
<1>3. CASE Claim
  BY <1>3, ClaimFacts DEF Lull, Active
<1>4. ASSUME NEW n \in Named, slot' = [slot EXCEPT !.name = n] PROVE Lull'
  BY <1>4, NameFacts DEF Lull, Active
<1>5. ASSUME NEW o \in Owners, StartAnswered(o) PROVE Lull'
  BY <1>1, <1>4, <1>5, NamedFacts DEF StartAnswered
<1>6. ASSUME NEW kind, Handles(kind) PROVE FALSE
  BY <1>6 DEF Lull, Handles, Routed
<1>7. ASSUME Interrupt PROVE Lull'
  BY <1>1, <1>7 DEF Lull, Interrupt, Interruptible
<1>8. ASSUME NEW o, ReleaseClaimed(o) PROVE Lull'
  BY <1>1, <1>2, <1>8 DEF ReleaseClaimed
<1>9. ASSUME NEW o \in Owners, ReleaseRefused(o) PROVE Lull'
  BY <1>1, <1>2, <1>9 DEF ReleaseRefused
<1>10. ASSUME NEW o \in Owners, StopLatches(o) PROVE Lull'
  BY <1>1, <1>10, DispatchFacts DEF StopLatches, Lull, Active
<1>11. ASSUME NEW o \in Owners, ~StopLatches(o), Stops(o) PROVE slot' = slot
  BY <1>11 DEF Stops, StopChecks, StopSends, StopNames, StopAnswered, StopSettles, StopLeaves,
     StopJoins, admission
<1>12. ASSUME NEW o \in Owners,
              \/ WriteStart(o) \/ StartLost(o) \/ StartUnroutable(o) \/ DropStart(o)
              \/ AbandonStart(o) \/ VendorStarts(o) \/ VendorReports(o) \/ VendorCompletes(o)
              \/ AskStop(o)
       PROVE  slot' = slot
  BY <1>12 DEF WriteStart, StartLost, StartUnroutable, DropStart, AbandonStart, VendorStarts,
     VendorReports, VendorCompletes, AskStop, admission
<1>13. CASE Notifications \/ HandlerCut
  BY <1>1, <1>3, <1>6, <1>7, <1>8, <1>13 DEF Notifications, HandleStray, HandleItem,
     HandleCompleted, HandlePoison, PoisonInterrupts, HandlerClaims, HandlerCommits,
     HandlerReleases, HandlerCut, admission
<1>14. CASE Reports \/ ReporterCut
  BY <1>1, <1>3, <1>8, <1>14 DEF Reports, ReportEnd, ReporterClaims, ReporterCommits,
     ReporterReleases, ReporterCut, admission
<1>15. CASE Tears
  BY <1>1, <1>2, <1>3, <1>7, <1>8, <1>15 DEF Tears, TeardownInterrupts, TeardownClaims,
     TeardownEnds, TeardownSettles, TeardownCloses, TeardownReaps, admission
<1>16. CASE LinkEnds \/ LinkCut \/ Close \/ HostLeaves \/ WatcherWakes
  BY <1>1, <1>16 DEF LinkEnds, LinkCut, Close, HostLeaves, WatcherWakes, admission
<1>17. ASSUME NEW o \in Owners, Start(o) \/ StartRefused(o) PROVE Lull'
  BY <1>9, <1>17 DEF Start, StartRefused
<1>. QED BY <1>1, <1>5, <1>10, <1>11, <1>12, <1>13, <1>14, <1>15, <1>16, <1>17 DEF Next

\* What a step leaves alone of the tasks keeps its reason.
LEMMA CauseStays ==
    ASSUME IInv, CauseInv, Next
    PROVE  /\ Wanted => Wanted'
           /\ terminated => shutting' /\ (Wanted' \/ Lull')
           /\ Lull /\ shutting => Lull'
           /\ handler' = handler => (handler'.at \in {"commit", "release"}
                                       /\ handler'.as = "failed" => Lull')
           /\ reporter' = reporter => (reporter'.at \in {"commit", "release"} => Lull')
           /\ teardown' = teardown /\ (terminated => terminated') =>
                /\ teardown'.at # "none" => Wanted' \/ terminated'
                /\ teardown'.at = "commit" => Wanted'
<1>1. Wanted => Wanted'
  BY WantedStays
<1>2. Lull /\ shutting => Lull'
  BY LullStays
<1>3. terminated => shutting' /\ (Wanted' \/ Lull')
  BY <1>1, <1>2, ShuttingStays DEF CauseInv
<1>4. handler' = handler => (handler'.at \in {"commit", "release"}
                               /\ handler'.as = "failed" => Lull')
  BY <1>2 DEF CauseInv, IInv, HandlerInv
<1>5. reporter' = reporter => (reporter'.at \in {"commit", "release"} => Lull')
  BY <1>2 DEF CauseInv, IInv, ReporterInv
<1>6. teardown' = teardown /\ (terminated => terminated') =>
        /\ teardown'.at # "none" => Wanted' \/ terminated'
        /\ teardown'.at = "commit" => Wanted'
  BY <1>1 DEF CauseInv
<1>. QED BY <1>1, <1>2, <1>3, <1>4, <1>5, <1>6

\* The call of the notifications wakes the watcher once nothing is live.
LEMMA NotificationsCause ==
    ASSUME IInv, IInv', CauseInv, Next, Notifications \/ HandlerCut
    PROVE  CauseInv'
<1>. USE DEF IInv
<1>1. reporter' = reporter /\ teardown' = teardown
  BY DEF Notifications, HandleStray, HandleItem, HandleCompleted, HandlePoison, PoisonInterrupts,
     HandlerClaims, HandlerCommits, HandlerReleases, HandlerCut, tasks
<1>2. CASE HandleStray \/ HandleItem
  BY <1>1, <1>2, CauseStays DEF HandleStray, HandleItem, tasks, ending, CauseInv
<1>3. CASE HandleCompleted \/ HandlePoison \/ PoisonInterrupts
  <2>1. terminated' = terminated
    BY <1>3 DEF HandleCompleted, HandlePoison, PoisonInterrupts, ending
  <2>2. handler' = handler \/ handler'.at \in {"interrupt", "claim"}
    BY <1>3 DEF HandleCompleted, HandlePoison, PoisonInterrupts, TypeOK
  <2>. QED BY <1>1, <2>1, <2>2, CauseStays DEF CauseInv
<1>4. CASE HandlerClaims
  <2>1. CASE Claim
    <3>1. Lull'
      BY <2>1, ClaimFacts DEF TypeOK, Lull, Active
    <3>2. terminated => terminated'
      BY <1>4 DEF HandlerClaims
    <3>3. terminated' => shutting'
      BY <1>4 DEF HandlerClaims, HandlerInv, CauseInv
    <3>. QED BY <1>1, <3>1, <3>2, <3>3, CauseStays DEF CauseInv
  <2>2. CASE ~Claim
    <3>1. /\ handler' = HandlerAt("idle") /\ slot' = slot /\ shutting' = shutting
          /\ terminated' = (terminated \/ handler.as = "failed")
          /\ handler.as = "failed" => Lull
      BY <1>4, <2>2 DEF HandlerClaims, admission, Lull
    <3>2. handler.as = "failed" => Lull' /\ shutting'
      BY <1>4, <3>1 DEF HandlerClaims, HandlerInv, Lull, Active
    <3>3. handler'.at = "idle"
      BY <3>1 DEF HandlerAt
    <3>. QED BY <1>1, <3>1, <3>2, <3>3, CauseStays DEF CauseInv
  <2>. QED BY <2>1, <2>2
<1>5. CASE HandlerCommits
  <2>1. handler.at = "commit" /\ handler'.as = handler.as /\ terminated' = terminated
    BY <1>5 DEF HandlerCommits, ending, TypeOK
  <2>2. handler'.as = "failed" => Lull'
    BY <2>1, CauseStays DEF CauseInv, HandlerInv
  <2>. QED BY <1>1, <2>1, <2>2, CauseStays DEF CauseInv
<1>6. CASE HandlerReleases
  <2>1. /\ handler.at = "release" /\ handler'.at = "idle"
        /\ terminated' = (terminated \/ handler.as = "failed")
    BY <1>6 DEF HandlerReleases, HandlerAt
  <2>2. handler.as = "failed" => Lull' /\ shutting'
    BY <2>1, CauseStays, ShuttingStays DEF CauseInv, HandlerInv
  <2>. QED BY <1>1, <2>1, <2>2, CauseStays DEF CauseInv
<1>7. CASE HandlerCut
  <2>1. /\ link' = "cut" /\ handler'.at = "gone" /\ (terminated => terminated')
    BY <1>7 DEF HandlerCut, HandlerAt, vendor
  <2>2. terminated' => shutting'
    BY <1>7, CauseStays DEF HandlerCut, CauseInv, HandlerInv
  <2>. QED BY <1>1, <2>1, <2>2, CauseStays DEF CauseInv, Wanted
<1>. QED BY <1>2, <1>3, <1>4, <1>5, <1>6, <1>7 DEF Notifications

\* So does the report of the connection's end.
LEMMA ReportsCause ==
    ASSUME IInv, IInv', CauseInv, Next, Reports \/ ReporterCut
    PROVE  CauseInv'
<1>. USE DEF IInv
<1>1. handler' = handler /\ teardown' = teardown
  BY DEF Reports, ReportEnd, ReporterClaims, ReporterCommits, ReporterReleases, ReporterCut
<1>2. \/ terminated' = terminated
      \/ terminated' = TRUE /\ reporter'.at = "gone"
  BY DEF Reports, ReportEnd, ReporterClaims, ReporterCommits, ReporterReleases, ReporterCut,
     ending
<1>3. terminated' /\ ~terminated => Lull'
  <2>1. CASE ReporterClaims
    BY <2>1 DEF ReporterClaims, Lull, Active
  <2>2. CASE ReporterReleases
    BY <2>2, CauseStays DEF ReporterReleases, CauseInv, ReporterInv
  <2>3. CASE ReporterCut /\ reporter.at \in {"commit", "release"}
    BY <2>3, CauseStays DEF CauseInv, ReporterInv
  <2>4. CASE ReporterCut /\ reporter.at \notin {"commit", "release"}
    <3>1. slot = Vacant /\ slot' = slot
      BY <2>4 DEF ReporterCut, TeardownInv, TeardownEndsEveryTurn, admission
    <3>. QED BY <3>1, VacantFacts DEF Lull, Active
  <2>5. CASE ReportEnd \/ ReporterCommits
    BY <2>5 DEF ReportEnd, ReporterCommits, ending
  <2>. QED BY <2>1, <2>2, <2>3, <2>4, <2>5 DEF Reports
<1>4. reporter'.at \in {"commit", "release"} => Lull'
  <2>1. CASE ReporterClaims
    BY <2>1, ClaimFacts DEF ReporterClaims, TypeOK, Lull, Active
  <2>2. CASE ReporterCommits
    BY <2>2, CauseStays DEF ReporterCommits, CauseInv, ReporterInv
  <2>3. CASE ReportEnd \/ ReporterReleases \/ ReporterCut
    BY <2>3 DEF ReportEnd, ReporterReleases, ReporterCut, TypeOK
  <2>. QED BY <2>1, <2>2, <2>3 DEF Reports
<1>5. terminated' => shutting'
  BY <1>2, CauseStays DEF ReporterInv
<1>. QED BY <1>1, <1>2, <1>3, <1>4, <1>5, CauseStays DEF CauseInv

\* A teardown claims a live turn only when it was asked for, or the connection was cut.
LEMMA TearsCause ==
    ASSUME IInv, IInv', CauseInv, Next, Tears
    PROVE  CauseInv'
<1>. USE DEF IInv
<1>1. handler' = handler /\ reporter' = reporter /\ terminated' = terminated
  BY DEF Tears, TeardownInterrupts, TeardownClaims, TeardownEnds, TeardownSettles,
     TeardownCloses, TeardownReaps, ending
<1>2. teardown.at # "none"
  BY DEF Tears, TeardownInterrupts, TeardownClaims, TeardownEnds, TeardownSettles,
     TeardownCloses, TeardownReaps
<1>3. Wanted' \/ terminated'
  BY <1>1, <1>2, CauseStays DEF CauseInv
<1>4. teardown'.at = "commit" => Wanted'
  <2>1. CASE TeardownClaims
    <3>1. teardown'.at = "commit" => ~Lull
      BY <2>1 DEF TeardownClaims, Lull, TypeOK
    <3>. QED BY <1>2, <3>1, CauseStays DEF CauseInv
  <2>2. CASE ~TeardownClaims
    BY <2>2 DEF Tears, TeardownInterrupts, TeardownEnds, TeardownSettles, TeardownCloses,
       TeardownReaps, TypeOK
  <2>. QED BY <2>1, <2>2
<1>. QED BY <1>1, <1>3, <1>4, CauseStays DEF CauseInv

\* Who starts the teardown asked for it, or was woken.
LEMMA AskingCause ==
    ASSUME IInv, IInv', CauseInv, Next, UNCHANGED <<handler, reporter, terminated>>,
           teardown' = teardown \/ (teardown' = WithTeardown /\ (Wanted' \/ terminated'))
    PROVE  CauseInv'
<1>1. CASE teardown' = teardown
  BY <1>1, CauseStays DEF CauseInv
<1>2. CASE teardown' = WithTeardown /\ teardown' # teardown
  <2>1. teardown'.at = "interrupt"
    BY <1>2 DEF WithTeardown, IInv, TypeOK
  <2>. QED BY <1>2, <2>1, CauseStays DEF CauseInv
<1>. QED BY <1>1, <1>2

\* A stop that gives its turn up, or follows an end, was asked for.
LEMMA StopsCause ==
    ASSUME IInv, IInv', CauseInv, Next, NEW o \in Owners, Stops(o)
    PROVE  CauseInv'
<1>1. stop[o] # "none"
  BY DEF Stops, StopChecks, StopLatches, StopSends, StopNames, StopAnswered, StopSettles,
     StopLeaves, StopJoins
<1>2. Wanted'
  BY <1>1, WantedStays DEF Wanted
<1>3. UNCHANGED <<handler, reporter, terminated>>
  BY DEF Stops, StopChecks, StopLatches, StopSends, StopNames, StopAnswered, StopSettles,
     StopLeaves, StopJoins, ending
<1>4. teardown' = teardown \/ teardown' = WithTeardown
  BY DEF Stops, StopChecks, StopLatches, StopSends, StopNames, StopAnswered, StopSettles,
     GivesUp, StopLeaves, StopJoins
<1>. QED BY <1>2, <1>3, <1>4, AskingCause

LEMMA CauseNext == IInv /\ IInv' /\ CauseInv /\ [Next]_vars => CauseInv'
<1>. SUFFICES ASSUME IInv, IInv', CauseInv, [Next]_vars PROVE CauseInv'
  OBVIOUS
<1>1. CASE UNCHANGED vars
  BY <1>1 DEF vars, admission, host, vendor, tasks, ending, CauseInv, Wanted, Lull, Active
<1>2. CASE Next
  <2>1. ASSUME NEW o \in Owners,
               \/ Start(o) \/ WriteStart(o) \/ StartRefused(o) \/ StartAnswered(o)
               \/ StartLost(o) \/ DropStart(o) \/ AbandonStart(o)
               \/ VendorStarts(o) \/ VendorReports(o) \/ VendorCompletes(o) \/ AskStop(o)
        PROVE  CauseInv'
    <3>1. UNCHANGED <<handler, reporter, terminated, teardown>>
      BY <2>1 DEF Start, WriteStart, StartRefused, StartAnswered, StartLost, DropStart,
         AbandonStart, VendorStarts, VendorReports, VendorCompletes, AskStop, tasks, ending
    <3>. QED BY <1>2, <3>1, AskingCause
  <2>2. ASSUME NEW o \in Owners, StartUnroutable(o) PROVE CauseInv'
    BY <1>2, <2>2, AskingCause DEF StartUnroutable, Wanted
  <2>3. CASE LinkEnds \/ LinkCut
    BY <1>2, <2>3, AskingCause DEF LinkEnds, LinkCut, tasks, ending
  <2>4. CASE Close \/ HostLeaves \/ WatcherWakes
    BY <1>2, <2>4, AskingCause DEF Close, HostLeaves, WatcherWakes, Wanted, ending
  <2>5. ASSUME NEW o \in Owners, Stops(o) PROVE CauseInv'
    BY <1>2, <2>5, StopsCause
  <2>. QED BY <1>2, <2>1, <2>2, <2>3, <2>4, <2>5, NotificationsCause, ReportsCause, TearsCause
       DEF Next
<1>. QED BY <1>1, <1>2

LEMMA Caused == Spec => []CauseInv
BY CauseInit, CauseNext, InitHolds, Inductive, PTL DEF Spec

\* A terminal that reads "cancelled" is written by the teardown alone.
LEMMA CancelledByTeardown ==
    ASSUME IInv, Next, NEW o \in Owners, stream[o] = "open", stream'[o] = "cancelled"
    PROVE  teardown.at = "commit"
<1>. USE DEF IInv, TypeOK
<1>1. ASSUME NEW p, NEW as \in {"vendor", "failed"}, stream' = Ended(p, as) PROVE FALSE
  BY <1>1 DEF Ended, Streams
<1>2. CASE stream' = stream
  BY <1>2
<1>3. ASSUME NEW p \in Owners, Start(p) \/ StartRefused(p) PROVE FALSE
  BY <1>3 DEF Start, StartRefused, ReleaseRefused, Streams
<1>4. ASSUME HandleItem \/ HandlePoison PROVE FALSE
  BY <1>1, <1>4 DEF HandleItem, HandlePoison
<1>5. ASSUME HandlerCommits \/ ReporterCommits \/ TeardownSettles PROVE FALSE
  BY <1>1, <1>5 DEF HandlerCommits, ReporterCommits, TeardownSettles
<1>6. CASE TeardownEnds
  BY <1>6 DEF TeardownEnds
<1>. QED BY <1>2, <1>3, <1>4, <1>5, <1>6 DEF Next, WriteStart, StartAnswered, StartLost,
   StartUnroutable,
   DropStart, AbandonStart, VendorStarts, VendorReports, VendorCompletes, AskStop, Stops,
   StopChecks, StopLatches, StopSends, StopNames, StopAnswered, StopSettles, StopLeaves,
   StopJoins, LinkEnds, LinkCut, Notifications, HandleStray, HandleCompleted,
   PoisonInterrupts, HandlerClaims, HandlerReleases, HandlerCut,
   Reports, ReportEnd, ReporterClaims, ReporterReleases, ReporterCut, Close,
   HostLeaves, WatcherWakes, Tears, TeardownInterrupts, TeardownClaims,
   TeardownCloses, TeardownReaps, host

-----------------------------------------------------------------------------
(* The session implements TurnAdmission: what it promises of its turns.    *)

\* The client is closed before the child is reaped.
CutInv == teardown.at \in {"reap", "ok", "failed"} => link = "cut"

LEMMA CutNext == IInv /\ CutInv /\ [Next]_vars => CutInv'
<1>. SUFFICES ASSUME IInv, CutInv, [Next]_vars PROVE CutInv'
  OBVIOUS
<1>1. CASE UNCHANGED vars
  BY <1>1 DEF vars, vendor, tasks, CutInv
<1>2. CASE Next
  <2>1. link = "cut" => link' = "cut"
    BY <1>2 DEF Next, Start, WriteStart, StartRefused, StartAnswered, StartLost,
       StartUnroutable, DropStart, AbandonStart, VendorStarts, VendorReports, VendorCompletes,
       AskStop, Stops, StopChecks, StopLatches, StopSends, StopNames, StopAnswered,
       StopSettles, StopLeaves, StopJoins, LinkEnds, LinkCut, Notifications, HandleStray,
       HandleItem, HandleCompleted, HandlePoison, PoisonInterrupts, HandlerClaims,
       HandlerCommits, HandlerReleases, HandlerCut, Reports, ReportEnd, ReporterClaims,
       ReporterCommits, ReporterReleases, ReporterCut, Close, HostLeaves, WatcherWakes, Tears,
       TeardownInterrupts, TeardownClaims, TeardownEnds, TeardownSettles, TeardownCloses,
       TeardownReaps, vendor
  <2>2. CASE teardown' = teardown
    BY <2>1, <2>2 DEF CutInv
  <2>3. CASE teardown' = WithTeardown
    BY <2>1, <2>3 DEF CutInv, WithTeardown, IInv, TypeOK
  <2>4. CASE Tears
    BY <2>1, <2>4 DEF Tears, TeardownInterrupts, TeardownClaims, TeardownEnds, TeardownSettles,
       TeardownCloses, TeardownReaps, CutInv, IInv, TypeOK
  <2>. QED BY <1>2, <2>2, <2>3, <2>4 DEF Next, Start, WriteStart, StartRefused, StartAnswered,
       StartLost, StartUnroutable, DropStart, AbandonStart, VendorStarts, VendorReports,
       VendorCompletes, AskStop, Stops, StopChecks, StopLatches, StopSends, StopNames,
       StopAnswered, StopSettles, GivesUp, StopLeaves, StopJoins, LinkEnds, LinkCut,
       Notifications, HandleStray, HandleItem, HandleCompleted, HandlePoison, PoisonInterrupts,
       HandlerClaims, HandlerCommits, HandlerReleases, HandlerCut, Reports, ReportEnd,
       ReporterClaims, ReporterCommits, ReporterReleases, ReporterCut, Close, HostLeaves,
       WatcherWakes, tasks
<1>. QED BY <1>1, <1>2

LEMMA Cut == Spec => []CutInv
<1>1. Init => CutInv
  BY DEF Init, CutInv
<1>. QED BY <1>1, CutNext, Invariance, PTL DEF Spec

\* The contract's variables, spelled out.
Begun == {o \in Owners : start[o] # "idle"}
AtWork == {o \in Owners : native[o] \in Live /\ teardown.at # "ok"}
Phase == IF teardown.at = "ok" THEN "over" ELSE IF shutting THEN "closing" ELSE "no"

\* A step that begins no attempt, no native turn and no end of the child.
Steady ==
    /\ \A o \in Owners : /\ start'[o] = "idle" <=> start[o] = "idle"
                         /\ native'[o] \in Live <=> native[o] \in Live
    /\ teardown'.at = "ok" <=> teardown.at = "ok"

LEMMA SteadySets ==
    ASSUME Steady
    PROVE  Begun' = Begun /\ AtWork' = AtWork
BY DEF Steady, Begun, AtWork

LEMMA Stutters ==
    ASSUME Steady, slot'.owner = slot.owner, shutting' = shutting
    PROVE  UNCHANGED Admission!vars
<1>1. Phase' = Phase
  BY DEF Steady, Phase
<1>. QED BY <1>1, SteadySets DEF Begun, AtWork, Phase, Admission!vars

LEMMA Closing ==
    ASSUME IInv, IInv', Steady, slot'.owner = slot.owner, shutting' = TRUE
    PROVE  [Admission!Next]_Admission!vars
<1>1. CASE shutting
  BY <1>1, Stutters DEF IInv, TypeOK
<1>2. CASE ~shutting
  <2>1. teardown.at # "ok"
    BY <1>2 DEF IInv, TeardownInv
  <2>2. Phase = "no" /\ Phase' = "closing"
    BY <1>2, <2>1 DEF Steady, Phase
  <2>. QED BY <2>2, SteadySets
       DEF Begun, AtWork, Phase, Admission!Next, Admission!Close
<1>. QED BY <1>1, <1>2

\* The slot is given back behind the work, or in a session that ends.
LEMMA Leaving ==
    ASSUME IInv, Steady, shutting' = shutting, slot'.owner \in {slot.owner, NoOwner},
           slot'.owner # slot.owner => shutting \/ \A o \in Owners : native[o] \notin Live
    PROVE  [Admission!Next]_Admission!vars
<1>1. CASE slot'.owner = slot.owner
  BY <1>1, Stutters
<1>2. CASE slot'.owner # slot.owner
  <2>1. Phase' = Phase
    BY DEF Steady, Phase
  <2>2. AtWork = {} \/ Phase = "closing"
    BY <1>2 DEF AtWork, Phase
  <2>. QED BY <1>2, <2>1, <2>2, SteadySets DEF Begun, AtWork, Phase, Admission!Next,
       Admission!Leave, Admission!LeftToTheProcess
<1>. QED BY <1>1, <1>2

\* Nothing of an earlier turn runs when a start takes the slot.
LEMMA StartAdmits ==
    ASSUME IInv, IInv', NEW o \in Owners, Start(o)
    PROVE  Admission!Next
<1>. USE DEF IInv
<1>1. /\ start[o] = "idle" /\ ~shutting /\ ~shutting' /\ slot.owner = NoOwner /\ slot'.owner = o
      /\ native' = native /\ teardown' = teardown /\ start' = [start EXCEPT ![o] = "installed"]
  BY VacantFacts, TurnFacts, NamedFacts DEF Start, vendor, tasks, ending
<1>2. teardown.at # "ok"
  BY <1>1 DEF TeardownInv
<1>3. AtWork = {} /\ AtWork' = {}
  <2>1. ASSUME NEW p \in Owners, native[p] \in Live PROVE FALSE
    BY <1>1, <2>1, NamedFacts DEF StartInv, Pending
  <2>. QED BY <1>1, <2>1 DEF AtWork
<1>4. Begun' = Begun \cup {o} /\ o \notin Begun
  BY <1>1 DEF Begun, TypeOK
<1>5. Phase = "no" /\ Phase' = "no"
  BY <1>1, <1>2 DEF Phase
<1>6. Admission!Admit(o)
  BY <1>1, <1>3, <1>4, <1>5 DEF Begun, AtWork, Phase, Admission!Admit
<1>. QED BY <1>6 DEF Admission!Next

\* A turn/start is written for the attempt in the slot, or for the last one that was.
LEMMA WriteStartWorks ==
    ASSUME IInv, IInv', CutInv, NEW o \in Owners, WriteStart(o)
    PROVE  Admission!Next
<1>. USE DEF IInv
<1>1. /\ start[o] = "installed" /\ start' = [start EXCEPT ![o] = "written"]
      /\ native' = [native EXCEPT ![o] = "asked"] /\ link = "up"
      /\ UNCHANGED <<slot, teardown, shutting>>
  BY DEF WriteStart, admission, tasks, ending
<1>2. teardown.at # "ok"
  BY <1>1 DEF CutInv
<1>3. \A p \in Owners : native[p] \notin Live /\ (native'[p] \in Live <=> p = o)
  <2>1. native[o] = "none"
    BY <1>1 DEF StartInv
  <2>2. ASSUME NEW p \in Owners, native[p] \in Live PROVE FALSE
    BY <1>1, <2>1, <2>2 DEF OnePending, Pending, Live
  <2>. QED BY <1>1, <2>2 DEF TypeOK, Live
<1>4. AtWork = {} /\ AtWork' = {o}
  BY <1>1, <1>2, <1>3 DEF AtWork
<1>5. Begun' = Begun /\ o \in Begun
  BY <1>1 DEF Begun, TypeOK
<1>6. slot.owner = o \/ (slot.owner = NoOwner /\ shutting)
  BY <1>1 DEF StartInv, Pending
<1>7. Phase' = Phase /\ Phase # "over" /\ (shutting => Phase = "closing")
  BY <1>1, <1>2 DEF Phase
<1>8. Admission!Work(o)
  BY <1>1, <1>4, <1>5, <1>6, <1>7
     DEF Begun, AtWork, Phase, Admission!Work, Admission!LeftToTheProcess
<1>. QED BY <1>8 DEF Admission!Next

\* A native turn that is refused or completes was the only one.
LEMMA VendorRests ==
    ASSUME IInv, IInv', NEW o \in Owners, VendorStarts(o) \/ VendorCompletes(o)
    PROVE  [Admission!Next]_Admission!vars
<1>. USE DEF IInv
<1>1. /\ UNCHANGED <<start, slot, teardown, shutting>> /\ native[o] \in Live
      /\ \A p \in Owners : p # o => native'[p] = native[p]
  BY DEF VendorStarts, VendorCompletes, admission, host, tasks, ending, TypeOK, Live
<1>2. CASE native'[o] \in Live
  BY <1>1, <1>2, Stutters DEF Steady
<1>3. CASE native'[o] \notin Live
  <2>1. \A p \in Owners : native'[p] \notin Live
    BY <1>1, <1>3 DEF OnePending, Pending
  <2>2. AtWork' = {} /\ Begun' = Begun /\ Phase' = Phase
    BY <1>1, <2>1 DEF AtWork, Begun, Phase
  <2>. QED BY <1>1, <2>2 DEF Begun, AtWork, Phase, Admission!Next, Admission!Rest
<1>. QED BY <1>2, <1>3

\* A start is given back over a native turn that never ran.
LEMMA StartRefusedLeaves ==
    ASSUME IInv, IInv', NEW o \in Owners, StartRefused(o)
    PROVE  [Admission!Next]_Admission!vars
<1>. USE DEF IInv
<1>1. /\ UNCHANGED <<native, teardown, shutting>> /\ start[o] # "idle"
      /\ start' = [start EXCEPT ![o] = "over"] /\ native[o] \in {"none", "refused"}
  BY DEF StartRefused, vendor, tasks, ending, StartInv
<1>2. slot' = slot \/ (slot.owner = o /\ slot'.owner = NoOwner)
  BY RefusedFacts, VacantFacts DEF StartRefused, TypeOK
<1>3. Steady
  BY <1>1 DEF Steady, TypeOK
<1>4. slot.owner = o => \A p \in Owners : native[p] \notin Live
  BY <1>1, NamedFacts DEF StartInv, Pending, Live
<1>. QED BY <1>1, <1>2, <1>3, <1>4, Leaving

LEMMA StartsStay ==
    ASSUME IInv, IInv', NEW o \in Owners,
           \/ StartAnswered(o) \/ StartLost(o) \/ StartUnroutable(o) \/ DropStart(o)
           \/ AbandonStart(o) \/ VendorReports(o) \/ AskStop(o)
    PROVE  [Admission!Next]_Admission!vars
<1>. USE DEF IInv
<1>1. UNCHANGED native
  BY DEF StartAnswered, StartLost, StartUnroutable, DropStart, AbandonStart, VendorReports,
     AskStop, vendor
<1>2. \/ start' = start
      \/ \E place \in {"returned", "dropped", "over"} :
            start[o] # "idle" /\ start' = [start EXCEPT ![o] = place]
  BY DEF StartAnswered, StartLost, StartUnroutable, DropStart, AbandonStart, VendorReports,
     AskStop, host
<1>3. slot'.owner = slot.owner
  BY NameFacts, NamedFacts DEF StartAnswered, StartLost, StartUnroutable, DropStart,
     AbandonStart, VendorReports, AskStop, admission, TypeOK
<1>4. teardown' = teardown \/ teardown' = WithTeardown
  BY DEF StartAnswered, StartLost, StartUnroutable, DropStart, AbandonStart, VendorReports,
     AskStop, tasks
<1>5. Steady
  BY <1>1, <1>2, <1>4 DEF Steady, WithTeardown, TypeOK
<1>6. shutting' = shutting \/ shutting' = TRUE
  BY DEF StartAnswered, StartLost, StartUnroutable, DropStart, AbandonStart, VendorReports,
     AskStop, ending
<1>. QED BY <1>3, <1>5, <1>6, Stutters, Closing

LEMMA StopsStay ==
    ASSUME IInv, IInv', NEW o \in Owners, Stops(o)
    PROVE  [Admission!Next]_Admission!vars
<1>. USE DEF IInv
<1>1. UNCHANGED <<native, start>>
  BY DEF Stops, StopChecks, StopLatches, StopSends, StopNames, StopAnswered, StopSettles,
     StopLeaves, StopJoins, vendor, host
<1>2. slot'.owner = slot.owner
  BY DispatchFacts DEF Stops, StopChecks, StopLatches, StopSends, StopNames, StopAnswered,
     StopSettles, StopLeaves, StopJoins, admission, TypeOK
<1>3. teardown' = teardown \/ teardown' = WithTeardown
  BY DEF Stops, StopChecks, StopLatches, StopSends, StopNames, StopAnswered, StopSettles,
     GivesUp, StopLeaves, StopJoins
<1>4. Steady
  BY <1>1, <1>3 DEF Steady, WithTeardown, TypeOK
<1>5. shutting' = shutting \/ shutting' = TRUE
  BY DEF Stops, StopChecks, StopLatches, StopSends, StopNames, StopAnswered, StopSettles,
     GivesUp, StopLeaves, StopJoins, ending
<1>. QED BY <1>2, <1>4, <1>5, Stutters, Closing

\* A notification call gives the slot back behind the completion of its turn, or in a
\* session that it ends.
LEMMA NotificationsLeave ==
    ASSUME IInv, IInv', Notifications \/ HandlerCut
    PROVE  [Admission!Next]_Admission!vars
<1>. USE DEF IInv
<1>1. UNCHANGED <<native, start, teardown>>
  BY DEF Notifications, HandleStray, HandleItem, HandleCompleted, HandlePoison,
     PoisonInterrupts, HandlerClaims, HandlerCommits, HandlerReleases, HandlerCut, vendor,
     host, tasks
<1>2. Steady
  BY <1>1 DEF Steady
<1>3. CASE HandlerReleases
  <2>1. shutting' = shutting /\ ReleaseClaimed(handler.owner) /\ handler.at = "release"
    BY <1>3 DEF HandlerReleases
  <2>2. slot' = slot \/ (slot.owner = handler.owner /\ slot'.owner = NoOwner)
    BY <2>1, ReleaseFacts, VacantFacts DEF TypeOK
  <2>3. slot.owner = handler.owner /\ ~shutting => \A p \in Owners : native[p] \notin Live
    BY <2>1, NamedFacts DEF HandlerInv, StartInv, Pending, Live, TypeOK
  <2>. QED BY <1>2, <2>1, <2>2, <2>3, Leaving
<1>4. CASE ~HandlerReleases
  <2>1. ASSUME NEW kind, Handles(kind) PROVE slot'.owner = slot.owner
    BY <2>1, HandlesKeeps
  <2>2. slot'.owner = slot.owner
    BY <1>4, <2>1, InterruptFacts, ClaimFacts DEF Notifications, HandleStray, HandleItem,
       HandleCompleted, HandlePoison, PoisonInterrupts, HandlerClaims, HandlerCommits,
       HandlerCut, admission, TypeOK
  <2>3. shutting' = shutting \/ shutting' = TRUE
    BY <1>4 DEF Notifications, HandleStray, HandleItem, HandleCompleted, HandlePoison,
       PoisonInterrupts, HandlerClaims, HandlerCommits, HandlerCut, ending
  <2>. QED BY <1>2, <2>2, <2>3, Stutters, Closing
<1>. QED BY <1>3, <1>4

LEMMA ReportsLeave ==
    ASSUME IInv, IInv', Reports \/ ReporterCut
    PROVE  [Admission!Next]_Admission!vars
<1>. USE DEF IInv
<1>1. UNCHANGED <<native, start, teardown>>
  BY DEF Reports, ReportEnd, ReporterClaims, ReporterCommits, ReporterReleases, ReporterCut,
     vendor, host
<1>2. Steady
  BY <1>1 DEF Steady
<1>3. CASE ReporterReleases
  <2>1. shutting' = shutting /\ ReleaseClaimed(reporter.owner) /\ shutting
    BY <1>3 DEF ReporterReleases, ReporterInv
  <2>2. slot'.owner \in {slot.owner, NoOwner}
    BY <2>1, ReleaseFacts, VacantFacts DEF TypeOK
  <2>. QED BY <1>2, <2>1, <2>2, Leaving
<1>4. CASE ~ReporterReleases
  <2>1. slot'.owner = slot.owner
    BY <1>4, ClaimFacts DEF Reports, ReportEnd, ReporterClaims, ReporterCommits, ReporterCut,
       admission, TypeOK
  <2>2. shutting' = shutting \/ shutting' = TRUE
    BY <1>4 DEF Reports, ReportEnd, ReporterClaims, ReporterCommits, ReporterCut, ending
  <2>. QED BY <1>2, <2>1, <2>2, Stutters, Closing
<1>. QED BY <1>3, <1>4

\* The teardown stops work before it takes the slot back, and reaps the child last.
LEMMA TearsEnd ==
    ASSUME IInv, IInv', Tears
    PROVE  [Admission!Next]_Admission!vars
<1>. USE DEF IInv
<1>1. UNCHANGED <<native, start>>
  BY DEF Tears, TeardownInterrupts, TeardownClaims, TeardownEnds, TeardownSettles,
     TeardownCloses, TeardownReaps, vendor, host
<1>2. CASE TeardownReaps
  <2>1. /\ UNCHANGED <<slot, shutting>> /\ teardown.at = "reap" /\ shutting
        /\ teardown'.at \in {"ok", "failed"}
    BY <1>2 DEF TeardownReaps, TeardownInv, TypeOK, admission, ending
  <2>2. CASE teardown'.at = "failed"
    <3>1. Steady
      BY <1>1, <2>1, <2>2 DEF Steady
    <3>. QED BY <2>1, <3>1, Stutters
  <2>3. CASE teardown'.at = "ok"
    <3>1. AtWork' = {} /\ Begun' = Begun /\ Phase = "closing" /\ Phase' = "over"
      BY <1>1, <2>1, <2>3 DEF AtWork, Begun, Phase
    <3>. QED BY <2>1, <3>1 DEF Begun, AtWork, Phase, Admission!Next, Admission!End,
         Admission!LeftToTheProcess
  <2>. QED BY <2>1, <2>2, <2>3
<1>3. CASE ~TeardownReaps
  <2>1. teardown.at # "ok" /\ teardown'.at # "ok"
    BY <1>3 DEF Tears, TeardownInterrupts, TeardownClaims, TeardownEnds, TeardownSettles,
       TeardownCloses, TypeOK
  <2>2. Steady
    BY <1>1, <2>1 DEF Steady
  <2>3. CASE TeardownInterrupts
    BY <2>2, <2>3, InterruptFacts, Closing DEF TeardownInterrupts, TypeOK
  <2>4. CASE TeardownClaims \/ TeardownCloses
    BY <2>2, <2>4, ClaimFacts, Stutters DEF TeardownClaims, TeardownCloses, TypeOK,
       admission, ending
  <2>5. CASE TeardownEnds \/ TeardownSettles
    <3>1. shutting' = shutting /\ shutting
      BY <2>5 DEF TeardownEnds, TeardownSettles, TeardownInv, ending
    <3>2. slot'.owner \in {slot.owner, NoOwner}
      BY <2>5, ReleaseFacts, VacantFacts DEF TeardownEnds, TeardownSettles, TypeOK
    <3>. QED BY <2>2, <3>1, <3>2, Leaving
  <2>. QED BY <1>3, <2>3, <2>4, <2>5 DEF Tears
<1>. QED BY <1>2, <1>3

LEMMA EndsStay ==
    ASSUME IInv, IInv', LinkEnds \/ LinkCut \/ Close \/ HostLeaves \/ WatcherWakes
    PROVE  [Admission!Next]_Admission!vars
<1>. USE DEF IInv
<1>1. UNCHANGED <<native, start, slot>>
  BY DEF LinkEnds, LinkCut, Close, HostLeaves, WatcherWakes, vendor, host, admission
<1>2. teardown' = teardown \/ teardown' = WithTeardown
  BY DEF LinkEnds, LinkCut, Close, HostLeaves, WatcherWakes, tasks
<1>3. Steady
  BY <1>1, <1>2 DEF Steady, WithTeardown, TypeOK
<1>4. shutting' = shutting \/ shutting' = TRUE
  BY DEF LinkEnds, LinkCut, Close, HostLeaves, WatcherWakes, ending
<1>. QED BY <1>1, <1>3, <1>4, Stutters, Closing

LEMMA AdmissionInit == Init => Admission!Init
BY VacantFacts DEF Init, Admission!Init, Live

LEMMA AdmissionStep ==
    IInv /\ IInv' /\ CutInv /\ [Next]_vars => [Admission!Next]_Admission!vars
<1>. SUFFICES ASSUME IInv, IInv', CutInv, [Next]_vars
              PROVE  [Admission!Next]_Admission!vars
  OBVIOUS
<1>1. CASE UNCHANGED vars
  <2>1. UNCHANGED <<slot, start, native, teardown, shutting>>
    BY <1>1 DEF vars, admission, host, vendor, tasks, ending
  <2>2. Steady
    BY <2>1 DEF Steady
  <2>. QED BY <2>1, <2>2, Stutters
<1>2. CASE Next
  BY <1>2, StartAdmits, WriteStartWorks, VendorRests, StartRefusedLeaves, StartsStay, StopsStay,
     NotificationsLeave, ReportsLeave, TearsEnd, EndsStay DEF Next
<1>. QED BY <1>1, <1>2

-----------------------------------------------------------------------------
\* Every variable keeps the type the module declares for it.
THEOREM TypeCorrect == Spec => []TypeOK
<1>1. IInv => TypeOK
  BY DEF IInv
<1> QED BY <1>1, Invariance, PTL

\* However starts, late frames, stops and ends of the session interleave, no
\* turn/start reaches the app-server while an earlier native turn may run.
THEOREM OneNativeTurnHolds == Spec => []OneNativeTurn
<1>1. IInv => OneNativeTurn
  BY DEF IInv, OnePending, Pending, OneNativeTurn
<1> QED BY <1>1, Invariance, PTL

\* An attempt is only ever named after its own native turn.
THEOREM NamesItsOwnTurnHolds == Spec => []NamesItsOwnTurn
<1>1. IInv => NamesItsOwnTurn
  BY DEF IInv, SlotInv
<1> QED BY <1>1, Invariance, PTL

\* A native turn is sent one turn/interrupt at most.
THEOREM OneInterruptHolds == Spec => []OneInterrupt
<1>1. IInv => OneInterrupt
  BY DEF IInv, InterruptInv, OneInterrupt
<1> QED BY <1>1, Invariance, PTL

\* The teardown closes the client behind a vacant slot and ended streams,
\* whoever had claimed the last terminal and wherever it was stopped.
THEOREM TeardownEndsEveryTurnHolds == Spec => []TeardownEndsEveryTurn
<1>1. IInv => TeardownEndsEveryTurn
  BY DEF IInv, TeardownInv
<1> QED BY <1>1, Invariance, PTL

\* A host hears that its turn was cancelled only when somebody asked for a stop or an
\* end, or the connection was cut: a poison or a report of the connection's end claims
\* what is live before it wakes the teardown.
THEOREM CancelledIsAskedForHolds == Spec => CancelledIsAskedFor
<1>1. IInv /\ CauseInv /\ [Next]_vars =>
        [\A o \in Owners : stream[o] = "open" /\ stream'[o] = "cancelled" =>
            \/ closed \/ link = "cut"
            \/ \E a \in Owners : stop[a] # "none"]_vars
  <2>. SUFFICES ASSUME IInv, CauseInv, Next, NEW o \in Owners,
                       stream[o] = "open", stream'[o] = "cancelled"
                PROVE  Wanted
    BY DEF Wanted
  <2>. QED BY CancelledByTeardown DEF CauseInv
<1>. QED BY <1>1, Invariance, Caused, PTL DEF Spec, CancelledIsAskedFor

\* However starts, late frames, stops and ends of the session interleave, the session
\* does what both vendors' sessions promise of their turns: one turn at a time is
\* worked for, admission is kept behind the work until the session closes, and nothing
\* is worked for once the teardown has reaped the app-server.
THEOREM Implements == Spec => ImplementsAdmission
<1>1. Spec => Init /\ [][Next]_vars
  BY DEF Spec
<1>. QED BY <1>1, AdmissionInit, AdmissionStep, Invariance, Cut, PTL
     DEF ImplementsAdmission, Admission!Spec
=============================================================================
