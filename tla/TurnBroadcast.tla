--------------------------- MODULE TurnBroadcast ---------------------------
(***************************************************************************)
(* The fan-out between a supervised turn and whoever watches it:           *)
(* hub-host's `subscriber.rs` (TurnBroadcast, Slot, TurnSubscriber).       *)
(*                                                                         *)
(* A publisher copies the list of watchers, then visits their slots one    *)
(* after the other; inside a slot it holds the lock while it drops the     *)
(* oldest events, and wakes the watcher after it unlocked.  Watchers come, *)
(* read, give up waiting and leave in between.  The order in which the     *)
(* slots of one event are visited promises nothing and is left open.       *)
(***************************************************************************)
EXTENDS Integers, Sequences, FiniteSets

CONSTANTS
    Subscribers,       \* identities of TurnSubscriber handles
    Publishers,        \* tasks that may call publish at the same time
    Sizes,             \* what event_bytes may answer
    Capacity,          \* `capacity` as the host passed it
    MaxRetainedBytes,  \* max_retained_bytes
    MaxEvents          \* bound on the events a behaviour publishes

ASSUME BroadcastAssumption ==
    /\ Sizes \subseteq Nat
    /\ Capacity \in Nat
    /\ MaxRetainedBytes \in Nat
    /\ MaxEvents \in Nat

VARIABLES
    alive,      \* the TurnBroadcast has not been dropped
    slots,      \* the slots it lists
    published,  \* how many events publish was called with
    publisher,  \* where each call of publish is
    closing,    \* slots the drop of the broadcast has yet to close
    announcing, \* the slot it closed and has yet to wake
    queue,      \* each slot's Queue, behind its mutex
    permit,     \* the permit each slot's Notify keeps
    reader,     \* where each subscriber is
    \* history: what was pushed to a slot, how much of it the watcher was told
    \* of, as an event or as part of a gap, and the last thing it was told
    pushed, accounted, told

slotVars == <<queue, pushed>>
readVars == <<reader, accounted, told>>
ownVars  == <<alive, slots, published, publisher, closing, announcing>>
vars == <<ownVars, slotVars, readVars, permit>>

-----------------------------------------------------------------------------
Held  == [id : 1..MaxEvents, bytes : Sizes]
Queue == [held : Seq(Held), bytes : Int, missed : Nat, closed : BOOLEAN]
EmptyQueue == [held |-> << >>, bytes |-> 0, missed |-> 0, closed |-> FALSE]

\* What a delivery was: an event, or the count of the events a gap stands for.
Event(held)   == [kind |-> "event", event |-> {held}, missed |-> 0]
Gap(missed)   == [kind |-> "gap", event |-> {}, missed |-> missed]
NothingYet    == [kind |-> "nothing", event |-> {}, missed |-> 0]

\* `capacity.max(1)`: a host that asks for none still gets the newest event.
Room == IF Capacity = 0 THEN 1 ELSE Capacity

\* A publisher that is between calls, and one visiting the slots it copied.
Resting == [pc |-> "idle", event |-> {}, watchers |-> {}, slot |-> {}]
Visit(pc, event, watchers, slot) ==
    [pc |-> pc, event |-> event, watchers |-> watchers, slot |-> slot]

\* Somebody holds a strong reference to the slot.
Upgrades(s) ==
    \/ reader[s] \notin {"absent", "gone"}
    \/ \E p \in Publishers : s \in publisher[p].watchers \cup publisher[p].slot

\* A publisher is inside the slot's critical section.
Locked(s) ==
    \E p \in Publishers : publisher[p].pc = "evict" /\ s \in publisher[p].slot

\* Mutant: notify_waiters, which keeps no permit.
NotifyOne_NoPermit(s) ==
    /\ reader' = IF reader[s] = "parked" THEN [reader EXCEPT ![s] = "woken"]
                 ELSE reader
    /\ UNCHANGED permit

\* Notify::notify_one: wakes the watcher that waits, or keeps one permit.
NotifyOne(s) ==
    IF reader[s] = "parked"
    THEN reader' = [reader EXCEPT ![s] = "woken"] /\ UNCHANGED permit
    ELSE permit' = [permit EXCEPT ![s] = TRUE] /\ UNCHANGED reader

-----------------------------------------------------------------------------
Init ==
    /\ alive = TRUE /\ slots = {} /\ published = 0
    /\ publisher = [p \in Publishers |-> Resting]
    /\ closing = {} /\ announcing = {}
    /\ queue = [s \in Subscribers |-> EmptyQueue]
    /\ permit = [s \in Subscribers |-> FALSE]
    /\ reader = [s \in Subscribers |-> "absent"]
    /\ pushed = [s \in Subscribers |-> << >>]
    /\ accounted = [s \in Subscribers |-> 0]
    /\ told = [s \in Subscribers |-> NothingYet]

\* TurnBroadcast::subscribe.
Subscribe(s) ==
    /\ alive /\ reader[s] = "absent"
    /\ slots' = {other \in slots : Upgrades(other)} \cup {s}
    /\ reader' = [reader EXCEPT ![s] = "idle"]
    /\ UNCHANGED <<alive, published, publisher, closing, announcing, slotVars,
                   permit, accounted, told>>

\* TurnBroadcast::publish up to the copy of the list.  With nobody watching
\* it returns at once.
Publish(p) ==
    /\ alive /\ publisher[p].pc = "idle" /\ published < MaxEvents
    /\ published' = published + 1
    /\ slots' = {s \in slots : Upgrades(s)}
    /\ \E bytes \in Sizes :
           publisher' =
               [publisher EXCEPT ![p] =
                   IF slots' = {} THEN Resting
                   ELSE Visit("offer", {[id |-> published', bytes |-> bytes]},
                              slots', {})]
    /\ UNCHANGED <<alive, closing, announcing, slotVars, readVars, permit>>

\* push_back, and the byte total that goes with it.
Longer(q, held) ==
    [held |-> Append(q.held, held), bytes |-> q.bytes + held.bytes,
     missed |-> q.missed, closed |-> q.closed]

\* Slot::push takes the lock and queues the event at the back.
Offer(p, s) ==
    /\ publisher[p].pc = "offer" /\ s \in publisher[p].watchers /\ ~Locked(s)
    /\ \E held \in publisher[p].event :
           /\ queue' = [queue EXCEPT ![s] = Longer(@, held)]
           /\ pushed' = [pushed EXCEPT ![s] = Append(@, held)]
    /\ publisher' = [publisher EXCEPT ![p] =
                         Visit("evict", @.event, @.watchers \ {s}, {s})]
    /\ UNCHANGED <<alive, slots, published, closing, announcing, readVars,
                   permit>>

\* Mutant: the newest event goes too when it is larger than the byte budget.
Over_EvenTheNewest(q) == Len(q.held) > Room \/ q.bytes > MaxRetainedBytes

\* Slot::push's loop condition: too many events, or too many bytes in more
\* than the newest one.
Over(q) ==
    \/ Len(q.held) > Room
    \/ q.bytes > MaxRetainedBytes /\ Len(q.held) > 1

\* One turn of that loop: the oldest event goes, and is counted as missed.
WithoutOldest(q) ==
    [held |-> Tail(q.held), bytes |-> q.bytes - Head(q.held).bytes,
     missed |-> q.missed + 1, closed |-> q.closed]

\* The lock is held until the queue fits.
Evict(p) ==
    /\ publisher[p].pc = "evict"
    /\ \E s \in publisher[p].slot :
           /\ Over(queue[s])
           /\ queue' = [queue EXCEPT ![s] = WithoutOldest(@)]
    /\ UNCHANGED <<ownVars, pushed, readVars, permit>>

\* The queue fits: the lock is released ...
Unlock(p) ==
    /\ publisher[p].pc = "evict"
    /\ \A s \in publisher[p].slot : ~Over(queue[s])
    /\ publisher' = [publisher EXCEPT ![p] =
                         Visit("notify", @.event, @.watchers, @.slot)]
    /\ UNCHANGED <<alive, slots, published, closing, announcing, slotVars,
                   readVars, permit>>

\* ... and then the watcher is woken; the next slot's turn comes, if any.
Wake(p) ==
    /\ publisher[p].pc = "notify"
    /\ \E s \in publisher[p].slot : NotifyOne(s)
    /\ publisher' =
           [publisher EXCEPT ![p] = IF @.watchers = {} THEN Resting
                                    ELSE Visit("offer", @.event, @.watchers, {})]
    /\ UNCHANGED <<alive, slots, published, closing, announcing, slotVars,
                   accounted, told>>

\* The drop of the broadcast: no call of publish can be running.
DropBroadcast ==
    /\ alive /\ \A p \in Publishers : publisher[p].pc = "idle"
    /\ alive' = FALSE
    /\ closing' = {s \in slots : Upgrades(s)}
    /\ UNCHANGED <<slots, published, publisher, announcing, slotVars, readVars,
                   permit>>

\* `queue.closed = true`: what is held stays to be read.
Closed(q) == [held |-> q.held, bytes |-> q.bytes, missed |-> q.missed,
              closed |-> TRUE]

\* Slot::close, one slot after the other: the flag, then the wakeup.
Close(s) ==
    /\ s \in closing /\ announcing = {}
    /\ queue' = [queue EXCEPT ![s] = Closed(@)]
    /\ closing' = closing \ {s} /\ announcing' = {s}
    /\ UNCHANGED <<alive, slots, published, publisher, pushed, readVars, permit>>

AnnounceClose(s) ==
    /\ s \in announcing
    /\ NotifyOne(s)
    /\ announcing' = {}
    /\ UNCHANGED <<alive, slots, published, publisher, closing, slotVars,
                   accounted, told>>

-----------------------------------------------------------------------------
(* A watcher: recv is Slot::next in a loop, try_recv is one Slot::next.     *)

\* The watcher may look into its slot.
Looks(s) == reader[s] = "idle" /\ ~Locked(s)

\* mem::take of the missed count.
Told(q) == [held |-> q.held, bytes |-> q.bytes, missed |-> 0,
            closed |-> q.closed]

\* Slot::next answers a gap before any event that is still held.
TakeGap(s) ==
    /\ Looks(s) /\ queue[s].missed > 0
    /\ queue' = [queue EXCEPT ![s] = Told(@)]
    /\ told' = [told EXCEPT ![s] = Gap(queue[s].missed)]
    /\ accounted' = [accounted EXCEPT ![s] = @ + queue[s].missed]
    /\ UNCHANGED <<ownVars, pushed, reader, permit>>

\* pop_front, and the byte total that goes with it.
Taken(q) == [held |-> Tail(q.held), bytes |-> q.bytes - Head(q.held).bytes,
             missed |-> q.missed, closed |-> q.closed]

\* Mutant: the held events are handed out before the gap in front of them.
TakeEvent_BeforeGap(s) ==
    /\ Looks(s) /\ queue[s].held # << >>
    /\ queue' = [queue EXCEPT ![s] = Taken(@)]
    /\ told' = [told EXCEPT ![s] = Event(Head(queue[s].held))]
    /\ accounted' = [accounted EXCEPT ![s] = @ + 1]
    /\ UNCHANGED <<ownVars, pushed, reader, permit>>

\* With nothing missed, the oldest event that is held.
TakeEvent(s) ==
    /\ Looks(s) /\ queue[s].missed = 0 /\ queue[s].held # << >>
    /\ queue' = [queue EXCEPT ![s] = Taken(@)]
    /\ told' = [told EXCEPT ![s] = Event(Head(queue[s].held))]
    /\ accounted' = [accounted EXCEPT ![s] = @ + 1]
    /\ UNCHANGED <<ownVars, pushed, reader, permit>>

Empty(s) == queue[s].missed = 0 /\ queue[s].held = << >>

\* Mutant: the closed flag is looked at first.
SeeEnd_Eager(s) ==
    /\ Looks(s) /\ queue[s].closed
    /\ reader' = [reader EXCEPT ![s] = "ended"]
    /\ UNCHANGED <<ownVars, slotVars, permit, accounted, told>>

\* With nothing left to read, Slot::next answers `Closed`.
SeeEnd(s) ==
    /\ Looks(s) /\ Empty(s) /\ queue[s].closed
    /\ reader' = [reader EXCEPT ![s] = "ended"]
    /\ UNCHANGED <<ownVars, slotVars, permit, accounted, told>>

\* recv found nothing and has not begun to wait.
FindNothing(s) ==
    /\ Looks(s) /\ Empty(s) /\ ~queue[s].closed
    /\ reader' = [reader EXCEPT ![s] = "empty"]
    /\ UNCHANGED <<ownVars, slotVars, permit, accounted, told>>

\* `woken.notified().await`: a kept permit is used up, or the watcher waits.
Park(s) ==
    /\ reader[s] = "empty"
    /\ reader' = [reader EXCEPT ![s] = IF permit[s] THEN "idle" ELSE "parked"]
    /\ permit' = [permit EXCEPT ![s] = FALSE]
    /\ UNCHANGED <<ownVars, slotVars, accounted, told>>

Woken(s) ==
    /\ reader[s] = "woken"
    /\ reader' = [reader EXCEPT ![s] = "idle"]
    /\ UNCHANGED <<ownVars, slotVars, permit, accounted, told>>

\* The future of recv is dropped while it waits; Notified gives a wakeup it
\* had received back.
CancelRecv(s) ==
    /\ reader[s] \in {"parked", "woken"}
    /\ reader' = [reader EXCEPT ![s] = "idle"]
    /\ permit' = [permit EXCEPT ![s] = @ \/ reader[s] = "woken"]
    /\ UNCHANGED <<ownVars, slotVars, accounted, told>>

\* The TurnSubscriber is dropped: a browser tab closed.
Leave(s) ==
    /\ reader[s] \in {"idle", "ended"}
    /\ reader' = [reader EXCEPT ![s] = "gone"]
    /\ UNCHANGED <<ownVars, slotVars, permit, accounted, told>>

-----------------------------------------------------------------------------
Publishes(p) == \/ Evict(p) \/ Unlock(p) \/ Wake(p)
                \/ \E s \in Subscribers : Offer(p, s)

Closes == \E s \in Subscribers : Close(s) \/ AnnounceClose(s)

Reads(s) == \/ TakeGap(s) \/ TakeEvent(s) \/ SeeEnd(s) \/ FindNothing(s)
            \/ Park(s) \/ Woken(s)

Next ==
    \/ \E p \in Publishers : Publish(p) \/ Publishes(p)
    \/ DropBroadcast \/ Closes
    \/ \E s \in Subscribers :
           Subscribe(s) \/ Reads(s) \/ CancelRecv(s) \/ Leave(s)

Spec == Init /\ [][Next]_vars

\* publish and the drop never wait for anybody, and a watcher that is there
\* keeps asking for what comes next.
Fairness ==
    /\ \A p \in Publishers : WF_vars(Publishes(p))
    /\ WF_vars(Closes)
    /\ \A s \in Subscribers : WF_vars(Reads(s))

FairSpec == Spec /\ Fairness

-----------------------------------------------------------------------------
(* Properties                                                               *)

Publisher == [pc : {"idle", "offer", "evict", "notify"}, event : SUBSET Held,
              watchers : SUBSET Subscribers, slot : SUBSET Subscribers]
Delivery  == [kind : {"nothing", "event", "gap"}, event : SUBSET Held,
              missed : Nat]
Readers   == {"absent", "idle", "empty", "parked", "woken", "ended", "gone"}

\* Every variable keeps its type: the count of missed events only grows until
\* it is told, and is told whole.
TypeOK ==
    /\ alive \in BOOLEAN /\ slots \subseteq Subscribers
    /\ published \in 0..MaxEvents
    /\ publisher \in [Publishers -> Publisher]
    /\ closing \subseteq Subscribers /\ announcing \subseteq Subscribers
    /\ queue \in [Subscribers -> Queue]
    /\ permit \in [Subscribers -> BOOLEAN]
    /\ reader \in [Subscribers -> Readers]
    /\ pushed \in [Subscribers -> Seq(Held)]
    /\ accounted \in [Subscribers -> Nat]
    /\ told \in [Subscribers -> Delivery]

\* A gap says exactly how many events were lost, and says it where they would
\* have been: what a watcher was told of, what the next gap will count and
\* what is still queued are, in this order, all that was pushed to its slot,
\* and the event it was handed last is the one that came there.
NothingLostSilently ==
    \A s \in Subscribers :
        /\ Len(pushed[s]) = accounted[s] + queue[s].missed + Len(queue[s].held)
        /\ \A i \in 1..Len(queue[s].held) :
               queue[s].held[i] = pushed[s][accounted[s] + queue[s].missed + i]
        /\ told[s].kind = "event" => told[s].event = {pushed[s][accounted[s]]}

\* "The newest event is always kept, even when it alone exceeds the byte
\* budget": a watcher that has not been told of everything still has an event
\* to read, and the last one it has is the last one pushed.
NewestSurvives ==
    \A s \in Subscribers :
        accounted[s] < Len(pushed[s]) =>
            /\ queue[s].held # << >>
            /\ queue[s].held[Len(queue[s].held)] = pushed[s][Len(pushed[s])]

\* "A queue holds at most `capacity` events and at most the byte budget plus
\* the newest event", whenever a watcher can look at it.
RetentionBounded ==
    \A s \in Subscribers :
        ~Locked(s) =>
            /\ Len(queue[s].held) <= Room
            /\ queue[s].bytes > MaxRetainedBytes => Len(queue[s].held) <= 1

\* A watcher that reads the end was told of everything its slot was pushed,
\* and the broadcast is gone.
EndComesLast ==
    \A s \in Subscribers :
        reader[s] = "ended" => ~alive /\ accounted[s] = Len(pushed[s])

\* No lost wakeup: a watcher does not stay parked over something to read.
ParkedWatcherWakes ==
    \A s \in Subscribers :
        (reader[s] = "parked" /\ (queue[s].held # << >> \/ queue[s].closed))
            ~> reader[s] # "parked"
=============================================================================
