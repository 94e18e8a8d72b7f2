------------------------ MODULE TurnBroadcastProofs ------------------------
(* Proofs about TurnBroadcast, for any watchers, publishers and bounds.     *)
EXTENDS TurnBroadcast, SequenceTheorems, TLAPS

-----------------------------------------------------------------------------
(* What one change of a queue does.                                         *)

\* The size of an event is a number.
LEMMA HeldBytes == ASSUME NEW h \in Held PROVE h.bytes \in Nat
<1>1. h.bytes \in Sizes
  BY DEF Held
<1> QED
  BY <1>1, BroadcastAssumption

\* Pushing to a queue.
LEMMA PushedQueue ==
    ASSUME NEW q \in Queue, NEW event \in Held,
           NEW p, p = Longer(q, event)
    PROVE  /\ p \in Queue
           /\ p.held = Append(q.held, event)
           /\ p.missed = q.missed /\ p.closed = q.closed
           /\ Len(p.held) = Len(q.held) + 1
           /\ \A i \in 1..Len(q.held) : p.held[i] = q.held[i]
           /\ p.held[Len(q.held) + 1] = event
<1>1. q.held \in Seq(Held) /\ q.bytes \in Int /\ event.bytes \in Nat
  BY HeldBytes DEF Queue
<1> DEFINE longer == Append(q.held, event)
<1>2. /\ longer \in Seq(Held) /\ Len(longer) = Len(q.held) + 1
      /\ \A i \in 1..Len(q.held) : longer[i] = q.held[i]
      /\ longer[Len(q.held) + 1] = event
  BY <1>1, AppendProperties
<1> HIDE DEF longer
<1>3. p = [held |-> longer, bytes |-> q.bytes + event.bytes,
           missed |-> q.missed, closed |-> q.closed]
  BY DEF Longer, longer
<1>4. p \in Queue
  BY <1>1, <1>2, <1>3 DEF Queue
<1> QED
  BY <1>2, <1>3, <1>4 DEF longer

\* Dropping the oldest event counts it as missed.
LEMMA EvictedQueue ==
    ASSUME NEW q \in Queue, q.held # << >>
    PROVE  /\ WithoutOldest(q) \in Queue
           /\ WithoutOldest(q).missed = q.missed + 1
           /\ WithoutOldest(q).closed = q.closed
           /\ Len(WithoutOldest(q).held) = Len(q.held) - 1
           /\ \A i \in 1..(Len(q.held) - 1) :
                  WithoutOldest(q).held[i] = q.held[i + 1]
<1>1. q.held \in Seq(Held) /\ q.bytes \in Int /\ q.missed \in Nat
  BY DEF Queue
<1> DEFINE rest == Tail(q.held)
           fewer == q.bytes - Head(q.held).bytes
           more == q.missed + 1
<1>2. rest \in Seq(Held) /\ Head(q.held) \in Held
  BY <1>1, HeadTailProperties
<1>3. Head(q.held).bytes \in Nat
  BY <1>2, HeldBytes
<1> fewer \in Int /\ more \in Nat
  BY <1>1, <1>3
<1>4. /\ Len(rest) = Len(q.held) - 1
      /\ \A i \in 1..(Len(q.held) - 1) : rest[i] = q.held[i + 1]
  BY <1>1, HeadTailProperties
<1>5. WithoutOldest(q) =
          [held |-> rest, bytes |-> fewer, missed |-> more, closed |-> q.closed]
  BY DEF WithoutOldest, Queue
<1> HIDE DEF rest, fewer, more
<1>6. /\ WithoutOldest(q) \in Queue
      /\ WithoutOldest(q).held = rest /\ WithoutOldest(q).missed = more
      /\ WithoutOldest(q).closed = q.closed
  BY <1>2, <1>5 DEF Queue
<1> QED
  BY <1>4, <1>6 DEF more

\* Taking the oldest event does not.
LEMMA ReadQueue ==
    ASSUME NEW q \in Queue, q.held # << >>,
           NEW p, p = Taken(q)
    PROVE  /\ p \in Queue
           /\ p.missed = q.missed /\ p.closed = q.closed
           /\ Len(p.held) = Len(q.held) - 1
           /\ \A i \in 1..(Len(q.held) - 1) : p.held[i] = q.held[i + 1]
           /\ Head(q.held) \in Held /\ Head(q.held) = q.held[1]
           /\ p.bytes <= q.bytes
<1>1. q.held \in Seq(Held) /\ q.bytes \in Int
  BY DEF Queue
<1> DEFINE rest == Tail(q.held)
           fewer == q.bytes - Head(q.held).bytes
<1>2. rest \in Seq(Held) /\ Head(q.held) \in Held /\ Head(q.held) = q.held[1]
  BY <1>1, HeadTailProperties
<1>3. Head(q.held).bytes \in Nat
  BY <1>2, HeldBytes
<1> fewer \in Int /\ fewer <= q.bytes
  BY <1>1, <1>3
<1>4. /\ Len(rest) = Len(q.held) - 1
      /\ \A i \in 1..(Len(q.held) - 1) : rest[i] = q.held[i + 1]
  BY <1>1, HeadTailProperties
<1>5. p = [held |-> rest, bytes |-> fewer, missed |-> q.missed,
           closed |-> q.closed]
  BY DEF Taken
<1> HIDE DEF rest, fewer
<1>6. /\ p \in Queue /\ p.held = rest /\ p.bytes = fewer
      /\ p.missed = q.missed /\ p.closed = q.closed
  BY <1>2, <1>3, <1>5 DEF Queue
<1> QED
  BY <1>2, <1>3, <1>4, <1>6

\* There is always room for the newest event.
LEMMA RoomForOne == Room \in Nat /\ Room >= 1
BY BroadcastAssumption DEF Room

-----------------------------------------------------------------------------
(* The inductive invariant.                                                 *)

\* What is held is what was pushed behind the first d events.
InLine(held, all, d) == \A i \in 1..Len(held) : held[i] = all[d + i]

\* A slot's books: nothing is missed unless something newer is held, and what
\* was told of came off the front of what was pushed.
BooksOf(s) ==
    /\ Len(pushed[s]) = accounted[s] + queue[s].missed + Len(queue[s].held)
    /\ queue[s].missed > 0 => Len(queue[s].held) >= 1
    /\ InLine(queue[s].held, pushed[s], accounted[s] + queue[s].missed)
    /\ told[s].kind = "event" =>
           accounted[s] >= 1 /\ told[s].event = {pushed[s][accounted[s]]}

Books == \A s \in Subscribers : BooksOf(s)

\* Nobody publishes into a dropped broadcast, and only its drop closes slots.
Quiet ==
    /\ ~alive => \A p \in Publishers : publisher[p].pc = "idle"
    /\ \A s \in Subscribers :
           s \in closing \/ queue[s].closed => ~alive

Inv == TypeOK /\ Books /\ Quiet /\ RetentionBounded /\ EndComesLast
-----------------------------------------------------------------------------
(* Type correctness, action by action.                                      *)

USE DEF ownVars, slotVars, readVars

LEMMA Waking ==
    ASSUME TypeOK, NEW s \in Subscribers, NotifyOne(s)
    PROVE  /\ reader' \in [Subscribers -> Readers]
           /\ permit' \in [Subscribers -> BOOLEAN]
           /\ \A t \in Subscribers : reader'[t] = "ended" => reader[t] = "ended"
BY DEF TypeOK, NotifyOne, Readers

LEMMA TypeInit == Init => TypeOK
<1> SUFFICES ASSUME Init PROVE TypeOK
  OBVIOUS
<1>1. EmptyQueue \in Queue /\ Resting \in Publisher /\ NothingYet \in Delivery
  BY DEF EmptyQueue, Queue, Resting, Publisher, NothingYet, Delivery
<1> QED
  BY <1>1, BroadcastAssumption DEF Init, TypeOK, Readers

LEMMA TypeStep == TypeOK /\ [Next]_vars => TypeOK'
<1> SUFFICES ASSUME TypeOK, [Next]_vars PROVE TypeOK'
  OBVIOUS
<1>1. ASSUME NEW s \in Subscribers, Subscribe(s) PROVE TypeOK'
  BY <1>1 DEF Subscribe, TypeOK, Readers
<1>2. ASSUME NEW p \in Publishers, Publish(p) PROVE TypeOK'
  <2>1. PICK bytes \in Sizes :
            publisher' =
               [publisher EXCEPT ![p] =
                   IF slots' = {} THEN Resting
                   ELSE Visit("offer", {[id |-> published', bytes |-> bytes]},
                              slots', {})]
    BY <1>2 DEF Publish
  <2>2. slots' \subseteq Subscribers /\ published' \in 1..MaxEvents
    BY <1>2, BroadcastAssumption DEF Publish, TypeOK
  <2>3. [id |-> published', bytes |-> bytes] \in Held
    BY <2>2 DEF Held
  <2>4. Resting \in Publisher
    BY DEF Resting, Publisher
  <2>5. Visit("offer", {[id |-> published', bytes |-> bytes]}, slots', {})
            \in Publisher
    BY <2>2, <2>3 DEF Visit, Publisher
  <2>6. publisher' \in [Publishers -> Publisher]
    BY <2>1, <2>4, <2>5 DEF TypeOK
  <2> QED
    BY <1>2, <2>2, <2>6 DEF Publish, TypeOK
<1>3. ASSUME NEW p \in Publishers, NEW s \in Subscribers, Offer(p, s)
      PROVE  TypeOK'
  <2>1. PICK held \in publisher[p].event :
            /\ queue' = [queue EXCEPT ![s] = Longer(@, held)]
            /\ pushed' = [pushed EXCEPT ![s] = Append(@, held)]
    BY <1>3 DEF Offer
  <2>2. held \in Held /\ queue[s] \in Queue /\ pushed[s] \in Seq(Held)
    BY <2>1 DEF TypeOK, Publisher
  <2>3. queue'[s] \in Queue /\ \A t \in Subscribers : t # s => queue'[t] = queue[t]
    BY <2>1, <2>2, PushedQueue DEF TypeOK
  <2>4. queue' \in [Subscribers -> Queue]
    BY <2>1, <2>3 DEF TypeOK
  <2>5. pushed' \in [Subscribers -> Seq(Held)]
    BY <2>1, <2>2, AppendProperties DEF TypeOK
  <2>6. publisher' \in [Publishers -> Publisher]
    BY <1>3 DEF Offer, TypeOK, Publisher, Visit
  <2> QED
    BY <1>3, <2>4, <2>5, <2>6 DEF Offer, TypeOK
<1>4. ASSUME NEW p \in Publishers, Evict(p) PROVE TypeOK'
  <2>1. PICK s \in publisher[p].slot :
            Over(queue[s]) /\ queue' = [queue EXCEPT ![s] = WithoutOldest(@)]
    BY <1>4 DEF Evict
  <2>2. s \in Subscribers /\ queue[s] \in Queue
    BY <2>1 DEF TypeOK, Publisher
  <2>3. queue[s].held # << >>
    BY <2>1, <2>2, RoomForOne DEF Over, Queue
  <2>4. WithoutOldest(queue[s]) \in Queue
    BY <2>2, <2>3, EvictedQueue
  <2>5. queue' \in [Subscribers -> Queue]
    BY <2>1, <2>4 DEF TypeOK
  <2> QED
    BY <1>4, <2>5 DEF Evict, TypeOK
<1>5. ASSUME NEW p \in Publishers, Unlock(p) PROVE TypeOK'
  BY <1>5 DEF Unlock, TypeOK, Publisher, Visit
<1>6. ASSUME NEW p \in Publishers, Wake(p) PROVE TypeOK'
  <2>1. PICK s \in publisher[p].slot : NotifyOne(s)
    BY <1>6 DEF Wake
  <2>2. s \in Subscribers
    BY <2>1 DEF TypeOK, Publisher
  <2>3. publisher' \in [Publishers -> Publisher]
    BY <1>6 DEF Wake, TypeOK, Publisher, Resting, Visit
  <2> QED
    BY <1>6, <2>1, <2>2, <2>3, Waking DEF Wake, TypeOK
<1>7. CASE DropBroadcast
  BY <1>7 DEF DropBroadcast, TypeOK
<1>8. ASSUME NEW s \in Subscribers, Close(s) PROVE TypeOK'
  BY <1>8 DEF Close, Closed, TypeOK, Queue
<1>9. ASSUME NEW s \in Subscribers, AnnounceClose(s) PROVE TypeOK'
  BY <1>9, Waking DEF AnnounceClose, TypeOK
<1>10. ASSUME NEW s \in Subscribers, TakeGap(s) PROVE TypeOK'
  BY <1>10 DEF TakeGap, Told, TypeOK, Queue, Delivery, Gap
<1>11. ASSUME NEW s \in Subscribers, TakeEvent(s) PROVE TypeOK'
  <2>1. queue[s] \in Queue /\ queue[s].held # << >>
    BY <1>11 DEF TakeEvent, TypeOK
  <2>2. queue'[s] \in Queue /\ Head(queue[s].held) \in Held
    BY <1>11, <2>1, ReadQueue DEF TakeEvent, TypeOK
  <2>3. queue' \in [Subscribers -> Queue]
    BY <1>11, <2>2 DEF TakeEvent, TypeOK
  <2>4. Event(Head(queue[s].held)) \in Delivery
    BY <2>2 DEF Event, Delivery
  <2> QED
    BY <1>11, <2>3, <2>4 DEF TakeEvent, TypeOK
<1>12. ASSUME NEW s \in Subscribers,
              SeeEnd(s) \/ FindNothing(s) \/ Park(s) \/ Woken(s)
                \/ CancelRecv(s) \/ Leave(s)
       PROVE  TypeOK'
  BY <1>12 DEF SeeEnd, FindNothing, Park, Woken, CancelRecv, Leave, TypeOK,
               Readers
<1>13. CASE UNCHANGED vars
  BY <1>13 DEF vars, TypeOK
<1> QED
  BY <1>1, <1>2, <1>3, <1>4, <1>5, <1>6, <1>7, <1>8, <1>9, <1>10, <1>11, <1>12,
     <1>13 DEF Next, Publishes, Closes, Reads
-----------------------------------------------------------------------------
(* The books of a slot.                                                     *)

\* Actions that leave every slot's books alone.
SlotsKept == /\ \A s \in Subscribers : /\ queue'[s].held = queue[s].held
                                       /\ queue'[s].bytes = queue[s].bytes
                                       /\ queue'[s].missed = queue[s].missed
             /\ UNCHANGED <<pushed, accounted, told>>

LEMMA ClosedQueue ==
    ASSUME TypeOK, NEW s \in Subscribers, Close(s)
    PROVE  SlotsKept /\ \A t \in Subscribers : queue'[t].closed =>
                                               t = s \/ queue[t].closed
BY DEF Close, Closed, TypeOK, SlotsKept, Queue

LEMMA Keeping ==
    ASSUME TypeOK, [Next]_vars
    PROVE  \/ SlotsKept
           \/ \E p \in Publishers, s \in Subscribers : Offer(p, s)
           \/ \E p \in Publishers : Evict(p)
           \/ \E s \in Subscribers : TakeGap(s) \/ TakeEvent(s)
<1>1. ASSUME NEW s \in Subscribers, Close(s) PROVE SlotsKept
  BY <1>1, ClosedQueue
<1>2. ASSUME UNCHANGED <<slotVars, accounted, told>> PROVE SlotsKept
  BY <1>2 DEF SlotsKept
<1>3. ASSUME NEW s \in Subscribers, Subscribe(s) PROVE SlotsKept
  BY <1>2, <1>3 DEF Subscribe
<1>4. ASSUME NEW p \in Publishers, Publish(p) \/ Unlock(p) \/ Wake(p)
      PROVE  SlotsKept
  BY <1>2, <1>4 DEF Publish, Unlock, Wake
<1>5. CASE DropBroadcast
  BY <1>2, <1>5 DEF DropBroadcast
<1>6. ASSUME NEW s \in Subscribers,
             AnnounceClose(s) \/ SeeEnd(s) \/ FindNothing(s) \/ Park(s)
               \/ Woken(s) \/ CancelRecv(s) \/ Leave(s)
      PROVE  SlotsKept
  BY <1>2, <1>6 DEF AnnounceClose, SeeEnd, FindNothing, Park, Woken, CancelRecv,
                    Leave
<1>7. CASE UNCHANGED vars
  BY <1>2, <1>7 DEF vars
<1> QED
  BY <1>1, <1>3, <1>4, <1>5, <1>6, <1>7 DEF Next, Publishes, Closes, Reads

\* An event that joins at both ends of the books is in line there.
LEMMA JoinsTheLine ==
    ASSUME NEW held \in Seq(Held), NEW all \in Seq(Held), NEW event \in Held,
           NEW d \in Nat, InLine(held, all, d), Len(all) = d + Len(held),
           NEW longer, NEW more, more = Append(all, event),
           Len(longer) = Len(held) + 1, longer[Len(held) + 1] = event,
           \A i \in 1..Len(held) : longer[i] = held[i]
    PROVE  InLine(longer, more, d)
<1> DEFINE n == Len(all)  k == Len(held)
<1>1. k \in Nat /\ n = d + k /\ Len(longer) = k + 1
  BY LenProperties
<1>2. /\ \A i \in 1..n : more[i] = all[i]
      /\ more[n + 1] = event
  BY AppendProperties
<1>3. \A i \in 1..k : longer[i] = held[i] /\ held[i] = all[d + i]
  BY DEF InLine
<1>4. longer[k + 1] = event
  OBVIOUS
<1> HIDE DEF n, k
<1>5. ASSUME NEW i \in 1..(k + 1) PROVE longer[i] = more[d + i]
  <2>1. CASE i \in 1..k
    <3>1. d + i \in 1..n
      BY <1>1, <2>1
    <3> QED
      BY <1>2, <1>3, <2>1, <3>1
  <2>2. CASE i = k + 1
    <3>1. d + i = n + 1
      BY <1>1, <2>2
    <3> QED
      BY <1>2, <1>4, <2>2, <3>1
  <2> QED
    BY <1>1, <2>1, <2>2
<1> QED
  BY <1>1, <1>5 DEF InLine

\* When the oldest event goes, the rest is in line one place further.
LEMMA LineMovesUp ==
    ASSUME NEW held \in Seq(Held), NEW all, NEW d \in Nat,
           InLine(held, all, d), NEW rest, Len(rest) = Len(held) - 1,
           \A i \in 1..(Len(held) - 1) : rest[i] = held[i + 1]
    PROVE  InLine(rest, all, d + 1)
<1> DEFINE k == Len(held)
<1>1. k \in Nat /\ Len(rest) = k - 1
  BY LenProperties
<1>2. \A i \in 1..(k - 1) : rest[i] = held[i + 1]
  OBVIOUS
<1>3. \A i \in 1..k : held[i] = all[d + i]
  BY DEF InLine
<1> HIDE DEF k
<1>4. ASSUME NEW i \in 1..(k - 1) PROVE rest[i] = all[(d + 1) + i]
  <2>1. i + 1 \in 1..k /\ d + (i + 1) = (d + 1) + i
    BY <1>1
  <2>2. held[i + 1] = all[d + (i + 1)]
    BY <1>3, <2>1
  <2> QED
    BY <1>2, <2>1, <2>2
<1> QED
  BY <1>1, <1>4 DEF InLine

LEMMA BooksInit == Init => Books
<1> SUFFICES ASSUME Init, NEW s \in Subscribers PROVE BooksOf(s)
  BY DEF Books
<1>1. /\ queue[s].held = << >> /\ queue[s].missed = 0 /\ pushed[s] = << >>
      /\ accounted[s] = 0 /\ told[s].kind = "nothing"
  BY DEF Init, EmptyQueue, NothingYet
<1>2. Len(<< >>) = 0
  OBVIOUS
<1> QED
  BY <1>1, <1>2 DEF BooksOf, InLine

LEMMA BooksOffer ==
    ASSUME TypeOK, Books, NEW p \in Publishers, NEW s \in Subscribers,
           Offer(p, s)
    PROVE  Books'
<1>1. PICK held \in publisher[p].event :
          /\ queue' = [queue EXCEPT ![s] = Longer(@, held)]
          /\ pushed' = [pushed EXCEPT ![s] = Append(@, held)]
  BY DEF Offer
<1>2. held \in Held /\ queue[s] \in Queue /\ pushed[s] \in Seq(Held)
  BY <1>1 DEF TypeOK, Publisher
<1>3. ASSUME NEW t \in Subscribers, t # s PROVE BooksOf(t)'
  BY <1>1, <1>3 DEF Books, BooksOf, TypeOK, Offer
<1>4. BooksOf(s)'
  <2> DEFINE n == Len(pushed[s])  k == Len(queue[s].held)
             d == accounted[s] + queue[s].missed
  <2>1. BooksOf(s)
    BY DEF Books
  <2>2. /\ queue'[s].missed = queue[s].missed
        /\ Len(queue'[s].held) = k + 1
        /\ \A i \in 1..k : queue'[s].held[i] = queue[s].held[i]
        /\ queue'[s].held[k + 1] = held
    BY <1>1, <1>2, PushedQueue DEF TypeOK
  <2>3. pushed'[s] = Append(pushed[s], held)
    BY <1>1 DEF TypeOK
  <2>4. /\ Len(pushed'[s]) = n + 1
        /\ \A i \in 1..n : pushed'[s][i] = pushed[s][i]
        /\ pushed'[s][n + 1] = held
    BY <1>2, <2>3, AppendProperties
  <2>5. k \in Nat /\ d \in Nat /\ n = d + k /\ accounted[s] \in 0..n
    BY <1>2, <2>1, LenProperties DEF BooksOf, TypeOK, Queue
  <2>6. accounted' = accounted /\ told' = told
    BY DEF Offer
  <2>7. Len(pushed'[s]) = accounted'[s] + queue'[s].missed + Len(queue'[s].held)
    BY <2>2, <2>4, <2>5, <2>6 DEF BooksOf
  <2>8. queue'[s].missed > 0 => Len(queue'[s].held) >= 1
    BY <2>2, <2>5
  <2>9. InLine(queue'[s].held, pushed'[s], accounted'[s] + queue'[s].missed)
    <3>1. queue[s].held \in Seq(Held) /\ InLine(queue[s].held, pushed[s], d)
      BY <1>2, <2>1 DEF BooksOf, Queue
    <3>2. accounted'[s] + queue'[s].missed = d
      BY <2>2, <2>6
    <3> HIDE DEF d
    <3>3. InLine(queue'[s].held, pushed'[s], d)
      BY <1>2, <2>2, <2>3, <2>5, <3>1, JoinsTheLine
    <3> QED
      BY <3>2, <3>3
  <2>10. told'[s].kind = "event" =>
             /\ accounted'[s] >= 1
             /\ told'[s].event = {pushed'[s][accounted'[s]]}
    <3>1. CASE told[s].kind = "event"
      <4>1. /\ accounted[s] \in 1..n
            /\ told[s].event = {pushed[s][accounted[s]]}
        BY <2>1, <2>5, <3>1 DEF BooksOf
      <4>2. pushed'[s][accounted[s]] = pushed[s][accounted[s]]
        BY <2>4, <4>1
      <4> QED
        BY <2>5, <2>6, <4>1, <4>2
    <3> QED
      BY <2>6, <3>1
  <2> QED
    BY <2>7, <2>8, <2>9, <2>10 DEF BooksOf
<1> QED
  BY <1>3, <1>4 DEF Books

\* An eviction leaves something newer behind it.
LEMMA Evicts ==
    ASSUME TypeOK, NEW p \in Publishers, Evict(p)
    PROVE  \E s \in publisher[p].slot :
               /\ s \in Subscribers /\ Len(queue[s].held) >= 2
               /\ queue' = [queue EXCEPT ![s] = WithoutOldest(@)]
<1>1. PICK s \in publisher[p].slot :
          Over(queue[s]) /\ queue' = [queue EXCEPT ![s] = WithoutOldest(@)]
  BY DEF Evict
<1>2. s \in Subscribers
  BY DEF TypeOK, Publisher
<1>3. Len(queue[s].held) \in Nat
  BY <1>2, LenProperties DEF TypeOK, Queue
<1>4. Len(queue[s].held) >= 2
  BY <1>1, <1>3, RoomForOne DEF Over
<1> QED
  BY <1>1, <1>2, <1>4

LEMMA BooksEvict ==
    ASSUME TypeOK, Books, NEW p \in Publishers, Evict(p)
    PROVE  Books'
<1>1. PICK s \in Subscribers :
          /\ Len(queue[s].held) >= 2
          /\ queue' = [queue EXCEPT ![s] = WithoutOldest(@)]
  BY Evicts
<1>2. UNCHANGED <<pushed, accounted, told>>
  BY DEF Evict
<1>3. ASSUME NEW t \in Subscribers, t # s PROVE BooksOf(t)'
  BY <1>1, <1>2, <1>3 DEF Books, BooksOf, TypeOK
<1>4. BooksOf(s)'
  <2> DEFINE q == queue[s]
  <2>1. q \in Queue /\ q.held # << >> /\ Len(q.held) \in Nat
    BY <1>1, LenProperties DEF TypeOK, Queue
  <2>2. queue'[s] = WithoutOldest(q)
    BY <1>1 DEF TypeOK
  <2>3. /\ queue'[s].missed = q.missed + 1
        /\ Len(queue'[s].held) = Len(q.held) - 1
        /\ \A i \in 1..(Len(q.held) - 1) : queue'[s].held[i] = q.held[i + 1]
    BY <2>1, <2>2, EvictedQueue
  <2>4. q.missed \in Nat /\ accounted[s] \in Nat
    BY <2>1 DEF TypeOK, Queue
  <2>5. BooksOf(s)
    BY DEF Books
  <2>6. InLine(queue'[s].held, pushed'[s], accounted'[s] + queue'[s].missed)
    <3> DEFINE d == accounted[s] + q.missed
    <3>1. /\ d \in Nat /\ accounted'[s] + queue'[s].missed = d + 1
          /\ q.held \in Seq(Held)
      BY <1>2, <2>1, <2>3, <2>4, SMTT(30) DEF Queue
    <3>2. InLine(q.held, pushed[s], d)
      BY <2>5 DEF BooksOf
    <3> HIDE DEF d, q
    <3>3. InLine(queue'[s].held, pushed[s], d + 1)
      BY <2>3, <3>1, <3>2, LineMovesUp
    <3> QED
      BY <1>2, <3>1, <3>3
  <2>7. /\ Len(pushed'[s]) =
               accounted'[s] + queue'[s].missed + Len(queue'[s].held)
        /\ Len(queue'[s].held) >= 1
    <3>1. Len(pushed[s]) = accounted[s] + q.missed + Len(q.held)
      BY <2>5 DEF BooksOf
    <3>2. accounted'[s] = accounted[s] /\ pushed'[s] = pushed[s] /\ Len(q.held) >= 2
      BY <1>1, <1>2
    <3>3. accounted[s] + q.missed + Len(q.held) =
              accounted[s] + (q.missed + 1) + (Len(q.held) - 1)
      BY <2>1, <2>4
    <3>4. Len(q.held) - 1 >= 1
      BY <2>1, <3>2
    <3> HIDE DEF q
    <3> QED
      BY <2>3, <3>1, <3>2, <3>3, <3>4
  <2>8. told'[s].kind = "event" =>
             /\ accounted'[s] >= 1
             /\ told'[s].event = {pushed'[s][accounted'[s]]}
    BY <1>2, <2>5 DEF BooksOf
  <2> QED
    BY <2>6, <2>7, <2>8 DEF BooksOf
<1> QED
  BY <1>3, <1>4 DEF Books

LEMMA BooksGap ==
    ASSUME TypeOK, Books, NEW s \in Subscribers, TakeGap(s)
    PROVE  Books'
<1>1. ASSUME NEW t \in Subscribers, t # s PROVE BooksOf(t)'
  BY <1>1 DEF TakeGap, Books, BooksOf, TypeOK
<1>2. BooksOf(s)'
  <2>1. /\ queue'[s].missed = 0 /\ queue'[s].held = queue[s].held
        /\ accounted'[s] = accounted[s] + queue[s].missed
        /\ told'[s].kind = "gap" /\ pushed' = pushed
    BY DEF TakeGap, Told, Gap, TypeOK
  <2>2. /\ accounted[s] \in Nat /\ queue[s].missed \in Nat
        /\ Len(queue[s].held) \in Nat
    BY LenProperties DEF TypeOK, Queue
  <2>3. accounted'[s] + queue'[s].missed = accounted[s] + queue[s].missed
    BY <2>1, <2>2
  <2>4. BooksOf(s)
    BY DEF Books
  <2> QED
    BY <2>1, <2>3, <2>4 DEF BooksOf
<1> QED
  BY <1>1, <1>2 DEF Books

LEMMA BooksTake ==
    ASSUME TypeOK, Books, NEW s \in Subscribers, TakeEvent(s)
    PROVE  Books'
<1>1. ASSUME NEW t \in Subscribers, t # s PROVE BooksOf(t)'
  BY <1>1 DEF TakeEvent, Books, BooksOf, TypeOK
<1>2. BooksOf(s)'
  <2> DEFINE q == queue[s]
  <2>1. q \in Queue /\ q.held # << >> /\ q.missed = 0 /\ accounted[s] \in Nat
    BY DEF TakeEvent, TypeOK
  <2>2. /\ queue'[s].missed = 0
        /\ Len(queue'[s].held) = Len(q.held) - 1
        /\ \A i \in 1..(Len(q.held) - 1) : queue'[s].held[i] = q.held[i + 1]
        /\ Head(q.held) = q.held[1]
    BY <2>1, ReadQueue DEF TakeEvent, TypeOK
  <2>3. /\ accounted'[s] = accounted[s] + 1 /\ pushed' = pushed
        /\ told'[s] = Event(Head(q.held))
    BY DEF TakeEvent, TypeOK
  <2>4. Len(q.held) \in Nat /\ Len(q.held) >= 1
    <3>1. q.held \in Seq(Held)
      BY <2>1 DEF Queue
    <3> QED
      BY <2>1, <3>1, EmptySeq, LenProperties
  <2>5. BooksOf(s)
    BY DEF Books
  <2>6. InLine(queue'[s].held, pushed'[s], accounted'[s] + queue'[s].missed)
    <3> DEFINE d == accounted[s] + q.missed
    <3>1. /\ d \in Nat /\ accounted'[s] + queue'[s].missed = d + 1
          /\ q.held \in Seq(Held)
      BY <2>1, <2>2, <2>3 DEF Queue
    <3>2. InLine(q.held, pushed[s], d)
      BY <2>5 DEF BooksOf
    <3> HIDE DEF d, q
    <3>3. InLine(queue'[s].held, pushed[s], d + 1)
      BY <2>2, <3>1, <3>2, LineMovesUp
    <3> QED
      BY <2>3, <3>1, <3>3
  <2>7. Len(pushed'[s]) = accounted'[s] + queue'[s].missed + Len(queue'[s].held)
    <3>1. Len(pushed[s]) = accounted[s] + q.missed + Len(q.held)
      BY <2>5 DEF BooksOf
    <3>2. accounted[s] + q.missed + Len(q.held) =
              (accounted[s] + 1) + 0 + (Len(q.held) - 1)
      BY <2>1, <2>4
    <3> HIDE DEF q
    <3> QED
      BY <2>2, <2>3, <3>1, <3>2
  <2>8. told'[s].event = {pushed'[s][accounted'[s]]} /\ accounted'[s] >= 1
    <3>1. q.held[1] = pushed[s][accounted[s] + q.missed + 1]
      BY <2>4, <2>5 DEF BooksOf, InLine
    <3>2. accounted[s] + q.missed + 1 = accounted'[s]
      BY <2>1, <2>3
    <3> QED
      BY <2>1, <2>2, <2>3, <3>1, <3>2 DEF Event
  <2> QED
    BY <2>2, <2>6, <2>7, <2>8 DEF BooksOf
<1> QED
  BY <1>1, <1>2 DEF Books

LEMMA BooksStep == TypeOK /\ Books /\ [Next]_vars => Books'
<1> SUFFICES ASSUME TypeOK, Books, [Next]_vars PROVE Books'
  OBVIOUS
<1>1. CASE SlotsKept
  BY <1>1 DEF SlotsKept, Books, BooksOf
<1> QED
  BY <1>1, Keeping, BooksOffer, BooksEvict, BooksGap, BooksTake

-----------------------------------------------------------------------------
(* The end of the broadcast.                                                *)

LEMMA QuietInit == Init => Quiet
BY DEF Init, Quiet, EmptyQueue

\* What a step may do to a closed flag.
LEMMA ClosedFlags ==
    ASSUME TypeOK, [Next]_vars, NEW s \in Subscribers, queue'[s].closed
    PROVE  queue[s].closed \/ s \in closing
<1>1. ASSUME NEW t \in Subscribers, Close(t) PROVE queue[s].closed \/ s \in closing
  BY <1>1, ClosedQueue DEF Close
<1>2. ASSUME queue'[s].closed = queue[s].closed
      PROVE  queue[s].closed \/ s \in closing
  BY <1>2
<1>3. ASSUME UNCHANGED queue PROVE queue[s].closed \/ s \in closing
  BY <1>3
<1>4. ASSUME NEW p \in Publishers, NEW t \in Subscribers, Offer(p, t)
      PROVE  queue'[s].closed = queue[s].closed
  <2>1. PICK held \in publisher[p].event :
            queue' = [queue EXCEPT ![t] = Longer(@, held)]
    BY <1>4 DEF Offer
  <2> QED
    BY <2>1 DEF TypeOK, Longer
<1>5. ASSUME NEW p \in Publishers, Evict(p) PROVE queue'[s].closed = queue[s].closed
  <2>1. PICK t \in publisher[p].slot :
            queue' = [queue EXCEPT ![t] = WithoutOldest(@)]
    BY <1>5 DEF Evict
  <2> QED
    BY <2>1 DEF TypeOK, WithoutOldest
<1>6. ASSUME NEW t \in Subscribers, TakeGap(t)
      PROVE  queue'[s].closed = queue[s].closed
  BY <1>6 DEF TakeGap, TypeOK, Told
<1>7. ASSUME NEW t \in Subscribers, TakeEvent(t)
      PROVE  queue'[s].closed = queue[s].closed
  BY <1>7 DEF TakeEvent, TypeOK, Taken
<1>8. ASSUME NEW t \in Subscribers,
             Subscribe(t) \/ AnnounceClose(t) \/ SeeEnd(t) \/ FindNothing(t)
               \/ Park(t) \/ Woken(t) \/ CancelRecv(t) \/ Leave(t)
      PROVE  UNCHANGED queue
  BY <1>8 DEF Subscribe, AnnounceClose, SeeEnd, FindNothing, Park, Woken,
              CancelRecv, Leave
<1>9. ASSUME NEW p \in Publishers, Publish(p) \/ Unlock(p) \/ Wake(p)
      PROVE  UNCHANGED queue
  BY <1>9 DEF Publish, Unlock, Wake
<1>10. CASE DropBroadcast \/ UNCHANGED vars
  BY <1>3, <1>10 DEF DropBroadcast, vars
<1> QED
  BY <1>1, <1>2, <1>3, <1>4, <1>5, <1>6, <1>7, <1>8, <1>9, <1>10
     DEF Next, Publishes, Closes, Reads

LEMMA QuietStep == TypeOK /\ Quiet /\ [Next]_vars => Quiet'
<1> SUFFICES ASSUME TypeOK, Quiet, [Next]_vars PROVE Quiet'
  OBVIOUS
<1>1. \/ alive' = alive /\ closing' \subseteq closing
      \/ DropBroadcast
  BY DEF Next, Publishes, Closes, Reads, Subscribe, Publish, Offer, Evict, Unlock,
         Wake, Close, AnnounceClose, TakeGap, TakeEvent, SeeEnd, FindNothing,
         Park, Woken, CancelRecv, Leave, vars
<1>2. ASSUME ~alive' PROVE \A p \in Publishers : publisher'[p].pc = "idle"
  <2>1. CASE DropBroadcast
    BY <2>1 DEF DropBroadcast
  <2>2. CASE ~alive
    <3>1. \A p \in Publishers : publisher[p].pc = "idle"
      BY <2>2 DEF Quiet
    <3>2. publisher' = publisher
      BY <2>2, <3>1 DEF Next, Publishes, Closes, Reads, Subscribe, Publish, Offer,
             Evict, Unlock, Wake, DropBroadcast, Close, AnnounceClose, TakeGap,
             TakeEvent, SeeEnd, FindNothing, Park, Woken, CancelRecv, Leave, vars
    <3> QED
      BY <3>1, <3>2
  <2> QED
    BY <1>1, <1>2, <2>1, <2>2
<1>3. ASSUME NEW s \in Subscribers, s \in closing' \/ queue'[s].closed
      PROVE  ~alive'
  <2>1. CASE DropBroadcast
    BY <2>1 DEF DropBroadcast
  <2>2. CASE alive' = alive /\ closing' \subseteq closing
    BY <1>3, <2>2, ClosedFlags DEF Quiet
  <2> QED
    BY <1>1, <2>1, <2>2
<1> QED
  BY <1>2, <1>3 DEF Quiet

\* Whoever read the end was told of everything, and nobody publishes any more.
LEMMA EndStep ==
    TypeOK /\ Books /\ Quiet /\ EndComesLast /\ [Next]_vars => EndComesLast'
<1> SUFFICES ASSUME TypeOK, Books, Quiet, EndComesLast, [Next]_vars,
                    NEW s \in Subscribers, reader'[s] = "ended"
             PROVE  ~alive' /\ accounted'[s] = Len(pushed'[s])
  BY DEF EndComesLast
<1>1. CASE SeeEnd(s)
  <2>1. ~alive
    BY <1>1 DEF SeeEnd, Quiet
  <2>2. /\ queue[s].missed = 0 /\ queue[s].held = << >>
        /\ accounted[s] \in Nat
    BY <1>1 DEF SeeEnd, Empty, TypeOK
  <2>3. Len(pushed[s]) = accounted[s] + queue[s].missed + Len(queue[s].held)
    BY DEF Books, BooksOf
  <2>4. Len(queue[s].held) = 0
    BY <2>2
  <2>5. accounted[s] = Len(pushed[s])
    BY <2>2, <2>3, <2>4
  <2> QED
    BY <1>1, <2>1, <2>5 DEF SeeEnd
<1>2. CASE ~SeeEnd(s)
  <2>1. reader[s] = "ended"
    <3>1. ASSUME NEW t \in Subscribers, NotifyOne(t) PROVE reader[s] = "ended"
      BY <3>1, Waking
    <3>2. ASSUME NEW p \in Publishers, Wake(p) PROVE reader[s] = "ended"
      BY <3>1, <3>2 DEF Wake, TypeOK, Publisher
    <3>3. ASSUME NEW t \in Subscribers, AnnounceClose(t)
          PROVE  reader[s] = "ended"
      BY <3>1, <3>3 DEF AnnounceClose
    <3>4. ASSUME NEW t \in Subscribers, SeeEnd(t) PROVE reader[s] = "ended"
      BY <1>2, <3>4 DEF SeeEnd, TypeOK
    <3>5. ASSUME NEW t \in Subscribers,
                 Subscribe(t) \/ FindNothing(t) \/ Park(t) \/ Woken(t)
                   \/ CancelRecv(t) \/ Leave(t)
          PROVE  reader[s] = "ended"
      BY <3>5 DEF Subscribe, FindNothing, Park, Woken, CancelRecv, Leave, TypeOK
    <3>6. ASSUME UNCHANGED reader PROVE reader[s] = "ended"
      BY <3>6
    <3>7. ASSUME NEW p \in Publishers,
                 Publish(p) \/ Evict(p) \/ Unlock(p)
                   \/ \E t \in Subscribers : Offer(p, t)
          PROVE  UNCHANGED reader
      BY <3>7 DEF Publish, Evict, Unlock, Offer
    <3>8. ASSUME NEW t \in Subscribers, Close(t) \/ TakeGap(t) \/ TakeEvent(t)
          PROVE  UNCHANGED reader
      BY <3>8 DEF Close, TakeGap, TakeEvent
    <3>9. CASE DropBroadcast \/ UNCHANGED vars
      BY <3>6, <3>9 DEF DropBroadcast, vars
    <3> QED
      BY <3>2, <3>3, <3>4, <3>5, <3>6, <3>7, <3>8, <3>9
         DEF Next, Publishes, Closes, Reads
  <2>2. ~alive /\ accounted[s] = Len(pushed[s])
    BY <2>1 DEF EndComesLast
  <2>3. \A p \in Publishers : publisher[p].pc = "idle"
    BY <2>2 DEF Quiet
  <2>4. ~alive' /\ pushed' = pushed
    <3>1. ASSUME NEW p \in Publishers, NEW t \in Subscribers, Offer(p, t)
          PROVE  FALSE
      BY <2>3, <3>1 DEF Offer
    <3>2. ASSUME NEW p \in Publishers,
                 Publish(p) \/ Evict(p) \/ Unlock(p) \/ Wake(p)
          PROVE  alive' = alive /\ pushed' = pushed
      BY <3>2 DEF Publish, Evict, Unlock, Wake
    <3>3. ASSUME NEW t \in Subscribers,
                 Subscribe(t) \/ Close(t) \/ AnnounceClose(t) \/ TakeGap(t)
                   \/ TakeEvent(t) \/ SeeEnd(t) \/ FindNothing(t) \/ Park(t)
                   \/ Woken(t) \/ CancelRecv(t) \/ Leave(t)
          PROVE  alive' = alive /\ pushed' = pushed
      BY <3>3 DEF Subscribe, Close, AnnounceClose, TakeGap, TakeEvent, SeeEnd,
                  FindNothing, Park, Woken, CancelRecv, Leave
    <3>4. ~DropBroadcast
      BY <2>2 DEF DropBroadcast
    <3>5. CASE UNCHANGED vars
      BY <2>2, <3>5 DEF vars
    <3> QED
      BY <2>2, <3>1, <3>2, <3>3, <3>4, <3>5 DEF Next, Publishes, Closes, Reads
  <2>5. accounted'[s] = accounted[s]
    BY <2>1 DEF Next, Publishes, Closes, Reads, Subscribe, Publish, Offer,
           Evict, Unlock, Wake, DropBroadcast, Close, AnnounceClose, TakeGap,
           TakeEvent, Looks, SeeEnd, FindNothing, Park, Woken, CancelRecv, Leave,
           vars, TypeOK
  <2> QED
    BY <2>2, <2>4, <2>5
<1> QED
  BY <1>1, <1>2

-----------------------------------------------------------------------------
(* What a slot keeps.                                                       *)

\* The queue is within its bounds.
FitsIn(q) == /\ Len(q.held) <= Room
             /\ q.bytes > MaxRetainedBytes => Len(q.held) <= 1

LEMMA NotOverFits == ASSUME NEW q \in Queue, ~Over(q) PROVE FitsIn(q)
<1>1. Len(q.held) \in Nat
  BY LenProperties DEF Queue
<1> QED
  BY <1>1, RoomForOne DEF Over, FitsIn

\* Taking an event off a queue that fits leaves one that fits.
LEMMA TakenFits ==
    ASSUME NEW q \in Queue, q.held # << >>, FitsIn(q)
    PROVE  FitsIn(Taken(q))
<1> DEFINE p == Taken(q)
<1>1. p \in Queue /\ Len(p.held) = Len(q.held) - 1 /\ p.bytes <= q.bytes
  BY ReadQueue
<1>2. Len(q.held) \in Nat /\ q.bytes \in Int /\ p.bytes \in Int
  BY <1>1, LenProperties DEF Queue
<1>3. FitsIn(p)
  <2> HIDE DEF p
  <2> QED
    BY <1>1, <1>2, RoomForOne, BroadcastAssumption DEF FitsIn
<1> QED
  BY <1>3

LEMMA RetentionInit == Init => RetentionBounded
<1> SUFFICES ASSUME Init, NEW s \in Subscribers PROVE FitsIn(queue[s])
  BY DEF RetentionBounded, FitsIn
<1>1. Len(<< >>) = 0
  OBVIOUS
<1> QED
  BY <1>1, RoomForOne DEF Init, EmptyQueue, FitsIn

LEMMA RetentionStep ==
    TypeOK /\ RetentionBounded /\ [Next]_vars => RetentionBounded'
<1> SUFFICES ASSUME TypeOK, RetentionBounded, [Next]_vars,
                    NEW s \in Subscribers, ~Locked(s)'
             PROVE  FitsIn(queue[s])'
  BY DEF RetentionBounded, FitsIn
<1>1. ASSUME ~Locked(s) PROVE FitsIn(queue[s])
  BY <1>1 DEF RetentionBounded, FitsIn
<1>2. CASE SlotsKept
  <2>1. ASSUME FitsIn(queue[s]) PROVE FitsIn(queue[s])'
    BY <1>2, <2>1 DEF SlotsKept, FitsIn
  <2>2. CASE Locked(s)
    <3>1. PICK p \in Publishers : publisher[p].pc = "evict" /\ s \in publisher[p].slot
      BY <2>2 DEF Locked
    <3>2. publisher'[p] # publisher[p]
      BY <3>1 DEF Locked
    <3>3. Unlock(p)
      BY <3>1, <3>2 DEF Next, Publishes, Closes, Reads, Subscribe, Publish, Offer,
             Evict, Unlock, Wake, DropBroadcast, Close, AnnounceClose, TakeGap,
             TakeEvent, SeeEnd, FindNothing, Park, Woken, CancelRecv, Leave, vars,
             TypeOK
    <3>4. queue[s] \in Queue /\ ~Over(queue[s])
      BY <3>1, <3>3 DEF Unlock, TypeOK
    <3> QED
      BY <2>1, <3>4, NotOverFits
  <2> QED
    BY <1>1, <2>1, <2>2
<1>3. ASSUME NEW p \in Publishers, NEW t \in Subscribers, Offer(p, t)
      PROVE  FitsIn(queue[s])'
  <2>1. publisher'[p].pc = "evict" /\ publisher'[p].slot = {t}
    BY <1>3 DEF Offer, TypeOK, Visit
  <2>2. s # t
    BY <2>1 DEF Locked
  <2>3. queue'[s] = queue[s]
    BY <1>3, <2>2 DEF Offer, TypeOK
  <2>4. ~Locked(s)
    BY <1>3 DEF Locked, Offer, TypeOK
  <2> QED
    BY <1>1, <2>3, <2>4 DEF FitsIn
<1>4. ASSUME NEW p \in Publishers, Evict(p) PROVE FitsIn(queue[s])'
  <2>1. PICK t \in publisher[p].slot :
            queue' = [queue EXCEPT ![t] = WithoutOldest(@)]
    BY <1>4 DEF Evict
  <2>2. publisher[p].pc = "evict" /\ publisher' = publisher
    BY <1>4 DEF Evict
  <2>3. s # t /\ ~Locked(s)
    BY <2>1, <2>2 DEF Locked
  <2>4. queue'[s] = queue[s]
    BY <2>1, <2>3 DEF TypeOK
  <2> QED
    BY <1>1, <2>3, <2>4 DEF FitsIn
<1>5. ASSUME NEW t \in Subscribers, TakeGap(t) \/ TakeEvent(t)
      PROVE  FitsIn(queue[s])'
  <2>1. ~Locked(s)
    BY <1>5 DEF TakeGap, TakeEvent, Locked
  <2>2. FitsIn(queue[s]) /\ queue[s] \in Queue
    BY <1>1, <2>1 DEF TypeOK
  <2>3. CASE t # s
    <3>1. queue'[s] = queue[s]
      BY <1>5, <2>3 DEF TakeGap, TakeEvent, TypeOK
    <3> QED
      BY <2>2, <3>1 DEF FitsIn
  <2>4. CASE t = s /\ TakeGap(s)
    <3>1. queue'[s].held = queue[s].held /\ queue'[s].bytes = queue[s].bytes
      BY <2>4 DEF TakeGap, TypeOK, Told
    <3> QED
      BY <2>2, <3>1 DEF FitsIn
  <2>5. CASE t = s /\ TakeEvent(s)
    <3>1. queue'[s] = Taken(queue[s]) /\ queue[s].held # << >>
      BY <2>5 DEF TakeEvent, TypeOK
    <3>2. FitsIn(Taken(queue[s]))
      BY <2>2, <3>1, TakenFits
    <3> QED
      BY <3>1, <3>2 DEF FitsIn
  <2> QED
    BY <1>5, <2>3, <2>4, <2>5
<1> QED
  BY <1>2, <1>3, <1>4, <1>5, Keeping

-----------------------------------------------------------------------------
(* The theorems.                                                            *)

LEMMA EndInit == Init => EndComesLast
BY DEF Init, EndComesLast

LEMMA Invariance == Spec => []Inv
<1>1. Init => Inv
  BY TypeInit, BooksInit, QuietInit, RetentionInit, EndInit DEF Inv
<1>2. Inv /\ [Next]_vars => Inv'
  <2> SUFFICES ASSUME Inv, [Next]_vars PROVE Inv'
    OBVIOUS
  <2>1. TypeOK /\ Books /\ Quiet /\ RetentionBounded /\ EndComesLast
    BY DEF Inv
  <2> QED
    BY <2>1, TypeStep, BooksStep, QuietStep, RetentionStep, EndStep DEF Inv
<1> QED
  BY <1>1, <1>2, PTL DEF Spec

\* Every variable keeps its type.
THEOREM TypeCorrect == Spec => []TypeOK
<1>1. Inv => TypeOK
  BY DEF Inv
<1> QED
  BY <1>1, Invariance, PTL

\* A gap says exactly how many events a slow watcher lost, and where.
THEOREM LossIsTold == Spec => []NothingLostSilently
<1>1. Inv => NothingLostSilently
  BY DEF Inv, Books, BooksOf, InLine, NothingLostSilently
<1> QED
  BY <1>1, Invariance, PTL

\* A watcher that was not told of everything can still read the newest event.
THEOREM NewestIsKept == Spec => []NewestSurvives
<1>1. Inv => NewestSurvives
  <2> SUFFICES ASSUME Inv, NEW s \in Subscribers, accounted[s] < Len(pushed[s])
               PROVE  /\ queue[s].held # << >>
                      /\ queue[s].held[Len(queue[s].held)] =
                             pushed[s][Len(pushed[s])]
    BY DEF NewestSurvives
  <2> DEFINE k == Len(queue[s].held)  n == Len(pushed[s])
             d == accounted[s] + queue[s].missed
  <2>1. /\ queue[s].held \in Seq(Held) /\ queue[s].missed \in Nat
        /\ accounted[s] \in Nat
    BY DEF Inv, TypeOK, Queue
  <2>2. k \in Nat
    BY <2>1, LenProperties
  <2>3. /\ n = accounted[s] + queue[s].missed + k
        /\ queue[s].missed > 0 => k >= 1
        /\ \A i \in 1..k : queue[s].held[i] = pushed[s][d + i]
    BY DEF Inv, Books, BooksOf, InLine
  <2>4. k >= 1
    BY <2>1, <2>2, <2>3
  <2>5. Len(<< >>) = 0
    OBVIOUS
  <2>6. queue[s].held # << >>
    BY <2>4, <2>5
  <2>7. k \in 1..k /\ d + k = n
    BY <2>1, <2>2, <2>3, <2>4
  <2>8. queue[s].held[k] = pushed[s][n]
    BY <2>3, <2>7
  <2> QED
    BY <2>6, <2>8
<1> QED
  BY <1>1, Invariance, PTL

\* No watcher finds more in its queue than its two bounds allow.
THEOREM RetentionHolds == Spec => []RetentionBounded
<1>1. Inv => RetentionBounded
  BY DEF Inv
<1> QED
  BY <1>1, Invariance, PTL

\* The end is read last, after everything that was pushed.
THEOREM EndIsLast == Spec => []EndComesLast
<1>1. Inv => EndComesLast
  BY DEF Inv
<1> QED
  BY <1>1, Invariance, PTL
=============================================================================
