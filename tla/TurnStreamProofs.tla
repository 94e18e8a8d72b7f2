-------------------------- MODULE TurnStreamProofs --------------------------
(* Proofs about TurnStream, for any number of sinks and any limits.         *)
EXTENDS TurnStream, FiniteSetTheorems, SequenceTheorems, TLAPS

-----------------------------------------------------------------------------
(* What the two ends of the queue do to the room each class takes.          *)

Charge(event, class) == IF event.class = class THEN 1 ELSE 0
ByteCharge(event, class) == IF event.class = class THEN event.bytes ELSE 0

LEMMA EventTypes ==
    ASSUME NEW event \in Event
    PROVE  event.class \in Classes /\ event.bytes \in Nat \ {0}
BY LimitsAssumption DEF Event

LEMMA UpTo ==
    ASSUME NEW n \in Nat
    PROVE  IsFiniteSet(1..n) /\ Cardinality(1..n) = n
<1>1. IsFiniteSet(1..n) /\ Cardinality(1..n) = IF 1 > n THEN 0 ELSE n - 1 + 1
  BY FS_Interval
<1> QED
  BY <1>1

\* The counted sets are finite.
LEMMA QueuedFinite ==
    ASSUME NEW queue \in Seq(Event), NEW class
    PROVE  /\ IsFiniteSet(Queued(queue, class))
           /\ IsFiniteSet(QueuedBytes(queue, class))
           /\ Cardinality(Queued(queue, class)) \in Nat
           /\ Cardinality(QueuedBytes(queue, class)) \in Nat
<1> DEFINE Bytes(i) == {i} \X (1..queue[i].bytes)
           Spans    == {Bytes(i) : i \in Queued(queue, class)}
<1>1. Len(queue) \in Nat
  BY LenProperties
<1>2. IsFiniteSet(Queued(queue, class))
  <2>1. IsFiniteSet(1..Len(queue))
    BY <1>1, FS_Interval
  <2> QED
    BY <2>1, FS_Subset DEF Queued
<1>3. IsFiniteSet(Spans)
  <2> DEFINE f == [i \in Queued(queue, class) |-> Bytes(i)]
  <2>1. f \in Surjection(Queued(queue, class), Spans)
    BY DEF Surjection
  <2> QED
    BY <1>2, <2>1, FS_Surjection
<1>4. ASSUME NEW span \in Spans PROVE IsFiniteSet(span)
  <2>1. PICK i \in Queued(queue, class) : span = Bytes(i)
    OBVIOUS
  <2>2. queue[i].bytes \in Nat
    BY EventTypes, ElementOfSeq DEF Queued
  <2> HIDE DEF Spans, Bytes
  <2>3. IsFiniteSet(1..queue[i].bytes)
    BY <2>2, UpTo
  <2>4. IsFiniteSet({i})
    BY FS_Singleton
  <2> QED
    BY <2>1, <2>3, <2>4, FS_Product DEF Bytes
<1>5. IsFiniteSet(QueuedBytes(queue, class))
  BY <1>3, <1>4, FS_UNION DEF QueuedBytes
<1> QED
  BY <1>2, <1>5, FS_CardinalityType

\* Pushing an event takes the room of that event and no other.
LEMMA AppendRoom ==
    ASSUME NEW queue \in Seq(Event), NEW event \in Event, NEW class
    PROVE  /\ Cardinality(Queued(Append(queue, event), class))
                = Cardinality(Queued(queue, class)) + Charge(event, class)
           /\ Cardinality(QueuedBytes(Append(queue, event), class))
                = Cardinality(QueuedBytes(queue, class))
                    + ByteCharge(event, class)
<1> DEFINE longer == Append(queue, event)
           last   == Len(queue) + 1
           added  == {last} \X (1..event.bytes)
<1>1. /\ Len(queue) \in Nat /\ Len(longer) = last
      /\ \A i \in 1..Len(queue) : longer[i] = queue[i]
      /\ longer[last] = event
  BY LenProperties, AppendProperties
<1>2. event.bytes \in Nat
  BY EventTypes
<1>3. CASE event.class = class
  <2>1. Queued(longer, class) = Queued(queue, class) \cup {last}
    BY <1>1, <1>3 DEF Queued
  <2>2. last \notin Queued(queue, class)
    BY <1>1 DEF Queued
  <2>3. QueuedBytes(longer, class) = QueuedBytes(queue, class) \cup added
    <3>1. \A i \in Queued(queue, class) : longer[i] = queue[i]
      BY <1>1 DEF Queued
    <3>2. \A at : at \in QueuedBytes(longer, class)
                <=> \E i \in Queued(longer, class) :
                       at \in {i} \X (1..longer[i].bytes)
      BY DEF QueuedBytes
    <3>3. \A at : at \in QueuedBytes(queue, class)
                <=> \E i \in Queued(queue, class) :
                       at \in {i} \X (1..queue[i].bytes)
      BY DEF QueuedBytes
    <3>4. longer[last] = event
      BY <1>1
    <3> HIDE DEF longer, last
    <3> QED
      BY <2>1, <3>1, <3>2, <3>3, <3>4
  <2>4. QueuedBytes(queue, class) \cap added = {}
    BY <2>2 DEF QueuedBytes
  <2>5. IsFiniteSet(added) /\ Cardinality(added) = event.bytes
    <3>1. IsFiniteSet(1..event.bytes) /\ Cardinality(1..event.bytes) = event.bytes
      BY <1>2, UpTo
    <3>2. IsFiniteSet({last}) /\ Cardinality({last}) = 1
      BY FS_Singleton
    <3>3. /\ IsFiniteSet(added)
          /\ Cardinality(added) = Cardinality({last}) * Cardinality(1..event.bytes)
      BY <3>1, <3>2, FS_Product
    <3> QED
      BY <1>2, <3>1, <3>2, <3>3
  <2>6. Cardinality(Queued(longer, class)) = Cardinality(Queued(queue, class)) + 1
    BY <2>1, <2>2, QueuedFinite, FS_AddElement
  <2>7. Cardinality(QueuedBytes(longer, class))
          = Cardinality(QueuedBytes(queue, class)) + event.bytes
    <3>1. /\ IsFiniteSet(QueuedBytes(queue, class))
          /\ Cardinality(QueuedBytes(queue, class)) \in Nat
      BY QueuedFinite
    <3>2. Cardinality(QueuedBytes(queue, class) \cup added)
            = Cardinality(QueuedBytes(queue, class)) + Cardinality(added)
                - Cardinality({})
      BY <2>4, <2>5, <3>1, FS_Union
    <3> QED
      BY <1>2, <2>3, <2>5, <3>1, <3>2, FS_EmptySet
  <2> QED
    BY <1>3, <2>6, <2>7 DEF Charge, ByteCharge
<1>4. CASE event.class # class
  <2>1. Queued(longer, class) = Queued(queue, class)
    BY <1>1, <1>4 DEF Queued
  <2>2. QueuedBytes(longer, class) = QueuedBytes(queue, class)
    <3>1. \A i \in Queued(queue, class) : longer[i] = queue[i]
      BY <1>1 DEF Queued
    <3> QED
      BY <2>1, <3>1 DEF QueuedBytes
  <2> QED
    BY <1>4, <2>1, <2>2, QueuedFinite DEF Charge, ByteCharge
<1> QED
  BY <1>3, <1>4

\* Reading an event gives back the room of that event and no other.
LEMMA TailRoom ==
    ASSUME NEW queue \in Seq(Event), queue # << >>, NEW class
    PROVE  /\ Cardinality(Queued(queue, class))
                = Cardinality(Queued(Tail(queue), class))
                    + Charge(Head(queue), class)
           /\ Cardinality(QueuedBytes(queue, class))
                = Cardinality(QueuedBytes(Tail(queue), class))
                    + ByteCharge(Head(queue), class)
<1> DEFINE rest    == Tail(queue)
           event   == Head(queue)
           removed == {1} \X (1..event.bytes)
           later   == Queued(queue, class) \ {1}
           laterBytes == {at \in QueuedBytes(queue, class) : at[1] # 1}
<1> SUFFICES
      /\ Cardinality(Queued(queue, class))
            = Cardinality(Queued(rest, class)) + Charge(event, class)
      /\ Cardinality(QueuedBytes(queue, class))
            = Cardinality(QueuedBytes(rest, class)) + ByteCharge(event, class)
  OBVIOUS
<1>1. /\ rest \in Seq(Event) /\ event \in Event /\ event = queue[1]
      /\ Len(rest) \in Nat /\ Len(queue) = Len(rest) + 1
      /\ \A i \in 1..Len(rest) : rest[i] = queue[i + 1]
  <2>1. Len(queue) \in Nat \ {0}
    BY EmptySeq
  <2>2. Len(rest) = Len(queue) - 1 /\ rest \in Seq(Event)
    BY HeadTailProperties
  <2>3. event = queue[1]
    OBVIOUS
  <2> QED
    BY <2>1, <2>2, <2>3, HeadTailProperties
<1>2. event.bytes \in Nat
  BY <1>1, EventTypes
<1> HIDE DEF rest, event
<1>3. Cardinality(later) = Cardinality(Queued(rest, class))
  <2> DEFINE f == [i \in Queued(rest, class) |-> i + 1]
  <2>1. f \in [Queued(rest, class) -> later]
    BY <1>1 DEF Queued
  <2>2. \A i, j \in Queued(rest, class) : f[i] = f[j] => i = j
    BY <1>1 DEF Queued
  <2>3. ASSUME NEW i \in later PROVE \E j \in Queued(rest, class) : f[j] = i
    <3>1. i - 1 \in Queued(rest, class)
      BY <1>1 DEF Queued
    <3> QED
      BY <3>1, <1>1 DEF Queued
  <2>4. f \in Bijection(Queued(rest, class), later)
    BY <2>1, <2>2, <2>3 DEF Bijection, Injection, Surjection, IsInjective
  <2> QED
    BY <1>1, <2>4, QueuedFinite, FS_Bijection DEF ExistsBijection
<1>4. Cardinality(laterBytes) = Cardinality(QueuedBytes(rest, class))
  <2> DEFINE f == [at \in QueuedBytes(rest, class) |-> <<at[1] + 1, at[2]>>]
  <2>1. \A at \in QueuedBytes(rest, class) :
           /\ at[1] \in Nat /\ at = <<at[1], at[2]>>
           /\ <<at[1] + 1, at[2]>> \in laterBytes
    <3> TAKE at \in QueuedBytes(rest, class)
    <3>1. PICK i \in Queued(rest, class) : at \in {i} \X (1..rest[i].bytes)
      BY DEF QueuedBytes
    <3>2. i \in Nat /\ i + 1 \in later /\ queue[i + 1] = rest[i]
      BY <1>1 DEF Queued
    <3>3. <<i + 1, at[2]>> \in {i + 1} \X (1..queue[i + 1].bytes)
      BY <3>1, <3>2
    <3>4. <<i + 1, at[2]>> \in QueuedBytes(queue, class)
      BY <3>2, <3>3 DEF QueuedBytes
    <3> QED
      BY <3>1, <3>2, <3>4
  <2>2. f \in [QueuedBytes(rest, class) -> laterBytes]
    BY <2>1
  <2>3. \A a, b \in QueuedBytes(rest, class) : f[a] = f[b] => a = b
    BY <2>1
  <2>4. ASSUME NEW at \in laterBytes
        PROVE  \E b \in QueuedBytes(rest, class) : f[b] = at
    <3>1. PICK i \in Queued(queue, class) : at \in {i} \X (1..queue[i].bytes)
      BY DEF QueuedBytes
    <3>2. at = <<i, at[2]>> /\ i # 1
      BY <3>1
    <3>3. i - 1 \in Queued(rest, class) /\ rest[i - 1] = queue[i] /\ i \in Nat
      BY <1>1, <3>2 DEF Queued
    <3>4. <<i - 1, at[2]>> \in {i - 1} \X (1..rest[i - 1].bytes)
      BY <3>1, <3>3
    <3>5. <<i - 1, at[2]>> \in QueuedBytes(rest, class)
      BY <3>3, <3>4 DEF QueuedBytes
    <3>6. f[<<i - 1, at[2]>>] = at
      BY <3>2, <3>3, <3>5
    <3> QED
      BY <3>5, <3>6
  <2>5. f \in Bijection(QueuedBytes(rest, class), laterBytes)
    BY <2>2, <2>3, <2>4 DEF Bijection, Injection, Surjection, IsInjective
  <2> QED
    BY <1>1, <2>5, QueuedFinite, FS_Bijection DEF ExistsBijection
<1>5. IsFiniteSet(laterBytes) /\ Cardinality(laterBytes) \in Nat
  <2>1. IsFiniteSet(QueuedBytes(queue, class))
    BY QueuedFinite
  <2>2. IsFiniteSet(laterBytes)
    BY <2>1, FS_Subset
  <2> QED
    BY <2>2, FS_CardinalityType
<1>6. CASE event.class = class
  <2>1. 1 \in Queued(queue, class)
    BY <1>1, <1>6 DEF Queued
  <2>2. Cardinality(later) = Cardinality(Queued(queue, class)) - 1
    BY <2>1, QueuedFinite, FS_RemoveElement
  <2>3. QueuedBytes(queue, class) = laterBytes \cup removed
    <3>1. removed \subseteq QueuedBytes(queue, class)
      BY <1>1, <2>1 DEF QueuedBytes
    <3>2. ASSUME NEW at \in QueuedBytes(queue, class), at[1] = 1
          PROVE  at \in removed
      BY <1>1, <3>2 DEF QueuedBytes
    <3> HIDE DEF removed
    <3> QED
      BY <3>1, <3>2
  <2>4. laterBytes \cap removed = {}
    OBVIOUS
  <2>5. IsFiniteSet(removed) /\ Cardinality(removed) = event.bytes
    <3>1. IsFiniteSet(1..event.bytes) /\ Cardinality(1..event.bytes) = event.bytes
      BY <1>2, UpTo
    <3>2. IsFiniteSet({1}) /\ Cardinality({1}) = 1
      BY FS_Singleton
    <3>3. /\ IsFiniteSet(removed)
          /\ Cardinality(removed) = Cardinality({1}) * Cardinality(1..event.bytes)
      BY <3>1, <3>2, FS_Product
    <3> QED
      BY <1>2, <3>1, <3>2, <3>3
  <2>6. Cardinality(laterBytes \cup removed)
          = Cardinality(laterBytes) + Cardinality(removed) - Cardinality({})
    BY <1>5, <2>4, <2>5, FS_Union
  <2>7. Cardinality(QueuedBytes(queue, class))
          = Cardinality(laterBytes) + event.bytes
    <3> HIDE DEF laterBytes, removed
    <3> QED
      BY <1>2, <1>5, <2>3, <2>5, <2>6, FS_EmptySet
  <2> QED
    <3>1. Cardinality(Queued(queue, class)) \in Nat
      BY QueuedFinite
    <3> QED
      BY <1>3, <1>4, <1>6, <2>2, <2>7, <3>1 DEF Charge, ByteCharge
<1>7. CASE event.class # class
  <2>1. later = Queued(queue, class)
    BY <1>1, <1>7 DEF Queued
  <2>2. laterBytes = QueuedBytes(queue, class)
    BY <2>1 DEF QueuedBytes
  <2> QED
    <3>1. /\ Cardinality(Queued(queue, class)) \in Nat
          /\ Cardinality(QueuedBytes(queue, class)) \in Nat
      BY QueuedFinite
    <3> HIDE DEF later, laterBytes
    <3> QED
      BY <1>3, <1>4, <1>7, <2>1, <2>2, <3>1 DEF Charge, ByteCharge
<1> QED
  BY <1>6, <1>7

\* An empty queue takes no room.
LEMMA EmptyRoom ==
    ASSUME NEW class
    PROVE  /\ Cardinality(Queued(<< >>, class)) = 0
           /\ Cardinality(QueuedBytes(<< >>, class)) = 0
<1>1. Queued(<< >>, class) = {}
  BY DEF Queued
<1>2. QueuedBytes(<< >>, class) = {}
  BY <1>1 DEF QueuedBytes
<1> QED
  BY <1>1, <1>2, FS_EmptySet

-----------------------------------------------------------------------------
(* Types.  The four totals and the sink count are counters; that they stay  *)
(* natural numbers follows from what they count, so the rest of TypeOK      *)
(* comes first.                                                             *)

Shape ==
    /\ events \in Seq(Event) /\ terminal \in Seq(Terminals)
    /\ status \in Outcomes \cup {NoStatus}
    /\ closeRefused \in BOOLEAN
    /\ abandoned \in BOOLEAN /\ terminated \in BOOLEAN
    /\ permit \in BOOLEAN /\ wake \in {"no", "one", "all"}
    /\ sinkPc \in [Sinks -> SinkPcs] /\ reader \in ReaderPcs
    /\ accepted \in Seq(Event) /\ delivered \in Seq(Event \cup Terminals)
    /\ overflowed \in BOOLEAN /\ holeAt \in Nat

LEMMA TerminalEventsType ==
    ASSUME NEW outcome \in Outcomes \cup {NoStatus}
    PROVE  TerminalEvents(outcome) \in Seq(Terminals)
<1>1. /\ TerminalEvent("Completed") \in Terminals
      /\ TerminalEvent("Cancelled") \in Terminals
      /\ TerminalEvent("Error") \in Terminals
  BY DEF Terminals
<1> QED
  BY <1>1 DEF TerminalEvents, Outcomes, NoStatus

LEMMA SinkMovesType ==
    ASSUME sinkPc \in [Sinks -> SinkPcs], NEW s \in Sinks,
           NEW from, NEW to \in SinkPcs, SinkMoves(s, from, to)
    PROVE  sinkPc' \in [Sinks -> SinkPcs]
BY DEF SinkMoves

\* A push appends one well-formed event to the queue and to the history.
LEMMA PushType ==
    ASSUME Shape, Len(accepted) < MaxEvents,
           NEW class \in Classes, NEW bytes \in Sizes, Enqueue(class, bytes)
    PROVE  \E event \in Event :
              /\ event.class = class /\ event.bytes = bytes
              /\ events' = Append(events, event)
              /\ accepted' = Append(accepted, event)
              /\ events' \in Seq(Event) /\ accepted' \in Seq(Event)
<1> DEFINE event == [id |-> Len(accepted) + 1, class |-> class, bytes |-> bytes]
<1>1. Len(accepted) \in Nat
  BY LenProperties DEF Shape
<1>2. event \in Event
  BY <1>1, LimitsAssumption DEF Event
<1>3. events' = Append(events, event) /\ accepted' = Append(accepted, event)
  BY DEF Enqueue
<1>4. events' \in Seq(Event) /\ accepted' \in Seq(Event)
  BY <1>2, <1>3, AppendProperties DEF Shape
<1>5. event.class = class /\ event.bytes = bytes
  OBVIOUS
<1> HIDE DEF event
<1> QED
  BY <1>2, <1>3, <1>4, <1>5

\* A read takes the first event of the queue, or of the terminal behind it.
LEMMA TakeType ==
    ASSUME Shape, TakeNext
    PROVE  /\ events' \in Seq(Event) /\ terminal' \in Seq(Terminals)
           /\ delivered' \in Seq(Event \cup Terminals)
<1>1. CASE events # << >> /\ events' = Tail(events)
           /\ delivered' = Append(delivered, Head(events)) /\ UNCHANGED terminal
  <2>1. Head(events) \in Event /\ Tail(events) \in Seq(Event)
    BY <1>1, HeadTailProperties DEF Shape
  <2> QED
    BY <1>1, <2>1, AppendProperties DEF Shape
<1>2. CASE terminal # << >> /\ terminal' = Tail(terminal)
           /\ delivered' = Append(delivered, Head(terminal))
           /\ UNCHANGED queueVars
  <2>1. Head(terminal) \in Terminals /\ Tail(terminal) \in Seq(Terminals)
    BY <1>2, HeadTailProperties DEF Shape
  <2> QED
    BY <1>2, <2>1, AppendProperties DEF Shape, queueVars
<1> QED
  BY <1>1, <1>2 DEF TakeNext

LEMMA ShapeInit == Init => Shape
<1> SUFFICES ASSUME Init PROVE Shape
  OBVIOUS
<1>1. /\ << >> \in Seq(Event) /\ << >> \in Seq(Terminals)
      /\ << >> \in Seq(Event \cup Terminals)
  BY EmptySeq
<1> QED
  BY <1>1 DEF Init, Shape, SinkPcs, ReaderPcs

LEMMA ShapeStep == Shape /\ [Next]_vars => Shape'
<1> SUFFICES ASSUME Shape, [Next]_vars PROVE Shape'
  OBVIOUS
<1> USE DEF stateVars, queueVars, tokenVars, notifyVars, historyVars,
            SinkPcs, ReaderPcs
<1>1. ASSUME NEW s \in Sinks, Emit(s) PROVE Shape'
  <2> PICK class \in Classes, bytes \in Sizes : Emit(s)!(class, bytes)
    BY <1>1 DEF Emit
  <2>1. CASE Enqueue(class, bytes) /\ SinkMoves(s, "idle", "notify")
             /\ UNCHANGED overflowed
    BY <2>1, PushType, SinkMovesType DEF Shape
  <2>2. CASE SinkMoves(s, "idle", "overflow") /\ overflowed' = TRUE
             /\ UNCHANGED <<queueVars, accepted>>
    BY <2>2, SinkMovesType DEF Shape
  <2> QED
    BY <2>1, <2>2
<1>2. ASSUME NEW s \in Sinks, EmitClose(s) PROVE Shape'
  <2> PICK bytes \in Sizes : EmitClose(s)!(bytes)
    BY <1>2 DEF EmitClose
  <2>1. CASE Enqueue("payload", bytes) /\ SinkMoves(s, "idle", "notify")
             /\ UNCHANGED <<closeRefused, holeAt>>
    BY <2>1, PushType, SinkMovesType DEF Shape, Classes
  <2>2. CASE /\ closeRefused' = TRUE
             /\ holeAt' = IF closeRefused THEN holeAt ELSE Len(accepted)
             /\ UNCHANGED <<queueVars, accepted, sinkPc>>
    BY <2>2, LenProperties DEF Shape
  <2> QED
    BY <2>1, <2>2
<1>3. ASSUME NEW s \in Sinks, Commit(s) \/ CommitOverflow(s) \/ CommitOwed(s)
      PROVE  Shape'
  <2>1. ASSUME NEW outcome \in Outcomes, Finish(outcome)
        PROVE  /\ status' \in Outcomes /\ terminal' \in Seq(Terminals)
               /\ UNCHANGED <<queueVars, closeRefused>>
    BY <2>1, TerminalEventsType DEF Finish, Shape
  <2> QED
    BY <1>3, <2>1, SinkMovesType
    DEF Commit, CommitOverflow, CommitOwed, Shape, Outcomes
<1>4. ASSUME NEW s \in Sinks, NotifyPushed(s) \/ Announce(s) \/ RemoveSender(s)
      PROVE  Shape'
  BY <1>4, SinkMovesType, ZenonT(60)
  DEF NotifyPushed, Announce, RemoveSender, NotifyOne, NotifyWaiters, Shape
<1>5. ASSUME NEW s \in Sinks, DropSink(s) \/ CheckOwed(s) PROVE Shape'
  BY <1>5, SinkMovesType DEF DropSink, CheckOwed, Shape
<1>6. ASSUME NEW s \in Sinks, NEW t \in Sinks, CloneSink(s, t) PROVE Shape'
  BY <1>6, SinkMovesType DEF CloneSink, Shape
<1>7. CASE TryRecv
  BY <1>7, TakeType DEF TryRecv, DropWait, Shape
<1>8. CASE Arm \/ SeeEnd \/ FindNothing \/ Park \/ Woken \/ CancelRecv \/ Abandon
  BY <1>8 DEF Arm, SeeEnd, FindNothing, Park, Woken, CancelRecv, Abandon, DropWait, Shape
<1>9. CASE ClearAbandoned
  <2>1. << >> \in Seq(Event) /\ << >> \in Seq(Terminals)
    BY EmptySeq
  <2> QED
    BY <1>9, <2>1 DEF ClearAbandoned, Shape
<1>10. CASE UNCHANGED vars
  BY <1>10 DEF vars, Shape
<1> QED
  BY <1>1, <1>2, <1>3, <1>4, <1>5, <1>6, <1>7, <1>8, <1>9, <1>10
  DEF Next, SinkCalled, SinkCompletes, Reads

LEMMA ShapeInvariant == Spec => []Shape
BY ShapeInit, ShapeStep, PTL DEF Spec

-----------------------------------------------------------------------------
(* The totals are exact.                                                    *)

\* Account moves the totals of one class by the room of one event.
LEMMA PushExact ==
    ASSUME Shape, BudgetExact, Len(accepted) < MaxEvents,
           NEW class \in Classes, NEW bytes \in Sizes, Enqueue(class, bytes)
    PROVE  BudgetExact'
<1>1. PICK event \in Event :
          /\ event.class = class /\ event.bytes = bytes
          /\ events' = Append(events, event)
  BY PushType
<1>2. events \in Seq(Event) /\ event.bytes \in Nat
  BY EventTypes DEF Shape
<1>3. \A kind : /\ Cardinality(Queued(events, kind)) \in Nat
                /\ Cardinality(QueuedBytes(events, kind)) \in Nat
  BY <1>2, QueuedFinite
<1>4. \A kind : /\ Cardinality(Queued(events', kind))
                     = Cardinality(Queued(events, kind)) + Charge(event, kind)
                /\ Cardinality(QueuedBytes(events', kind))
                     = Cardinality(QueuedBytes(events, kind)) + ByteCharge(event, kind)
  BY <1>1, <1>2, AppendRoom
<1>5. Account(class, bytes, 1)
  BY DEF Enqueue
<1> QED
  BY <1>1, <1>2, <1>3, <1>4, <1>5
  DEF BudgetExact, Account, Charge, ByteCharge, Classes

LEMMA TakeExact ==
    ASSUME Shape, BudgetExact, TakeNext
    PROVE  BudgetExact'
<1>1. CASE UNCHANGED queueVars
  BY <1>1 DEF queueVars, BudgetExact
<1>2. CASE events # << >> /\ events' = Tail(events) /\ Refund(Head(events))
  <2> DEFINE event == Head(events)
  <2>1. events \in Seq(Event) /\ event \in Event
    BY <1>2, HeadTailProperties DEF Shape
  <2>2. event.bytes \in Nat /\ event.class \in Classes
    BY <2>1, EventTypes
  <2>3. \A kind : /\ Cardinality(Queued(events', kind)) \in Nat
                  /\ Cardinality(QueuedBytes(events', kind)) \in Nat
    BY <1>2, <2>1, HeadTailProperties, QueuedFinite
  <2>4. \A kind : /\ Cardinality(Queued(events, kind))
                       = Cardinality(Queued(events', kind)) + Charge(event, kind)
                  /\ Cardinality(QueuedBytes(events, kind))
                       = Cardinality(QueuedBytes(events', kind)) + ByteCharge(event, kind)
    BY <1>2, <2>1, TailRoom
  <2>5. Account(event.class, event.bytes, -1)
    BY <1>2 DEF Refund
  <2> HIDE DEF event
  <2> QED
    BY <2>2, <2>3, <2>4, <2>5
    DEF BudgetExact, Account, Charge, ByteCharge, Classes
<1> QED
  BY <1>1, <1>2 DEF TakeNext

LEMMA ExactStep == Shape /\ BudgetExact /\ [Next]_vars => BudgetExact'
<1> SUFFICES ASSUME Shape, BudgetExact, [Next]_vars PROVE BudgetExact'
  OBVIOUS
<1> USE DEF stateVars, queueVars, historyVars
<1>1. CASE UNCHANGED queueVars
  BY <1>1 DEF BudgetExact
<1>2. ASSUME NEW s \in Sinks, Emit(s) \/ EmitClose(s), ~UNCHANGED queueVars
      PROVE  BudgetExact'
  <2>1. PICK class \in Classes, bytes \in Sizes :
            Enqueue(class, bytes) /\ Len(accepted) < MaxEvents
    BY <1>2 DEF Emit, EmitClose, Classes
  <2> QED
    BY <2>1, PushExact
<1>3. CASE TryRecv
  BY <1>3, TakeExact DEF TryRecv
<1>4. CASE ClearAbandoned
  BY <1>4, EmptyRoom DEF ClearAbandoned, BudgetExact
<1>5. CASE UNCHANGED vars
  BY <1>1, <1>5 DEF vars
<1>6. ASSUME NEW s \in Sinks,
             \/ NotifyPushed(s) \/ Announce(s) \/ RemoveSender(s) \/ Commit(s)
             \/ CommitOverflow(s) \/ CommitOwed(s) \/ DropSink(s) \/ CheckOwed(s)
             \/ \E t \in Sinks : CloneSink(s, t)
      PROVE  UNCHANGED queueVars
  BY <1>6 DEF NotifyPushed, Announce, RemoveSender, Commit, CommitOverflow,
              CommitOwed, DropSink, CheckOwed, CloneSink, Finish
<1>7. CASE Arm \/ SeeEnd \/ FindNothing \/ Park \/ Woken \/ CancelRecv \/ Abandon
  BY <1>1, <1>7 DEF Arm, SeeEnd, FindNothing, Park, Woken, CancelRecv, Abandon
<1> QED
  BY <1>1, <1>2, <1>3, <1>4, <1>5, <1>6, <1>7
  DEF Next, SinkCalled, SinkCompletes, Reads

\* Buffer's running totals are those of the queue in every reachable state,
\* whatever the host's limits: the subtractions of try_recv never underflow.
THEOREM BudgetIsExact == Spec => []BudgetExact
<1>1. Init => BudgetExact
  BY EmptyRoom DEF Init, BudgetExact
<1> QED
  BY <1>1, ExactStep, ShapeInvariant, PTL DEF Spec

-----------------------------------------------------------------------------
(* The sink count is that of the handles still alive.                       *)

Live == {s \in Sinks : sinkPc[s] # "absent"}

SendersExact == senders = Cardinality(Live)

LEMMA LiveFinite ==
    /\ IsFiniteSet(Live) /\ Cardinality(Live) \in Nat
    /\ \A s \in Live : Cardinality(Live \ {s}) = Cardinality(Live) - 1
    /\ \A s \in Live : Cardinality(Live) > 0
<1>1. IsFiniteSet(Live)
  BY LimitsAssumption, FS_Subset DEF Live
<1>2. Cardinality(Live) \in Nat
  BY <1>1, FS_CardinalityType
<1>3. \A s \in Live : Cardinality(Live \ {s}) = Cardinality(Live) - 1
  BY <1>1, FS_RemoveElement
<1>4. \A s \in Live : Cardinality(Live) > 0
  BY <1>1, <1>2, FS_EmptySet
<1> QED
  BY <1>1, <1>2, <1>3, <1>4

\* A sink that moves between two live places leaves the count alone.
LEMMA LiveSame ==
    ASSUME Shape, NEW s \in Sinks, NEW from, NEW to,
           from # "absent", to # "absent", SinkMoves(s, from, to)
    PROVE  Live' = Live
BY DEF Shape, SinkMoves, Live

LEMMA SendersStep == Shape /\ SendersExact /\ [Next]_vars => SendersExact'
<1> SUFFICES ASSUME Shape, SendersExact, [Next]_vars PROVE SendersExact'
  OBVIOUS
<1> USE DEF tokenVars
<1>1. CASE UNCHANGED <<senders, sinkPc>>
  BY <1>1 DEF SendersExact, Live
<1>2. ASSUME UNCHANGED senders, Live' = Live PROVE SendersExact'
  BY <1>2 DEF SendersExact
<1>3. ASSUME NEW s \in Sinks, NEW from, SinkMoves(s, from, "absent"),
             from # "absent", senders' = senders - 1
      PROVE  SendersExact'
  <2>1. s \in Live /\ Live' = Live \ {s}
    BY <1>3 DEF Shape, SinkMoves, Live
  <2> QED
    BY <1>3, <2>1, LiveFinite DEF SendersExact
<1>4. ASSUME NEW s \in Sinks, NEW t \in Sinks, CloneSink(s, t)
      PROVE  SendersExact'
  <2>1. t \notin Live /\ Live' = Live \cup {t} /\ senders' = senders + 1
    BY <1>4 DEF CloneSink, Shape, SinkMoves, Live
  <2> QED
    BY <2>1, LiveFinite, FS_AddElement DEF SendersExact
<1>5. ASSUME NEW s \in Sinks, DropSink(s) \/ RemoveSender(s) PROVE SendersExact'
  BY <1>2, <1>3, <1>5, LiveSame DEF DropSink, RemoveSender
<1>6. ASSUME NEW s \in Sinks,
             \/ Emit(s) \/ EmitClose(s) \/ Commit(s) \/ NotifyPushed(s)
             \/ CommitOverflow(s) \/ Announce(s) \/ CheckOwed(s) \/ CommitOwed(s)
      PROVE  UNCHANGED senders /\ Live' = Live
  <2>1. CASE UNCHANGED sinkPc
    BY <1>6, <2>1
    DEF Live, Emit, EmitClose, Commit, NotifyPushed, CommitOverflow, Announce,
        CheckOwed, CommitOwed
  <2>2. CASE Emit(s) \/ EmitClose(s)
    BY <2>2, LiveSame, <2>1, <1>6 DEF Emit, EmitClose
  <2>3. CASE Commit(s) \/ NotifyPushed(s) \/ CommitOverflow(s) \/ Announce(s)
             \/ CheckOwed(s) \/ CommitOwed(s)
    BY <2>3, LiveSame
    DEF Commit, NotifyPushed, CommitOverflow, Announce, CheckOwed, CommitOwed
  <2> QED
    BY <1>6, <2>2, <2>3
<1>7. CASE Reads \/ CancelRecv \/ Abandon \/ ClearAbandoned
  BY <1>1, <1>7
  DEF Reads, Arm, TryRecv, SeeEnd, FindNothing, Park, Woken, CancelRecv, Abandon, ClearAbandoned
<1>8. CASE UNCHANGED vars
  BY <1>1, <1>8 DEF vars
<1> QED
  BY <1>2, <1>4, <1>5, <1>6, <1>7, <1>8 DEF Next, SinkCalled, SinkCompletes

LEMMA SendersInvariant == Spec => []SendersExact
<1>1. Init => SendersExact
  <2> SUFFICES ASSUME Init PROVE SendersExact
    OBVIOUS
  <2>1. PICK first \in Sinks :
            sinkPc = [s \in Sinks |-> IF s = first THEN "idle" ELSE "absent"]
    BY DEF Init
  <2>2. Live = {first}
    BY <2>1 DEF Live
  <2> QED
    BY <2>2, FS_Singleton DEF SendersExact, Init
<1> QED
  BY <1>1, SendersStep, ShapeInvariant, PTL DEF Spec

\* Type correctness of the turn stream, for any sinks and any limits.
THEOREM TypeCorrect == Spec => []TypeOK
<1>1. Shape /\ BudgetExact /\ SendersExact => TypeOK
  <2> SUFFICES ASSUME Shape, BudgetExact, SendersExact PROVE TypeOK
    OBVIOUS
  <2>1. events \in Seq(Event)
    BY DEF Shape
  <2>2. /\ payloadBytes \in Nat /\ controlBytes \in Nat
        /\ payloads \in Nat /\ controls \in Nat
    BY <2>1, QueuedFinite DEF BudgetExact
  <2>3. senders \in Nat
    BY LiveFinite DEF SendersExact
  <2> QED
    BY <2>2, <2>3 DEF Shape, TypeOK
<1> QED
  BY <1>1, ShapeInvariant, BudgetIsExact, SendersInvariant, PTL

-----------------------------------------------------------------------------
(* The budgets.                                                             *)

LEMMA LimitTypes ==
    /\ PayloadBudget \in Nat /\ PayloadBudget <= TurnBufferBytes
    /\ ControlEventCap \in Nat /\ ControlEventCap >= 2
    /\ Greatest(TurnChannelCapacity, 1) \in Nat
<1>1. ControlEventCap \in Nat /\ ControlEventCap >= 2
  BY LimitsAssumption DEF ControlEventCap, Greatest
<1>2. ASSUME NEW cap \in Nat, NEW size \in Nat PROVE cap * size \in Nat
  OBVIOUS
<1>3. ControlEventCap * InteractionEventBytes \in Nat
  BY <1>1, <1>2, LimitsAssumption
<1>4. ControlReserveBytes \in Nat /\ ControlReserveBytes <= TurnBufferBytes
  BY <1>3, LimitsAssumption DEF ControlReserveBytes, Least
<1> QED
  BY <1>1, <1>4, LimitsAssumption DEF PayloadBudget, Greatest

\* What an admission asks is what the budgets need of the push that follows.
LEMMA PushWithinBudget ==
    ASSUME TypeOK, BudgetRespected, NEW class \in Classes, NEW bytes \in Sizes,
           Admit(class, bytes), Enqueue(class, bytes)
    PROVE  BudgetRespected'
<1>1. bytes \in Nat
  BY LimitsAssumption
<1>2. Account(class, bytes, 1)
  BY DEF Enqueue
<1>3. CASE class = "control"
  BY <1>1, <1>2, <1>3, LimitTypes, LimitsAssumption
  DEF Admit, Account, BudgetRespected, TypeOK
<1>4. CASE class = "payload"
  BY <1>1, <1>2, <1>4, LimitTypes, LimitsAssumption
  DEF Admit, Account, BudgetRespected, TypeOK
<1> QED
  BY <1>3, <1>4 DEF Classes

LEMMA TakeWithinBudget ==
    ASSUME TypeOK, BudgetRespected, TakeNext
    PROVE  BudgetRespected'
<1>1. CASE UNCHANGED queueVars
  BY <1>1 DEF queueVars, BudgetRespected
<1>2. CASE events # << >> /\ Refund(Head(events))
  <2> DEFINE event == Head(events)
  <2>1. event \in Event
    BY <1>2, HeadTailProperties DEF TypeOK
  <2>2. event.bytes \in Nat
    BY <2>1, EventTypes
  <2>3. Account(event.class, event.bytes, -1)
    BY <1>2 DEF Refund
  <2>4. /\ payloadBytes \in Nat /\ controlBytes \in Nat
        /\ payloads \in Nat /\ controls \in Nat
    BY DEF TypeOK
  <2> HIDE DEF event
  <2>5. /\ payloadBytes' <= payloadBytes /\ controlBytes' <= controlBytes
        /\ payloads' <= payloads /\ controls' <= controls
        /\ payloadBytes' \in Int /\ controlBytes' \in Int
        /\ payloads' \in Int /\ controls' \in Int
    <3>1. CASE event.class = "control"
      BY <2>2, <2>3, <2>4, <3>1 DEF Account
    <3>2. CASE event.class # "control"
      BY <2>2, <2>3, <2>4, <3>2 DEF Account
    <3> QED
      BY <3>1, <3>2
  <2>6. /\ TurnBufferBytes \in Nat /\ PayloadBudget \in Nat
        /\ ControlEventCap \in Nat /\ Greatest(TurnChannelCapacity, 1) \in Nat
    BY LimitTypes, LimitsAssumption
  <2>7. payloadBytes' + controlBytes' <= TurnBufferBytes
    <3>1. payloadBytes + controlBytes <= TurnBufferBytes
      BY DEF BudgetRespected
    <3>2. ASSUME NEW p \in Nat, NEW c \in Nat, NEW less \in Int, NEW fewer \in Int,
                 NEW total \in Nat, less <= p, fewer <= c, p + c <= total
          PROVE  less + fewer <= total
      BY <3>2
    <3> QED
      BY <2>4, <2>5, <2>6, <3>1, <3>2
  <2>8. payloadBytes' <= PayloadBudget /\ controls' <= ControlEventCap
    BY <2>4, <2>5, <2>6 DEF BudgetRespected
  <2>9. payloads' <= Greatest(TurnChannelCapacity, 1)
    BY <2>4, <2>5, <2>6 DEF BudgetRespected
  <2> QED
    BY <2>7, <2>8, <2>9 DEF BudgetRespected
<1> QED
  BY <1>1, <1>2 DEF TakeNext

LEMMA BudgetStep == TypeOK /\ BudgetRespected /\ [Next]_vars => BudgetRespected'
<1> SUFFICES ASSUME TypeOK, BudgetRespected, [Next]_vars PROVE BudgetRespected'
  OBVIOUS
<1> USE DEF stateVars, queueVars, historyVars
<1>1. CASE UNCHANGED queueVars
  BY <1>1 DEF BudgetRespected
<1>2. ASSUME NEW s \in Sinks, Emit(s) \/ EmitClose(s), ~UNCHANGED queueVars
      PROVE  BudgetRespected'
  <2>1. PICK class \in Classes, bytes \in Sizes :
            Admit(class, bytes) /\ Enqueue(class, bytes)
    BY <1>2 DEF Emit, EmitClose, Classes
  <2> QED
    BY <2>1, PushWithinBudget
<1>3. CASE TryRecv
  BY <1>3, TakeWithinBudget DEF TryRecv
<1>4. CASE ClearAbandoned
  BY <1>4, LimitTypes, LimitsAssumption DEF ClearAbandoned, BudgetRespected
<1>5. CASE UNCHANGED vars
  BY <1>1, <1>5 DEF vars
<1>6. ASSUME NEW s \in Sinks,
             \/ NotifyPushed(s) \/ Announce(s) \/ RemoveSender(s) \/ Commit(s)
             \/ CommitOverflow(s) \/ CommitOwed(s) \/ DropSink(s) \/ CheckOwed(s)
             \/ \E t \in Sinks : CloneSink(s, t)
      PROVE  UNCHANGED queueVars
  BY <1>6 DEF NotifyPushed, Announce, RemoveSender, Commit, CommitOverflow,
              CommitOwed, DropSink, CheckOwed, CloneSink, Finish
<1>7. CASE Arm \/ SeeEnd \/ FindNothing \/ Park \/ Woken \/ CancelRecv \/ Abandon
  BY <1>1, <1>7 DEF Arm, SeeEnd, FindNothing, Park, Woken, CancelRecv, Abandon
<1> QED
  BY <1>1, <1>2, <1>3, <1>4, <1>5, <1>6, <1>7
  DEF Next, SinkCalled, SinkCompletes, Reads

\* No interleaving of producers, reads and a dropped receiver takes the queue
\* past turn_buffer_bytes, the payload area or a count cap.
THEOREM BudgetHolds == Spec => []BudgetRespected
<1>1. Init => BudgetRespected
  BY LimitTypes, LimitsAssumption DEF Init, BudgetRespected
<1> QED
  BY <1>1, BudgetStep, TypeCorrect, PTL DEF Spec

\* The reserve is enough for every interaction under the count cap.
LEMMA RoomForOneMore ==
    ASSUME NEW count \in Nat, NEW cap \in Nat, NEW size \in Nat, count < cap
    PROVE  count * size + size <= cap * size
<1>1. PICK rest \in Nat : cap = count + 1 + rest
  <2>1. cap - count - 1 \in Nat
    OBVIOUS
  <2> QED
    BY <2>1
<1>2. cap * size = count * size + size + rest * size
  BY <1>1
<1>3. rest * size \in Nat
  OBVIOUS
<1>4. count * size \in Nat
  OBVIOUS
<1> QED
  BY <1>2, <1>3, <1>4

\* Payload, whatever its volume, never takes the room of the next approval
\* request (Buffer::admit, control_reserve_bytes).
THEOREM InteractionRoom == Spec => []InteractionAlwaysFits
<1>1. TypeOK /\ BudgetRespected => InteractionAlwaysFits
  <2> SUFFICES ASSUME TypeOK, BudgetRespected,
                      2 * (ControlEventCap * InteractionEventBytes) <= TurnBufferBytes,
                      controlBytes <= controls * InteractionEventBytes,
                      controls < ControlEventCap
               PROVE  Admit("control", InteractionEventBytes)
    BY DEF InteractionAlwaysFits
  <2> DEFINE Reserve == ControlEventCap * InteractionEventBytes
             Held    == controls * InteractionEventBytes
  <2>1. /\ controls \in Nat /\ controlBytes \in Nat /\ payloadBytes \in Nat
        /\ ControlEventCap \in Nat /\ InteractionEventBytes \in Nat
        /\ TurnBufferBytes \in Nat
    BY LimitTypes, LimitsAssumption DEF TypeOK
  <2>2. Held + InteractionEventBytes <= Reserve
    BY <2>1, RoomForOneMore
  <2>3. ASSUME NEW cap \in Nat, NEW size \in Nat PROVE cap * size \in Nat
    OBVIOUS
  <2>4. Reserve \in Nat /\ Held \in Nat
    BY <2>1, <2>3
  <2>5. 2 * Reserve <= TurnBufferBytes /\ controlBytes <= Held
    OBVIOUS
  <2>6. ControlReserveBytes = Least(Reserve, TurnBufferBytes \div 2)
    BY DEF ControlReserveBytes
  <2> HIDE DEF Reserve, Held
  <2>7. Reserve <= TurnBufferBytes \div 2
    BY <2>1, <2>4, <2>5
  <2>8. ControlReserveBytes = Reserve
    BY <2>1, <2>4, <2>6, <2>7 DEF Least
  <2>9. payloadBytes <= TurnBufferBytes - Reserve
    BY <2>8 DEF BudgetRespected, PayloadBudget
  <2>10. payloadBytes + controlBytes + InteractionEventBytes <= TurnBufferBytes
    BY <2>1, <2>2, <2>4, <2>5, <2>9
  <2> QED
    BY <2>10 DEF Admit
<1> QED
  BY <1>1, TypeCorrect, BudgetHolds, PTL

-----------------------------------------------------------------------------
(* Closing the receiver, and a close that was refused.                      *)

\* The token is cancelled by the receiver's drop and by nothing else.
ReceiverGone ==
    /\ abandoned <=> reader \in {"dropping", "dropped"}
    /\ DroppedReceiverHoldsNothing

LEMMA ReceiverGoneStep == ReceiverGone /\ [Next]_vars => ReceiverGone'
<1> SUFFICES ASSUME ReceiverGone, [Next]_vars PROVE ReceiverGone'
  OBVIOUS
<1> USE DEF stateVars, queueVars, tokenVars, historyVars,
            ReceiverGone, DroppedReceiverHoldsNothing
<1>1. ASSUME NEW s \in Sinks, SinkCalled(s) \/ SinkCompletes(s)
      PROVE  ReceiverGone'
  <2>1. CASE Emit(s) \/ EmitClose(s)
    BY <2>1 DEF Emit, EmitClose, Open
  <2>2. CASE Commit(s) \/ CommitOverflow(s) \/ CommitOwed(s)
    BY <2>2 DEF Commit, CommitOverflow, CommitOwed, Finish
  <2>3. CASE NotifyPushed(s) \/ Announce(s) \/ RemoveSender(s) \/ DropSink(s)
             \/ CheckOwed(s) \/ \E t \in Sinks : CloneSink(s, t)
    BY <2>3 DEF NotifyPushed, Announce, RemoveSender, DropSink, CheckOwed, CloneSink
  <2> QED
    BY <1>1, <2>1, <2>2, <2>3 DEF SinkCalled, SinkCompletes
<1>2. CASE Reads \/ CancelRecv \/ Abandon \/ ClearAbandoned
  BY <1>2 DEF Reads, Arm, TryRecv, SeeEnd, FindNothing, Park, Woken, CancelRecv, Abandon,
              ClearAbandoned
<1>3. CASE UNCHANGED vars
  BY <1>3 DEF vars
<1> QED
  BY <1>1, <1>2, <1>3 DEF Next

LEMMA ReceiverGoneInvariant == Spec => []ReceiverGone
<1>1. Init => ReceiverGone
  BY DEF Init, ReceiverGone, DroppedReceiverHoldsNothing
<1> QED
  BY <1>1, ReceiverGoneStep, PTL DEF Spec

\* A push or a finish that races EventReceiver::drop leaves nothing behind.
THEOREM NothingLeftBehind == Spec => []DroppedReceiverHoldsNothing
<1>1. ReceiverGone => DroppedReceiverHoldsNothing
  BY DEF ReceiverGone
<1> QED
  BY <1>1, ReceiverGoneInvariant, PTL

\* The place of the refused close, and only control events behind it.
RefusalHolds ==
    /\ holeAt \in 0..Len(accepted)
    /\ NoPayloadBehindRefusedClose

LEMMA RefusalStep == Shape /\ RefusalHolds /\ [Next]_vars => RefusalHolds'
<1> SUFFICES ASSUME Shape, RefusalHolds, [Next]_vars PROVE RefusalHolds'
  OBVIOUS
<1> USE DEF stateVars, historyVars
<1>1. CASE UNCHANGED <<accepted, holeAt, closeRefused>>
  BY <1>1 DEF RefusalHolds, NoPayloadBehindRefusedClose
<1>2. accepted \in Seq(Event) /\ Len(accepted) \in Nat
      /\ DOMAIN accepted = 1..Len(accepted)
  BY LenProperties DEF Shape
<1>3. ASSUME NEW event \in Event, accepted' = Append(accepted, event),
             UNCHANGED <<holeAt, closeRefused>>,
             closeRefused => event.class = "control"
      PROVE  RefusalHolds'
  <2>1. /\ Len(accepted') = Len(accepted) + 1
        /\ DOMAIN accepted' = 1..Len(accepted')
        /\ \A i \in 1..Len(accepted) : accepted'[i] = accepted[i]
        /\ accepted'[Len(accepted) + 1] = event
    BY <1>2, <1>3, AppendProperties, LenProperties
  <2>2. (holeAt \in 0..Len(accepted))'
    BY <1>2, <1>3, <2>1 DEF RefusalHolds
  <2>3. ASSUME closeRefused, NEW i \in 1..Len(accepted'), i > holeAt
        PROVE  accepted'[i].class = "control"
    <3>1. CASE i = Len(accepted) + 1
      BY <1>3, <2>1, <2>3, <3>1
    <3>2. CASE i \in 1..Len(accepted)
      BY <1>2, <2>1, <2>3, <3>2 DEF RefusalHolds, NoPayloadBehindRefusedClose
    <3> QED
      BY <1>2, <2>1, <2>3, <3>1, <3>2
  <2> QED
    BY <1>3, <2>1, <2>2, <2>3 DEF RefusalHolds, NoPayloadBehindRefusedClose
<1>4. ASSUME NEW class \in Classes, NEW bytes \in Sizes, Len(accepted) < MaxEvents,
             Admit(class, bytes), Enqueue(class, bytes),
             UNCHANGED <<holeAt, closeRefused>>
      PROVE  RefusalHolds'
  <2>1. PICK event \in Event :
            event.class = class /\ accepted' = Append(accepted, event)
    BY <1>4, PushType
  <2>2. closeRefused => event.class = "control"
    BY <1>4, <2>1 DEF Admit, Classes
  <2> QED
    BY <1>3, <1>4, <2>1, <2>2
<1>5. ASSUME NEW s \in Sinks, Emit(s) \/ EmitClose(s) PROVE RefusalHolds'
  <2>1. CASE closeRefused' = closeRefused /\ accepted' = accepted /\ holeAt' = holeAt
    BY <1>1, <2>1
  <2>2. CASE /\ closeRefused' = TRUE /\ accepted' = accepted
             /\ holeAt' = IF closeRefused THEN holeAt ELSE Len(accepted)
    <3>1. CASE closeRefused
      BY <2>2, <3>1 DEF RefusalHolds, NoPayloadBehindRefusedClose
    <3>2. CASE ~closeRefused
      BY <1>2, <2>2, <3>2 DEF RefusalHolds, NoPayloadBehindRefusedClose
    <3> QED
      BY <3>1, <3>2
  <2>3. CASE \E class \in Classes, bytes \in Sizes :
                /\ Len(accepted) < MaxEvents
                /\ Admit(class, bytes) /\ Enqueue(class, bytes)
                /\ UNCHANGED <<holeAt, closeRefused>>
    BY <1>4, <2>3
  <2> QED
    BY <1>5, <2>1, <2>2, <2>3 DEF Emit, EmitClose, Classes
<1>6. ASSUME NEW s \in Sinks,
             \/ NotifyPushed(s) \/ Announce(s) \/ RemoveSender(s) \/ Commit(s)
             \/ CommitOverflow(s) \/ CommitOwed(s) \/ DropSink(s) \/ CheckOwed(s)
             \/ \E t \in Sinks : CloneSink(s, t)
      PROVE  UNCHANGED <<accepted, holeAt, closeRefused>>
  BY <1>6 DEF NotifyPushed, Announce, RemoveSender, Commit, CommitOverflow,
              CommitOwed, DropSink, CheckOwed, CloneSink, Finish
<1>7. CASE Reads \/ CancelRecv \/ Abandon \/ ClearAbandoned
  BY <1>1, <1>7
  DEF Reads, Arm, TryRecv, SeeEnd, FindNothing, Park, Woken, CancelRecv, Abandon, ClearAbandoned
<1>8. CASE UNCHANGED vars
  BY <1>1, <1>8 DEF vars
<1> QED
  BY <1>1, <1>5, <1>6, <1>7, <1>8 DEF Next, SinkCalled, SinkCompletes

\* After emit_close was refused, no payload is accepted any more, ever.
THEOREM NoPayloadAfterRefusal == Spec => []NoPayloadBehindRefusedClose
<1>1. Init => RefusalHolds
  BY EmptySeq DEF Init, RefusalHolds, NoPayloadBehindRefusedClose
<1>2. RefusalHolds => NoPayloadBehindRefusedClose
  BY DEF RefusalHolds
<1> QED
  BY <1>1, <1>2, RefusalStep, ShapeInvariant, PTL DEF Spec

-----------------------------------------------------------------------------
(* Nothing is lost, repeated or reordered.                                  *)

Anything == Event \cup Terminals

Faithful ==
    /\ status = NoStatus => terminal = << >>
    /\ TranscriptFaithful

LEMMA FaithfulTypes ==
    ASSUME Shape
    PROVE  /\ events \in Seq(Anything) /\ terminal \in Seq(Anything)
           /\ accepted \in Seq(Anything) /\ delivered \in Seq(Anything)
           /\ TerminalEvents(status) \in Seq(Anything)
BY SeqMonotonic, TerminalEventsType DEF Shape, Anything

LEMMA NoTerminalYet == TerminalEvents(NoStatus) = << >>
BY DEF TerminalEvents, NoStatus

\* One more event behind both sides.
LEMMA PushFaithful ==
    ASSUME Shape, Faithful, status = NoStatus, NEW event \in Event,
           events' = Append(events, event), accepted' = Append(accepted, event),
           UNCHANGED <<delivered, terminal, status, reader>>
    PROVE  Faithful'
<1>1. terminal = << >> /\ TerminalEvents(status) = << >>
  BY NoTerminalYet DEF Faithful
<1>2. event \in Anything
  BY DEF Anything
<1>3. ASSUME reader \notin {"dropping", "dropped"}
      PROVE  delivered' \o events' \o terminal' = accepted' \o TerminalEvents(status')
  <2>1. /\ delivered \o events \in Seq(Anything)
        /\ (delivered \o events) \o << >> = delivered \o events
        /\ accepted \o << >> = accepted
    BY FaithfulTypes, ConcatProperties, ConcatEmptySeq
  <2>2. delivered \o events = accepted
    BY <1>1, <1>3, <2>1 DEF Faithful, TranscriptFaithful
  <2>3. /\ Append(events, event) = events \o <<event>>
        /\ Append(accepted, event) = accepted \o <<event>>
        /\ Append(accepted, event) \in Seq(Anything)
        /\ Append(events, event) \in Seq(Anything)
        /\ <<event>> \in Seq(Anything)
    BY <1>2, FaithfulTypes, AppendIsConcat, AppendProperties
  <2>4. delivered \o (events \o <<event>>) = (delivered \o events) \o <<event>>
    BY <2>3, FaithfulTypes, ConcatAssociative
  <2>5. delivered' \o events' = accepted'
    BY <2>2, <2>3, <2>4
  <2>6. accepted' \o << >> = accepted'
    BY <2>3, ConcatEmptySeq
  <2> QED
    BY <1>1, <2>5, <2>6
<1> QED
  BY <1>1, <1>3 DEF Faithful, TranscriptFaithful

\* The first outcome adds its events to both sides.
LEMMA FinishFaithful ==
    ASSUME Shape, ReceiverGone, Faithful, NEW outcome \in Outcomes,
           Finish(outcome), UNCHANGED <<accepted, delivered, reader>>
    PROVE  Faithful'
<1>1. /\ status = NoStatus /\ status' = outcome /\ UNCHANGED events
      /\ terminal = << >> /\ TerminalEvents(status) = << >>
  BY NoTerminalYet DEF Finish, Faithful, queueVars
<1>2. status' # NoStatus
  BY <1>1 DEF Outcomes, NoStatus
<1>3. ASSUME reader \notin {"dropping", "dropped"}
      PROVE  delivered' \o events' \o terminal' = accepted' \o TerminalEvents(status')
  <2>1. terminal' = TerminalEvents(outcome)
    BY <1>3 DEF Finish, ReceiverGone
  <2>2. /\ delivered \o events \in Seq(Anything)
        /\ (delivered \o events) \o << >> = delivered \o events
        /\ accepted \o << >> = accepted
    BY FaithfulTypes, ConcatProperties, ConcatEmptySeq
  <2>3. delivered \o events = accepted
    BY <1>1, <1>3, <2>2 DEF Faithful, TranscriptFaithful
  <2> QED
    BY <1>1, <2>1, <2>3
<1> QED
  BY <1>2, <1>3 DEF Faithful, TranscriptFaithful

\* A read moves the boundary between what was delivered and what is left.
LEMMA TakeFaithful ==
    ASSUME Shape, Faithful, TakeNext, UNCHANGED <<status, accepted>>,
           reader \in {"idle", "armed"}, reader' = "idle"
    PROVE  Faithful'
<1>1. delivered \o events \o terminal = accepted \o TerminalEvents(status)
  BY DEF Faithful, TranscriptFaithful
<1>2. ASSUME NEW queue \in Seq(Anything), queue # << >>,
             NEW read \in Seq(Anything)
      PROVE  /\ Head(queue) \in Anything
             /\ read \o queue = Append(read, Head(queue)) \o Tail(queue)
  <2>1. Head(queue) \in Anything /\ Tail(queue) \in Seq(Anything)
    BY <1>2, HeadTailProperties
  <2>2. <<Head(queue)>> \in Seq(Anything)
    BY <2>1
  <2>3. queue = <<Head(queue)>> \o Tail(queue)
    <3>1. Len(queue) \in Nat \ {0} /\ Len(Tail(queue)) = Len(queue) - 1
      BY <1>2, EmptySeq, HeadTailProperties
    <3>2. Len(<<Head(queue)>> \o Tail(queue)) = Len(queue)
      BY <2>1, <2>2, <3>1, ConcatProperties
    <3>3. \A i \in 1..Len(queue) : queue[i] = (<<Head(queue)>> \o Tail(queue))[i]
      BY <1>2, <2>1, <2>2, <3>1, ConcatProperties, HeadTailProperties
    <3> QED
      BY <2>1, <2>2, <3>2, <3>3, ConcatProperties, SeqEqual
  <2>4. Append(read, Head(queue)) = read \o <<Head(queue)>>
    BY <2>1, AppendIsConcat
  <2>5. (read \o <<Head(queue)>>) \o Tail(queue)
          = read \o (<<Head(queue)>> \o Tail(queue))
    BY <2>1, <2>2, ConcatAssociative
  <2> QED
    BY <2>1, <2>3, <2>4, <2>5
<1>3. CASE /\ events # << >> /\ events' = Tail(events)
           /\ delivered' = Append(delivered, Head(events)) /\ UNCHANGED terminal
  <2>1. delivered \o events = delivered' \o events'
    BY <1>2, <1>3, FaithfulTypes
  <2> QED
    BY <1>1, <1>3, <2>1 DEF Faithful, TranscriptFaithful
<1>4. CASE /\ events = << >> /\ terminal # << >> /\ terminal' = Tail(terminal)
           /\ delivered' = Append(delivered, Head(terminal)) /\ UNCHANGED events
  <2>1. delivered \o terminal = delivered' \o terminal' /\ Head(terminal) \in Anything
    BY <1>2, <1>4, FaithfulTypes
  <2>2. delivered' \in Seq(Anything)
    BY <1>4, <2>1, FaithfulTypes, AppendProperties
  <2>3. delivered \o events = delivered /\ delivered' \o events' = delivered'
    BY <1>4, <2>2, FaithfulTypes, ConcatEmptySeq
  <2>4. status # NoStatus
    BY <1>4 DEF Faithful
  <2> QED
    BY <1>1, <2>1, <2>3, <2>4 DEF Faithful, TranscriptFaithful
<1> QED
  BY <1>3, <1>4 DEF TakeNext, queueVars

LEMMA FaithfulStep == Shape /\ ReceiverGone /\ Faithful /\ [Next]_vars => Faithful'
<1> SUFFICES ASSUME Shape, ReceiverGone, Faithful, [Next]_vars PROVE Faithful'
  OBVIOUS
<1> USE DEF stateVars, historyVars, queueVars
<1>1. CASE UNCHANGED <<delivered, events, terminal, accepted, status>>
           /\ (reader' \notin {"dropping", "dropped"}
                  => reader \notin {"dropping", "dropped"})
  BY <1>1 DEF Faithful, TranscriptFaithful
<1>2. ASSUME NEW s \in Sinks, Emit(s) \/ EmitClose(s) PROVE Faithful'
  <2>1. CASE UNCHANGED <<events, accepted>>
    BY <1>1, <1>2, <2>1 DEF Emit, EmitClose
  <2>2. CASE \E class \in Classes, bytes \in Sizes :
                Len(accepted) < MaxEvents /\ Enqueue(class, bytes)
    <3>1. PICK event \in Event :
              events' = Append(events, event) /\ accepted' = Append(accepted, event)
      BY <2>2, PushType
    <3>2. UNCHANGED <<delivered, terminal, status, reader>> /\ status = NoStatus
      BY <1>2 DEF Emit, EmitClose, Open
    <3> QED
      BY <3>1, <3>2, PushFaithful
  <2> QED
    BY <1>2, <2>1, <2>2 DEF Emit, EmitClose, Classes
<1>3. ASSUME NEW s \in Sinks, Commit(s) \/ CommitOverflow(s) \/ CommitOwed(s)
      PROVE  Faithful'
  <2>1. UNCHANGED <<accepted, delivered, reader>>
    BY <1>3 DEF Commit, CommitOverflow, CommitOwed
  <2>2. (\E outcome \in Outcomes : Finish(outcome)) \/ UNCHANGED stateVars
    BY <1>3 DEF Commit, CommitOverflow, CommitOwed, Outcomes
  <2> QED
    BY <1>1, <2>1, <2>2, FinishFaithful
<1>4. ASSUME NEW s \in Sinks,
             \/ NotifyPushed(s) \/ Announce(s) \/ RemoveSender(s) \/ DropSink(s)
             \/ CheckOwed(s) \/ \E t \in Sinks : CloneSink(s, t)
      PROVE  Faithful'
  BY <1>1, <1>4
  DEF NotifyPushed, Announce, RemoveSender, DropSink, CheckOwed, CloneSink
<1>5. CASE TryRecv
  BY <1>5, TakeFaithful DEF TryRecv
<1>6. CASE Arm \/ SeeEnd \/ FindNothing \/ Park \/ Woken \/ CancelRecv \/ Abandon
  BY <1>1, <1>6 DEF Arm, SeeEnd, FindNothing, Park, Woken, CancelRecv, Abandon
<1>7. CASE ClearAbandoned
  BY <1>7 DEF ClearAbandoned, Faithful, TranscriptFaithful
<1>8. CASE UNCHANGED vars
  BY <1>1, <1>8 DEF vars
<1> QED
  BY <1>2, <1>3, <1>4, <1>5, <1>6, <1>7, <1>8
  DEF Next, SinkCalled, SinkCompletes, Reads

LEMMA FaithfulInvariant == Spec => []Faithful
<1>1. Init => Faithful
  <2>1. << >> \o << >> = << >>
    BY EmptySeq, ConcatEmptySeq
  <2> QED
    BY <2>1, NoTerminalYet DEF Init, Faithful, TranscriptFaithful
<1> QED
  BY <1>1, FaithfulStep, ShapeInvariant, ReceiverGoneInvariant, PTL DEF Spec

\* What a host that keeps its receiver read, and what it may still read, is
\* exactly what the turn published, in order, closed by its one outcome.
THEOREM TranscriptIsFaithful == Spec => []TranscriptFaithful
<1>1. Faithful => TranscriptFaithful
  BY DEF Faithful
<1> QED
  BY <1>1, FaithfulInvariant, PTL

-----------------------------------------------------------------------------
(* The end of the stream.                                                   *)

LastPcs == {"last", "owing", "announceLast", "leaving"}

\* A sink that leaves as the last one is alone, so the state it looked at when
\* it decided whether it owes a terminal cannot change behind its back; and as
\* long as nothing was committed, whoever owes the failure of an overflow or
\* of a refused close is still there to commit it.
EndHolds ==
    /\ \A s \in Sinks : sinkPc[s] \in LastPcs
          => \A t \in Sinks \ {s} : sinkPc[t] = "absent"
    /\ \A s \in Sinks : sinkPc[s] = "announceLast" => status # NoStatus
    /\ overflowed /\ status = NoStatus => \E s \in Sinks : sinkPc[s] = "overflow"
    /\ closeRefused /\ status = NoStatus /\ ~abandoned
          => \E s \in Sinks : sinkPc[s] \notin {"absent", "leaving"}
    /\ reader = "ended" =>
          /\ events = << >> /\ terminal = << >>
          /\ status # NoStatus \/ \A s \in Sinks : sinkPc[s] = "absent"

\* What the count says about the handles.
LEMMA SendersCount ==
    ASSUME SendersExact
    PROVE  /\ senders = 0 => \A s \in Sinks : sinkPc[s] = "absent"
           /\ \A s \in Sinks : sinkPc[s] # "absent" /\ senders = 1
                 => \A t \in Sinks \ {s} : sinkPc[t] = "absent"
           /\ \A s \in Sinks : senders > 1 /\ sinkPc[s] # "absent"
                 => \E t \in Sinks \ {s} : sinkPc[t] # "absent"
           /\ \A s \in Sinks :
                 /\ sinkPc[s] # "absent"
                 /\ \A t \in Sinks \ {s} : sinkPc[t] = "absent"
                 => senders = 1
<1>1. IsFiniteSet(Live) /\ senders = Cardinality(Live)
  BY LiveFinite DEF SendersExact
<1>2. senders = 0 => Live = {}
  BY <1>1, FS_EmptySet
<1>3. senders = 1 => \E s : Live = {s}
  BY <1>1, FS_Singleton
<1>4. \A s : Live = {s} => senders = 1
  BY <1>1, FS_Singleton
<1>5. \A s \in Sinks : /\ sinkPc[s] # "absent"
                       /\ \A t \in Sinks \ {s} : sinkPc[t] = "absent"
                       => Live = {s}
  BY DEF Live
<1> QED
  BY <1>2, <1>3, <1>4, <1>5 DEF Live

LEMMA EndStep ==
    Shape /\ SendersExact /\ EndHolds /\ [Next]_vars => EndHolds'
<1> SUFFICES ASSUME Shape, SendersExact, EndHolds, [Next]_vars PROVE EndHolds'
  OBVIOUS
<1> USE DEF stateVars, tokenVars, historyVars, queueVars, LastPcs
<1>0. sinkPc \in [Sinks -> SinkPcs]
  BY DEF Shape
<1>1. ASSUME NEW s \in Sinks, Emit(s) PROVE EndHolds'
  <2>1. status = NoStatus /\ UNCHANGED <<status, closeRefused, reader, abandoned>>
    BY <1>1 DEF Emit, Open
  <2>2. sinkPc[s] = "idle" /\ reader # "ended"
    BY <1>1, <2>1 DEF Emit, SinkMoves, EndHolds
  <2>3. \/ SinkMoves(s, "idle", "notify") /\ UNCHANGED overflowed
        \/ SinkMoves(s, "idle", "overflow")
    BY <1>1 DEF Emit
  <2> QED
    BY <1>0, <2>1, <2>2, <2>3 DEF SinkMoves, EndHolds
<1>2. ASSUME NEW s \in Sinks, EmitClose(s) PROVE EndHolds'
  <2>1. status = NoStatus /\ UNCHANGED <<status, reader, abandoned, overflowed>>
    BY <1>2 DEF EmitClose, Open
  <2>2. sinkPc[s] = "idle" /\ reader # "ended"
    BY <1>2, <2>1 DEF EmitClose, SinkMoves, EndHolds
  <2>3. \/ SinkMoves(s, "idle", "notify") /\ UNCHANGED closeRefused
        \/ UNCHANGED sinkPc
    BY <1>2 DEF EmitClose
  <2> QED
    BY <1>0, <2>1, <2>2, <2>3 DEF SinkMoves, EndHolds
<1>3. ASSUME NEW s \in Sinks, NEW outcome \in Outcomes, Finish(outcome),
             NEW to \in {"announce", "announceLast"},
             NEW from \in {"idle", "overflow", "owing"}, SinkMoves(s, from, to),
             to = "announceLast" => from = "owing",
             UNCHANGED <<reader, overflowed, abandoned>>
      PROVE  EndHolds'
  <2>1. /\ status = NoStatus /\ status' # NoStatus
        /\ UNCHANGED <<events, closeRefused>>
    BY <1>3 DEF Finish, Outcomes, NoStatus
  <2>2. reader # "ended"
    BY <1>3, <2>1 DEF SinkMoves, EndHolds
  <2> QED
    BY <1>0, <1>3, <2>1, <2>2 DEF SinkMoves, EndHolds
<1>4. ASSUME NEW s \in Sinks, Commit(s) \/ CommitOverflow(s) \/ CommitOwed(s)
      PROVE  EndHolds'
  <2>1. CASE Commit(s) \/ CommitOwed(s)
    BY <1>3, <2>1 DEF Commit, CommitOwed, Outcomes
  <2>2. CASE CommitOverflow(s) /\ Finish("stream-overflow")
    BY <1>3, <2>2 DEF CommitOverflow, Outcomes, Finish
  <2>3. CASE CommitOverflow(s) /\ status # NoStatus
    BY <1>0, <2>3 DEF CommitOverflow, Finish, SinkMoves, EndHolds
  <2> QED
    BY <1>4, <2>1, <2>2, <2>3 DEF CommitOverflow
<1>5. ASSUME NEW s \in Sinks, NotifyPushed(s) \/ Announce(s) PROVE EndHolds'
  <2>1. /\ UNCHANGED <<stateVars, abandoned, reader, overflowed>>
        /\ \/ SinkMoves(s, "notify", "idle") \/ SinkMoves(s, "announce", "idle")
           \/ SinkMoves(s, "announceLast", "leaving")
    BY <1>5 DEF NotifyPushed, Announce
  <2>2. CASE SinkMoves(s, "notify", "idle") \/ SinkMoves(s, "announce", "idle")
    BY <1>0, <2>1, <2>2 DEF SinkMoves, EndHolds
  <2>3. CASE SinkMoves(s, "announceLast", "leaving")
    BY <1>0, <2>1, <2>3 DEF SinkMoves, EndHolds
  <2> QED
    BY <2>1, <2>2, <2>3
<1>6. ASSUME NEW s \in Sinks, NEW t \in Sinks, CloneSink(s, t) PROVE EndHolds'
  BY <1>0, <1>6 DEF CloneSink, SinkMoves, EndHolds
<1>7. ASSUME NEW s \in Sinks, DropSink(s) PROVE EndHolds'
  <2>1. UNCHANGED <<stateVars, abandoned, reader, overflowed>>
    BY <1>7 DEF DropSink
  <2>2. CASE senders > 1 /\ SinkMoves(s, "idle", "absent")
    <3>1. PICK t \in Sinks \ {s} : sinkPc[t] # "absent"
      BY <2>2, SendersCount DEF SinkMoves
    <3>2. sinkPc[t] # "leaving" /\ sinkPc'[t] = sinkPc[t]
      BY <1>0, <2>2, <3>1 DEF SinkMoves, EndHolds
    <3> QED
      BY <1>0, <2>1, <2>2, <3>1, <3>2 DEF SinkMoves, EndHolds
  <2>3. CASE senders = 1 /\ SinkMoves(s, "idle", "last")
    <3>1. \A t \in Sinks \ {s} : sinkPc[t] = "absent"
      BY <2>3, SendersCount DEF SinkMoves
    <3> QED
      BY <1>0, <2>1, <2>3, <3>1 DEF SinkMoves, EndHolds
  <2> QED
    BY <1>7, <2>2, <2>3 DEF DropSink
<1>8. ASSUME NEW s \in Sinks, CheckOwed(s) PROVE EndHolds'
  <2>1. /\ UNCHANGED <<stateVars, abandoned, reader, overflowed>>
        /\ SinkMoves(s, "last", IF OwesOverflowTerminal THEN "owing" ELSE "leaving")
    BY <1>8 DEF CheckOwed
  <2>2. \A t \in Sinks \ {s} : sinkPc[t] = "absent"
    BY <2>1 DEF SinkMoves, EndHolds
  <2>3. senders = 1
    BY <2>1, <2>2, SendersCount DEF SinkMoves
  <2>4. CASE OwesOverflowTerminal
    BY <1>0, <2>1, <2>2, <2>4 DEF SinkMoves, EndHolds
  <2>5. CASE ~(closeRefused /\ status = NoStatus /\ ~abandoned)
             /\ ~OwesOverflowTerminal
    BY <1>0, <2>1, <2>2, <2>5 DEF SinkMoves, EndHolds
  <2> QED
    BY <2>3, <2>4, <2>5 DEF OwesOverflowTerminal
<1>9. ASSUME NEW s \in Sinks, RemoveSender(s) PROVE EndHolds'
  <2>1. /\ UNCHANGED <<stateVars, abandoned, reader, overflowed>>
        /\ SinkMoves(s, "leaving", "absent")
    BY <1>9 DEF RemoveSender
  <2>2. \A t \in Sinks \ {s} : sinkPc[t] = "absent"
    BY <2>1 DEF SinkMoves, EndHolds
  <2>3. \A t \in Sinks : sinkPc'[t] = "absent"
    BY <1>0, <2>1, <2>2 DEF SinkMoves
  <2>4. ~(overflowed /\ status = NoStatus)
    BY <2>1, <2>2 DEF SinkMoves, EndHolds
  <2>5. ~(closeRefused /\ status = NoStatus /\ ~abandoned)
    BY <2>1, <2>2 DEF SinkMoves, EndHolds
  <2> QED
    BY <2>1, <2>3, <2>4, <2>5 DEF EndHolds
<1>10. CASE SeeEnd
  BY <1>10, SendersCount DEF SeeEnd, Disconnected, EndHolds
<1>11. CASE TryRecv
  BY <1>11 DEF TryRecv, TakeNext, EndHolds
<1>12. CASE Arm \/ FindNothing \/ Park \/ Woken \/ CancelRecv \/ Abandon \/ ClearAbandoned
  BY <1>12 DEF Arm, FindNothing, Park, Woken, CancelRecv, Abandon, ClearAbandoned, EndHolds
<1>13. CASE UNCHANGED vars
  BY <1>13 DEF vars, EndHolds
<1> QED
  BY <1>1, <1>2, <1>4, <1>5, <1>6, <1>7, <1>8, <1>9, <1>10, <1>11, <1>12, <1>13
  DEF Next, SinkCalled, SinkCompletes, Reads

LEMMA EndInvariant == Spec => []EndHolds
<1>1. Init => EndHolds
  BY DEF Init, EndHolds, LastPcs
<1> QED
  BY <1>1, EndStep, ShapeInvariant, SendersInvariant, PTL DEF Spec

\* A stream that lost an event for room gives a reason before it ends.
THEOREM EndIsNeverSilent == Spec => []NoSilentEnd
<1>1. Shape /\ ReceiverGone /\ EndHolds /\ Faithful => NoSilentEnd
  <2> SUFFICES ASSUME Shape, ReceiverGone, EndHolds, Faithful, reader = "ended",
                      overflowed \/ closeRefused
               PROVE  status # NoStatus /\ delivered[Len(delivered)] \in Terminals
    BY DEF NoSilentEnd
  <2>1. status # NoStatus /\ events = << >> /\ terminal = << >>
    BY DEF ReceiverGone, EndHolds
  <2> DEFINE closing == TerminalEvents(status)
  <2>2. closing \in Seq(Terminals) /\ closing # << >>
    <3>1. closing # << >>
      BY <2>1 DEF Shape, TerminalEvents, Outcomes, NoStatus
    <3> QED
      BY <3>1, TerminalEventsType DEF Shape
  <2>3. delivered = accepted \o closing
    <3>1. delivered \o << >> \o << >> = accepted \o closing
      BY <2>1 DEF Faithful, TranscriptFaithful
    <3> QED
      BY <3>1, FaithfulTypes, ConcatEmptySeq
  <2> HIDE DEF closing
  <2>4. /\ accepted \in Seq(Anything) /\ closing \in Seq(Anything)
        /\ Len(accepted) \in Nat /\ Len(closing) \in Nat \ {0}
    BY <2>2, FaithfulTypes, SeqMonotonic, EmptySeq, LenProperties DEF Anything
  <2>5. /\ Len(delivered) = Len(accepted) + Len(closing)
        /\ delivered[Len(delivered)] = closing[Len(closing)]
    BY <2>3, <2>4, ConcatProperties
  <2>6. closing[Len(closing)] \in Terminals
    BY <2>2, <2>4, ElementOfSeq
  <2> QED
    BY <2>1, <2>5, <2>6
<1> QED
  BY <1>1, ShapeInvariant, ReceiverGoneInvariant, EndInvariant, FaithfulInvariant, PTL

-----------------------------------------------------------------------------
(* The buffer implements the abstract transcript.                           *)

Log  == accepted \o TerminalEvents(status)
Host == IF abandoned THEN "gone"
        ELSE IF reader = "ended" THEN "ended" ELSE "reading"

\* The abstract actions, written over the buffer's variables.
Publishes ==
    /\ status = NoStatus /\ Host = "reading"
    /\ \E event \in Event : Log' = Append(Log, event)
    /\ status' = status /\ delivered' = delivered /\ Host' = Host

Decides ==
    /\ status = NoStatus /\ Host # "ended"
    /\ status' \in Outcomes
    /\ Log' = Log \o TerminalEvents(status')
    /\ delivered' = delivered /\ Host' = Host

ReadsNext ==
    /\ Host = "reading" /\ Len(delivered) < Len(Log)
    /\ delivered' = Append(delivered, Log[Len(delivered) + 1])
    /\ Log' = Log /\ status' = status /\ Host' = Host

SeesEnd ==
    /\ Host = "reading" /\ delivered = Log
    /\ Host' = "ended"
    /\ Log' = Log /\ status' = status /\ delivered' = delivered

Leaves ==
    /\ Host # "gone" /\ Host' = "gone"
    /\ Log' = Log /\ status' = status /\ delivered' = delivered

Stutters ==
    Log' = Log /\ status' = status /\ delivered' = delivered /\ Host' = Host

AbstractStep ==
    Publishes \/ Decides \/ ReadsNext \/ SeesEnd \/ Leaves \/ Stutters

LEMMA AbstractStepIsOne == AbstractStep => [Transcript!Next]_(Transcript!vars)
BY DEF AbstractStep, Publishes, Decides, ReadsNext, SeesEnd, Leaves, Stutters,
       Log, Host, Transcript!Next, Transcript!vars, Transcript!Publish,
       Transcript!Decide, Transcript!Read, Transcript!End, Transcript!Leave

\* Nothing is left to be said of a turn whose end the host saw.
LEMMA LiveSinkKeepsHost ==
    ASSUME EndHolds, status = NoStatus, NEW s \in Sinks, sinkPc[s] # "absent"
    PROVE  Host # "ended" /\ (~abandoned => Host = "reading")
BY DEF EndHolds, Host

LEMMA PushPublishes ==
    ASSUME Shape, EndHolds, NEW s \in Sinks, Emit(s) \/ EmitClose(s)
    PROVE  AbstractStep
<1>1. /\ status = NoStatus /\ ~abandoned /\ sinkPc[s] = "idle"
      /\ UNCHANGED <<status, delivered, abandoned, reader>>
  BY DEF Emit, EmitClose, Open, SinkMoves, tokenVars
<1>2. CASE UNCHANGED accepted
  BY <1>1, <1>2 DEF AbstractStep, Stutters, Log, Host
<1>3. CASE \E class \in Classes, bytes \in Sizes :
              Len(accepted) < MaxEvents /\ Enqueue(class, bytes)
  <2>1. PICK event \in Event : accepted' = Append(accepted, event)
    BY <1>3, PushType
  <2>2. accepted' \in Seq(Anything) /\ accepted \in Seq(Anything)
    BY <2>1, FaithfulTypes, AppendProperties DEF Anything
  <2>3. Log = accepted /\ Log' = accepted'
    BY <1>1, <2>2, NoTerminalYet, ConcatEmptySeq DEF Log
  <2>4. Host = "reading" /\ Host' = Host
    BY <1>1, LiveSinkKeepsHost DEF Host
  <2> QED
    BY <1>1, <2>1, <2>3, <2>4 DEF AbstractStep, Publishes
<1> QED
  BY <1>2, <1>3 DEF Emit, EmitClose, Classes

LEMMA FinishDecides ==
    ASSUME Shape, EndHolds, NEW s \in Sinks, sinkPc[s] # "absent",
           NEW outcome \in Outcomes, Finish(outcome),
           UNCHANGED <<accepted, delivered, abandoned, reader>>
    PROVE  AbstractStep
<1>1. status = NoStatus /\ status' = outcome
  BY DEF Finish
<1>2. Log = accepted /\ Log' = accepted \o TerminalEvents(outcome)
  BY <1>1, NoTerminalYet, FaithfulTypes, ConcatEmptySeq DEF Log
<1>3. Host # "ended" /\ Host' = Host
  BY <1>1, LiveSinkKeepsHost DEF Host
<1> QED
  BY <1>1, <1>2, <1>3 DEF AbstractStep, Decides

LEMMA TakeReads ==
    ASSUME Shape, ReceiverGone, Faithful, TryRecv
    PROVE  AbstractStep
<1> DEFINE left == events \o terminal
           next == IF events # << >> THEN Head(events) ELSE Head(terminal)
<1>1. /\ reader \in {"idle", "armed"} /\ reader' = "idle" /\ ~abandoned
      /\ UNCHANGED <<accepted, status, abandoned>>
  BY DEF TryRecv, ReceiverGone, tokenVars
<1>2. delivered' = Append(delivered, next) /\ (events # << >> \/ terminal # << >>)
  BY DEF TryRecv, TakeNext
<1>3. Log = delivered \o left
  <2>1. delivered \o (events \o terminal) = (delivered \o events) \o terminal
    BY FaithfulTypes, ConcatAssociative, SMTT(30)
  <2> QED
    BY <1>1, <2>1 DEF Faithful, TranscriptFaithful, Log
<1>4. left \in Seq(Anything) /\ Len(left) \in Nat \ {0} /\ left[1] = next
  <2>1. CASE events # << >>
    <3>1. Len(events) \in Nat \ {0} /\ Len(terminal) \in Nat
      BY <2>1, FaithfulTypes, EmptySeq, LenProperties
    <3> QED
      BY <2>1, <3>1, FaithfulTypes, ConcatProperties
  <2>2. CASE events = << >> /\ terminal # << >>
    <3>1. left = terminal /\ Len(terminal) \in Nat \ {0}
      BY <2>2, FaithfulTypes, EmptySeq, ConcatEmptySeq
    <3> QED
      BY <2>2, <3>1, FaithfulTypes
  <2> QED
    BY <1>2, <2>1, <2>2
<1> HIDE DEF left, next
<1>5. /\ Len(delivered) \in Nat /\ Len(Log) = Len(delivered) + Len(left)
      /\ Log[Len(delivered) + 1] = next
  BY <1>3, <1>4, FaithfulTypes, LenProperties, ConcatProperties
<1>6. Len(delivered) < Len(Log)
  BY <1>4, <1>5
<1>7. Host = "reading" /\ Host' = Host /\ Log' = Log
  BY <1>1 DEF Host, Log
<1> QED
  BY <1>1, <1>2, <1>5, <1>6, <1>7 DEF AbstractStep, ReadsNext

LEMMA SeeEndEnds ==
    ASSUME Shape, ReceiverGone, Faithful, SeeEnd
    PROVE  AbstractStep
<1>1. /\ reader = "armed" /\ reader' = "ended" /\ ~abandoned
      /\ UNCHANGED <<accepted, status, delivered, abandoned>>
      /\ events = << >> /\ terminal = << >>
  BY DEF SeeEnd, Disconnected, ReceiverGone, stateVars, tokenVars, historyVars
<1>2. delivered \o << >> \o << >> = Log
  BY <1>1 DEF Faithful, TranscriptFaithful, Log
<1>3. delivered = Log
  BY <1>2, FaithfulTypes, ConcatEmptySeq
<1>4. Host = "reading" /\ Host' = "ended" /\ Log' = Log
  BY <1>1 DEF Host, Log
<1> QED
  BY <1>1, <1>3, <1>4 DEF AbstractStep, SeesEnd

LEMMA StepImplements ==
    Shape /\ ReceiverGone /\ EndHolds /\ Faithful /\ [Next]_vars => AbstractStep
<1> SUFFICES ASSUME Shape, ReceiverGone, EndHolds, Faithful, [Next]_vars
             PROVE  AbstractStep
  OBVIOUS
<1> USE DEF stateVars, tokenVars, historyVars
<1>1. CASE UNCHANGED <<accepted, status, delivered, abandoned>>
           /\ (reader = "ended" <=> reader' = "ended")
  BY <1>1 DEF AbstractStep, Stutters, Log, Host
<1>2. ASSUME NEW s \in Sinks, Emit(s) \/ EmitClose(s) PROVE AbstractStep
  BY <1>2, PushPublishes
<1>3. ASSUME NEW s \in Sinks, Commit(s) \/ CommitOverflow(s) \/ CommitOwed(s)
      PROVE  AbstractStep
  <2>1. UNCHANGED <<accepted, delivered, abandoned, reader>> /\ sinkPc[s] # "absent"
    BY <1>3 DEF Commit, CommitOverflow, CommitOwed, SinkMoves
  <2>2. (\E outcome \in Outcomes : Finish(outcome)) \/ UNCHANGED stateVars
    BY <1>3 DEF Commit, CommitOverflow, CommitOwed, Outcomes
  <2> QED
    BY <1>1, <2>1, <2>2, FinishDecides
<1>4. ASSUME NEW s \in Sinks,
             \/ NotifyPushed(s) \/ Announce(s) \/ RemoveSender(s) \/ DropSink(s)
             \/ CheckOwed(s) \/ \E t \in Sinks : CloneSink(s, t)
      PROVE  AbstractStep
  BY <1>1, <1>4
  DEF NotifyPushed, Announce, RemoveSender, DropSink, CheckOwed, CloneSink
<1>5. CASE TryRecv
  BY <1>5, TakeReads
<1>6. CASE SeeEnd
  BY <1>6, SeeEndEnds
<1>7. CASE Arm \/ FindNothing \/ Park \/ Woken \/ CancelRecv
  BY <1>1, <1>7 DEF Arm, FindNothing, Park, Woken, CancelRecv
<1>8. CASE Abandon
  <2>1. ~abandoned /\ abandoned' /\ UNCHANGED <<accepted, status, delivered>>
    BY <1>8 DEF Abandon, ReceiverGone
  <2> QED
    BY <2>1 DEF AbstractStep, Leaves, Log, Host
<1>9. CASE ClearAbandoned
  BY <1>1, <1>9 DEF ClearAbandoned
<1>10. CASE UNCHANGED vars
  BY <1>1, <1>10 DEF vars
<1> QED
  BY <1>2, <1>3, <1>4, <1>5, <1>6, <1>7, <1>8, <1>9, <1>10
  DEF Next, SinkCalled, SinkCompletes, Reads

\* Every behaviour of sinks, buffer and receiver is one of the abstract
\* transcript: a log closed by one outcome, read once and in order.
THEOREM Implements == Spec => ImplementsTranscript
<1>1. Init => Transcript!Init
  <2>1. << >> \o << >> = << >>
    BY EmptySeq, ConcatEmptySeq
  <2> QED
    BY <2>1, NoTerminalYet DEF Init, Transcript!Init
<1>2. Shape /\ ReceiverGone /\ EndHolds /\ Faithful /\ [Next]_vars
        => [Transcript!Next]_(Transcript!vars)
  BY StepImplements, AbstractStepIsOne
<1> QED
  BY <1>1, <1>2, ShapeInvariant, ReceiverGoneInvariant, EndInvariant,
     FaithfulInvariant, PTL
  DEF Spec, ImplementsTranscript, Transcript!Spec

=============================================================================
