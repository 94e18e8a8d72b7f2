SPECIFICATION FairSpec
CONSTANTS
    s1 = s1
    s2 = s2
    Sinks = {s1, s2}
    Sizes = {1, 5}
    TurnChannelCapacity = 2
    MaxPendingRequests = 1
    TurnBufferBytes = 8
    InteractionEventBytes = 2
    MaxEvents = 3
INVARIANTS
    BudgetExact
    InteractionAlwaysFits
    NoPayloadBehindRefusedClose
    NoSilentEnd
    DroppedReceiverHoldsNothing
PROPERTIES
    ImplementsTranscript
    ParkedReaderWakes
    EndReachesReader
CHECK_DEADLOCK FALSE
