SPECIFICATION Spec
CONSTANTS
    s1 = s1
    s2 = s2
    Sinks = {s1, s2}
    Sizes = {1, 2, 5}
    TurnChannelCapacity = 2
    MaxPendingRequests = 1
    TurnBufferBytes = 8
    InteractionEventBytes = 2
    MaxEvents = 3
SYMMETRY Symmetry
INVARIANT
    OverflowNeverCompletes
CHECK_DEADLOCK FALSE
