SPECIFICATION Spec
CONSTANTS
    direct = direct
    submitted = submitted
    Calls = {direct, submitted}
    Submitted = {submitted}
    Ordered = {submitted}
    Counted = {direct, submitted}
    CancelOnAbandon = TRUE
    MaxPendingRequests = 1
    NoCall = NoCall
INVARIANTS
    NobodyForgotten
    NoOrphanEntry
    PlacesComeBack
    FailureNamesTheEnd
PROPERTIES
    ImplementsContract
CHECK_DEADLOCK FALSE
