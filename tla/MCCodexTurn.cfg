SPECIFICATION FairSpec
CONSTANTS
    a = a
    b = b
    Owners = {a, b}
    NoOwner = NoOwner
    MaxFrames = 1
    MaxAttempts = 1
INVARIANTS
    NamesItsOwnTurn
    TeardownEndsEveryTurn
PROPERTIES
    ImplementsAdmission
    CancelledIsAskedFor
    StopFreesTheSlot
    SessionEnds
CHECK_DEADLOCK FALSE
