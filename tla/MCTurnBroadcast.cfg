SPECIFICATION FairSpec
CONSTANTS
    w1 = w1
    w2 = w2
    p1 = p1
    Subscribers = {w1, w2}
    Publishers = {p1}
    Sizes = {1, 4}
    Capacity = 2
    MaxRetainedBytes = 3
    MaxEvents = 3
INVARIANTS
    NothingLostSilently
    NewestSurvives
    EndComesLast
PROPERTY
    ParkedWatcherWakes
CHECK_DEADLOCK FALSE
