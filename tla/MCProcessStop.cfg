SPECIFICATION FairSpec
CONSTANTS
    worker = worker
    first = first
    second = second
    h1 = h1
    h2 = h2
    Worker = worker
    Callers = {worker, first, second}
    Helpers = {h1, h2}
INVARIANTS
    OkProvesTreeGone
PROPERTIES
    AbandonedTreeEnds
    CallsAnswer
