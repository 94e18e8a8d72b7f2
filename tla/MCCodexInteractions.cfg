SPECIFICATION FairSpec
CONSTANTS
    p = p
    q = q
    Approvals = {p}
    Questions = {q}
    Turns = {{p}, {q}}
INVARIANTS
    EveryRoundIsSettled
    ResolvedOnce
    HostAndServerAgree
PROPERTIES
    EveryRoundIsAnswered
CHECK_DEADLOCK FALSE
