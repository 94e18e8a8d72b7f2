SPECIFICATION Spec
CONSTANTS
    p = p
    q = q
    Approvals = {p}
    Questions = {q}
    Turns = {{p}, {q}}
INVARIANTS
    EveryApprovalIsSettled
CHECK_DEADLOCK FALSE
