SPECIFICATION Spec
CONSTANTS
    worker = worker
    first = first
    second = second
    h1 = h1
    h2 = h2
    Worker = worker
    Callers = {worker, first}
    Helpers = {h1}
INVARIANTS
    EscalationSparesStrangers
