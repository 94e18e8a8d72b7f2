SPECIFICATION FairSpec
CONSTANTS
    completed = completed
    failed = failed
    NoTerminal = NoTerminal
    Terminals = {completed, failed}
    MaxAttempt = 3
INVARIANTS
    AtMostOneExecution
    StoppedIsConfirmed
PROPERTIES
    OverIsFinal
    StopEndsTheRun
    ImplementsOperation
