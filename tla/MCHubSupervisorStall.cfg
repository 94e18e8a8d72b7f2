SPECIFICATION Spec
CONSTANTS
    completed = completed
    failed = failed
    NoTerminal = NoTerminal
    Terminals = {completed, failed}
    MaxAttempt = 3
INVARIANTS
    WithdrawalNeverStalls
