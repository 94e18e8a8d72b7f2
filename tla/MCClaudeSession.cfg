SPECIFICATION Spec
CONSTANTS
    a = a
    b = b
    Attempts = {a, b}
    NoAttempt = NoAttempt
    MaxEvents = 1
SYMMETRY Symmetry
VIEW Seen
INVARIANTS
    ConfigurationOutlivesChild
    StopHasAnAnswerer
    SlotIsOwned
    ResumableIsEarned
PROPERTIES
    ImplementsAdmission
CHECK_DEADLOCK FALSE
