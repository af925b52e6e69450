\* Two attempts one after the other.
CONSTANTS
    a1 = a1
    a2 = a2
    NoAttempt = NoAttempt
    Attempts = {a1, a2}
    MaxOps = 2
SPECIFICATION Spec
INVARIANTS
    NoOrphanLink
CHECK_DEADLOCK FALSE
