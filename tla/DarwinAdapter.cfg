\* Two attempts one after the other, the second on a stack that may not be at rest.
CONSTANTS
    a1 = a1
    a2 = a2
    NoAttempt = NoAttempt
    Attempts = {a1, a2}
    MaxOps = 5
SPECIFICATION FairSpec
INVARIANTS
    TypeOK
    DelegateNeverStuck
    OwnEvents
    NoNotificationLost
    NoOrphanFromRest
PROPERTIES
    AttemptReturns
\* Every attempt has ended.
CHECK_DEADLOCK FALSE
