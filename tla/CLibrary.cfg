\* Three calls of any kind, from any threads, on one desk.
CONSTANTS
    c1 = c1
    c2 = c2
    c3 = c3
    h1 = h1
    NoCall = NoCall
    Calls = {c1, c2, c3}
    Handles = {h1}
    Ops <- AllOps
SPECIFICATION Spec
INVARIANTS
    LoneWaitCancellable
    MotionEndsWithItsCall
    RegistriesExact
PROPERTIES
    MotionsAreCalls
\* Every call has returned, or the process is gone.
CHECK_DEADLOCK FALSE
