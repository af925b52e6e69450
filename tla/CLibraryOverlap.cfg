\* Two overlapping waits on one desk.
CONSTANTS
    c1 = c1
    c2 = c2
    h1 = h1
    NoCall = NoCall
    Calls = {c1, c2}
    Handles = {h1}
    Ops <- AllOps
SPECIFICATION Spec
INVARIANTS
    SomeWaitCancellable
CHECK_DEADLOCK FALSE
