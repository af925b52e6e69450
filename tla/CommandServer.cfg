\* Three connections: one runs, one waits for the mutex, a third overtakes both.
CONSTANTS
    r1 = r1
    r2 = r2
    r3 = r3
    NoRequest = NoRequest
    Requests = {r1, r2, r3}
    Commands <- OneOfEach
SPECIFICATION Spec
SYMMETRY Connections
INVARIANTS
    TypeOK
    OnlyOvertakenRefused
    StopIsFinal
    DeskRestsWhenFree
PROPERTIES
    DispatchInOrder
    ImplementsLatestWins
    MotionsAreCalls
\* The process exits, or every connection has been served.
CHECK_DEADLOCK FALSE
