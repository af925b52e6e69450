\* Two connections: of a command-line process and the stop it may send, or of other
\* clients.  Each may overtake, follow or outlive the other.
CONSTANTS
    r1 = r1
    r2 = r2
    s1 = s1
    NoRequest = NoRequest
    Requests = {r1, r2}
    Shells = {s1}
    Commands <- EveryWait
SPECIFICATION LineSpec
INVARIANTS
    ExitMeansRest
PROPERTIES
    EveryRequestAnswered
    QuitStops
    InterruptedExits
\* The process exits, or every connection has been served.
CHECK_DEADLOCK FALSE
