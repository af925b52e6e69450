\* Three processes: one runs, one leaves a file behind, a third arrives.
CONSTANTS
    d1 = d1
    d2 = d2
    d3 = d3
    NoDaemon = NoDaemon
    Daemons = {d1, d2, d3}
    c1 = c1
    c2 = c2
    Clients = {c1, c2}
SPECIFICATION ClientsSpec
INVARIANTS
    ReachableWhenAlone
    CleanExitsLeaveNothing
PROPERTIES
    StaleFileIsNoObstacle
    PollingIsServed
\* Every process has ended.
CHECK_DEADLOCK FALSE
