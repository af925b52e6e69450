\* Two processes: the second finds the first one running.
CONSTANTS
    d1 = d1
    d2 = d2
    NoDaemon = NoDaemon
    Daemons = {d1, d2}
SPECIFICATION Spec
INVARIANTS
    RunningIsReachable
\* Every process has ended.
CHECK_DEADLOCK FALSE
