\* Units of 50 ms: wake gap 100 ms, ticker 200 ms, firmware gap 250 ms.  The 500 ms of
\* quiescence are 300 ms here; a start-up of up to 350 ms outlasts them.  Timeout is the
\* least that TimeEnough allows: the start-up, Top periods, and a quiescence window with the
\* goroutine's lags for the last height and for a stray one.
CONSTANTS
    Kinds = {"timed", "move", "preset"}
    Top = 2
    Tolerance = 0
    WakeGap = 2
    Pulse = 4
    Timeout = 28
    Quiescence = 6
    Gap = 5
    MaxStart = 7
    Period = 2
    Jitter = 1
    MaxStall = 3
    MaxFaults = 1
    MaxStrays = 1
SPECIFICATION FairSpec
INVARIANTS
    TypeOK
    PulsesBridgeTheGap
    AnswersTruthfully
    RestsSoonAfter
    DrainBound
PROPERTIES
    ImplementsMotionCall
    CallReturns
