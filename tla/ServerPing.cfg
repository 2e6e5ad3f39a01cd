SPECIFICATION Spec
CONSTANTS
    Period = 3
    Timeout = 2
    KeepAlive = 4
    Wrap = 25
    Start = 3
    Lag = 1
    MaxTime = 18
    MaxNow = 1
    Never = Never
INVARIANT TypeOK
INVARIANT TimeoutExplained
INVARIANT NeverForgotten
INVARIANT DeadServerNoticed
\* The tasks end, and the watch ends at MaxTime.
CHECK_DEADLOCK FALSE
