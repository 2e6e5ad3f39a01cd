SPECIFICATION FairSpec
CONSTANTS
    Outgoing = {o1}
    Incoming = {i1, i2}
    NoCall = NoCall
    MaxQueue = 2
INVARIANT TypeOK
INVARIANT NoDeafScreen
INVARIANT RightCallsEnd
INVARIANT IdExplained
PROPERTY ClosedEnds
\* The users may do nothing for ever.
CHECK_DEADLOCK FALSE
