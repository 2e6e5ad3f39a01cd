SPECIFICATION FairSpec
CONSTANTS
    Thread = {a, b}
    Quitting = {b}
    MaxSends = 3
    MaxPosts = 2
INVARIANT TypeOK
INVARIANT SenderWaits
INVARIANT InOnePlace
INVARIANT NoLostWakeup
INVARIANT NoDeadlock
PROPERTY SendsReturn
PROPERTY PostsDispatched
\* All threads may be idle or gone.
CHECK_DEADLOCK FALSE
