SPECIFICATION FairSpec
CONSTANTS
    Task = {t1, t2, t3}
    Runner = Runner
    None = None
    MaxSteps = 1
INVARIANT TypeOK
INVARIANT NoDangling
INVARIANT DoneTreeIsDone
INVARIANT NobodyForgotten
PROPERTY AbortedIsDeleted
\* Tasks may block for ever, and the runner is destroyed.
CHECK_DEADLOCK FALSE
