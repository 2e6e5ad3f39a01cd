SPECIFICATION FairSpec
CONSTANTS
    Commands = {"CALL", "END", "SEND", "DISCONNECT"}
    Env = {"badpassword", "badinput", "drop"}
    MaxLogins = 3
    MaxQueue = 2
INVARIANT TypeOK
INVARIANT ObjectsTogether
INVARIANT StaleNeverSpeaks
INVARIANT TimedUntilOpen
INVARIANT OpenHasItsObjects
PROPERTY KeepsAccount
PROPERTY LoginSettles
\* A process that died, or whose stream is gone, stops.
CHECK_DEADLOCK FALSE
