SPECIFICATION Spec
CONSTANTS
    alice = alice
    bob = bob
    s1 = s1
    Null = Null
    Peer = {alice, bob}
    Sid = {s1}
    Initiator <- MCInitiator
    Responder <- MCResponder
    Offer <- MCOffer
    Commands <- MCCommands
    GingleSids = {}
    Offered = "unusable"
    CallerMay = {"CALL"}
    CalleeMay = {"DISCONNECT"}
    Env = {}
    Again = {}
    MaxQueue = 2
INVARIANT NoSessionsLeft
\* Clients may idle for ever.
CHECK_DEADLOCK FALSE
