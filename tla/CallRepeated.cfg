SPECIFICATION Spec
CONSTANTS
    alice = alice
    bob = bob
    s1 = s1
    Null = Null
    Peer = {alice, bob}
    Sid = {s1}
    Initiator <- MCInitiator
    Responder <- MCResponder
    Offer <- MCOffer
    Commands <- MCCommands
    GingleSids = {}
    Offered = "good"
    CallerMay = {"CALL"}
    CalleeMay = {"ACCEPT", "END"}
    Env = {"transport"}
    Again = {"accept"}
    MaxQueue = 2
INVARIANT InProgressWasAccepted
INVARIANT NoAnswerTimerOnlyUnanswered
PROPERTY KeepsPromise
\* Clients may idle for ever.
CHECK_DEADLOCK FALSE
