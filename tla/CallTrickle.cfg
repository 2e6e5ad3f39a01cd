SPECIFICATION Spec
CONSTANTS
    alice = alice
    bob = bob
    s1 = s1
    Null = Null
    Peer = {alice, bob}
    Sid = {s1}
    Initiator <- MCInitiator
    Responder <- MCResponder
    Offer <- MCOffer
    Commands <- MCCommands
    GingleSids = {}
    Offered = "good"
    CallerMay = {"CALL", "DISCONNECT"}
    CalleeMay = {"ACCEPT", "END"}
    Env = {"candidates"}
    Again = {}
    MaxQueue = 2
INVARIANT CandidatesFollowInitiate
INVARIANT RingingWillEnd
PROPERTY OnlyLateAckRevives
\* Clients may idle for ever.
CHECK_DEADLOCK FALSE
