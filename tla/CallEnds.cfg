SPECIFICATION FairSpec
CONSTANTS
    alice = alice
    bob = bob
    s1 = s1
    Null = Null
    Peer = {alice, bob}
    Sid = {s1}
    Initiator <- MCInitiator
    Responder <- MCResponder
    Offer <- MCOffer
    Commands <- MCCommands
    GingleSids = {}
    Offered = "good"
    CallerMay = {"CALL", "END"}
    CalleeMay = {"ACCEPT", "DECLINE", "BUSY"}
    Env = {}
    Again = {}
    MaxQueue = 2
PROPERTY RingingEnds
PROPERTY CalleeCallGoes
\* Clients may idle for ever.
CHECK_DEADLOCK FALSE
