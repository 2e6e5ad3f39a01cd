SPECIFICATION Spec
CONSTANTS
    alice = alice
    bob = bob
    s1 = s1
    s2 = s2
    Null = Null
    Peer = {alice, bob}
    Sid = {s1, s2}
    Initiator <- MCInitiator
    Responder <- MCResponder
    Offer <- MCOffer
    Commands <- MCCommands
    GingleSids = {}
    AliceMay = {"CALL", "ACCEPT", "HOLD", "UNHOLD"}
    BobMay = {"CALL", "ACCEPT"}
    Env = {}
    Again = {}
    MaxQueue = 1
INVARIANT TypeOK
INVARIANT SessionsAndCallsAgree
INVARIANT CallPointersAlive
CHECK_DEADLOCK FALSE
