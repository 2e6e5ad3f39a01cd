SPECIFICATION Spec
CONSTANTS
    alice = alice
    bob = bob
    s1 = s1
    Null = Null
    Peer = {alice, bob}
    Sid = {s1}
    Initiator <- MCInitiator
    Responder <- MCResponder
    Offer <- MCOffer
    Commands <- MCCommands
    GingleSids = {s1}
    Offered = "nocodec"
    CallerMay = {"CALL", "END"}
    CalleeMay = {"ACCEPT", "DECLINE", "END"}
    Env = {"slow", "candidates", "loss"}
    Again = {}
    MaxQueue = 2
INVARIANT DoomedIsQueued
\* Clients may idle for ever.
CHECK_DEADLOCK FALSE
