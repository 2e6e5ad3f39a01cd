--------------------------- MODULE MCCallSession ---------------------------
EXTENDS CallSession
CONSTANTS alice, bob, s1, CallerMay, CalleeMay, Offered
MCInitiator == [s \in {s1} |-> alice]
MCResponder == [s \in {s1} |-> bob]
MCOffer == [s \in {s1} |-> Offered]
MCCommands == [p \in {alice, bob} |-> IF p = alice THEN CallerMay ELSE CalleeMay]
=============================================================================
