------------------------------ MODULE MCGlare ------------------------------
(* Two clients that call each other: alice on s1, bob on s2. *)
EXTENDS CallSession

CONSTANTS alice, bob, s1, s2, AliceMay, BobMay

MCInitiator == [s \in {s1, s2} |-> IF s = s1 THEN alice ELSE bob]
MCResponder == [s \in {s1, s2} |-> IF s = s1 THEN bob ELSE alice]
MCOffer == [s \in {s1, s2} |-> "good"]
MCCommands == [p \in {alice, bob} |-> IF p = alice THEN AliceMay ELSE BobMay]
=============================================================================
