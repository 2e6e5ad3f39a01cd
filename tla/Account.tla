------------------------------ MODULE Account ------------------------------
(***************************************************************************)
(* What the voice client promises the application about its account: a     *)
(* login attempt is connecting before it is online, attempts are numbered  *)
(* one after the other, one that ended does not come back, and a client    *)
(* that died stays dead.  Which authentication brings an attempt online is *)
(* not said.                                                               *)
(***************************************************************************)
EXTENDS Naturals

VARIABLES
    status,   \* "offline", "connecting", "online" or "dead"
    attempt   \* the number of login attempts so far

vars == <<status, attempt>>

Init == status = "offline" /\ attempt = 0

Begin ==
    /\ status # "dead"
    /\ status' = "connecting"
    /\ attempt' = attempt + 1

Succeed ==
    /\ status = "connecting"
    /\ status' = "online"
    /\ UNCHANGED attempt

End ==
    /\ status \in {"connecting", "online"}
    /\ status' = "offline"
    /\ UNCHANGED attempt

Die ==
    /\ status' = "dead"
    /\ UNCHANGED attempt

Next == Begin \/ Succeed \/ End \/ Die

Spec == Init /\ [][Next]_vars
=============================================================================
