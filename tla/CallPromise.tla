---------------------------- MODULE CallPromise ----------------------------
(***************************************************************************)
(* What a call promises its two users, with no sessions, stanzas or timers:*)
(* the callee's phone rings before it talks and rings again before it      *)
(* talks again, and the caller talks only to somebody who answered.        *)
(***************************************************************************)
EXTENDS Naturals

CONSTANT Sid

VARIABLES
    callee,    \* [Sid -> {"idle", "ringing", "talking", "over"}]
    answered,  \* the calls a callee has ever answered
    talking    \* the calls the caller is talking on

vars == <<callee, answered, talking>>

Init ==
    /\ callee = [s \in Sid |-> "idle"]
    /\ answered = {}
    /\ talking = {}

Ring(s) ==
    /\ callee[s] = "idle"
    /\ callee' = [callee EXCEPT ![s] = "ringing"]
    /\ UNCHANGED <<answered, talking>>

\* Refused without ringing: the callee has no codec for it.
Refuse(s) ==
    /\ callee[s] = "idle"
    /\ callee' = [callee EXCEPT ![s] = "over"]
    /\ UNCHANGED <<answered, talking>>

Answer(s) ==
    /\ callee[s] = "ringing"
    /\ callee' = [callee EXCEPT ![s] = "talking"]
    /\ answered' = answered \cup {s}
    /\ UNCHANGED talking

HangUp(s) ==
    /\ callee[s] \in {"ringing", "talking"}
    /\ callee' = [callee EXCEPT ![s] = "over"]
    /\ UNCHANGED <<answered, talking>>

Forget(s) ==
    /\ callee[s] = "over"
    /\ callee' = [callee EXCEPT ![s] = "idle"]
    /\ UNCHANGED <<answered, talking>>

CallerTalks(s) ==
    /\ s \in answered
    /\ talking' = talking \cup {s}
    /\ UNCHANGED <<callee, answered>>

CallerStops(s) ==
    /\ s \in talking
    /\ talking' = talking \ {s}
    /\ UNCHANGED <<callee, answered>>

\* A client that disconnects drops all its calls at once.
Drop(S, T) ==
    /\ callee' = [s \in Sid |-> IF s \in S THEN "idle" ELSE callee[s]]
    /\ talking' = talking \ T
    /\ UNCHANGED answered

Next ==
    \/ \E s \in Sid : \/ Ring(s) \/ Refuse(s) \/ Answer(s) \/ HangUp(s)
                      \/ Forget(s) \/ CallerTalks(s) \/ CallerStops(s)
    \/ \E S, T \in SUBSET Sid : Drop(S, T)

Spec == Init /\ [][Next]_vars
=============================================================================
