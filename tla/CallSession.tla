---------------------------- MODULE CallSession ----------------------------
(***************************************************************************)
(* The signalling of voice calls between clients: cricket::Session, the    *)
(* cricket::Call that owns it, MediaSessionClient, SessionManager, the     *)
(* SessionSendTasks and the call half of ClientSignalingThread.            *)
(*                                                                         *)
(* Every client runs all of this on ONE signalling thread, so a client is  *)
(* a record (an "endpoint") that handlers take and return, and an action   *)
(* is the dispatch of one message of that thread.  Code that runs inside   *)
(* one handler is the composition of operators on the endpoint.            *)
(*                                                                         *)
(* A session is named by its Jingle sid.  Multi-session calls are off, so  *)
(* a call owns one session and is named by the sid of that session.        *)
(***************************************************************************)
EXTENDS Naturals, Sequences

CONSTANTS
    Peer,        \* the clients
    Sid,         \* session ids; each is used for one call attempt
    Initiator,   \* [Sid -> Peer]: who calls ...
    Responder,   \* ... and who is called
    Offer,       \* [Sid -> OfferKind]: what the initiate of a sid offers
    GingleSids,  \* the sids whose responder answers in Gingle, not Jingle
    Null,        \* no call
    Commands,    \* [Peer -> SUBSET Command]: what each user may ask for
    Again,       \* the actions (Act) the server may deliver again
    Env,         \* what else the surroundings may do, a subset of EnvKind
    MaxQueue     \* bound: nothing is added from outside to a longer queue

OfferKind == {"good", "nocodec", "unusable"}

EnvKind == {"transport",    \* the media path comes and goes
            "candidates",   \* local candidates are gathered
            "slow",         \* a response takes longer than a send task waits
            "reorder",      \* a terminate may overtake what was sent before
            "loss"}         \* a stanza may be lost with a dropped connection

\* Jingle actions as they are on the wire: a Jingle reject IS a
\* session-terminate (with reason busy or another); only Gingle has "reject".
Act == {"initiate", "accept", "terminate", "busy", "reject", "info"}

\* The user's operations that ClientSignalingThread posts to its thread.
Command == {"CALL", "ACCEPT", "DECLINE", "BUSY", "END", "HOLD", "UNHOLD",
            "DISCONNECT"}

ASSUME RouteAssumption ==
    /\ Initiator \in [Sid -> Peer]
    /\ Responder \in [Sid -> Peer]
    /\ \A s \in Sid : Initiator[s] # Responder[s]

ASSUME ParameterAssumption ==
    /\ Offer \in [Sid -> OfferKind]
    /\ GingleSids \subseteq Sid
    /\ Null \notin Sid
    /\ Commands \in [Peer -> SUBSET Command]
    /\ Again \subseteq Act
    /\ Env \subseteq EnvKind
    /\ MaxQueue \in Nat

VARIABLES
    ep,     \* [Peer -> Endpoint]
    net,    \* stanzas on their way through the server
    sent    \* every stanza ever sent

vars == <<ep, net, sent>>

-----------------------------------------------------------------------------
(* Vocabulary *)

\* BaseSession::State.  "NONE": there is no Session object.  The states that
\* no code sets (PRACCEPT, MODIFY, REDIRECT, RECEIVEDREJECT) are left out.
Terminal == {"SENTBUSY", "SENTREJECT", "RECEIVEDBUSY",
             "SENTTERMINATE", "RECEIVEDTERMINATE"}

Initiating == {"SENTINITIATE", "RECEIVEDINITIATE_ACK"}

State == {"NONE", "INIT", "RECEIVEDINITIATE", "SENTACCEPT", "RECEIVEDACCEPT",
          "INPROGRESS"} \cup Initiating \cup Terminal

Error == {"NONE", "TIME", "RESPONSE", "ACK_TIME"}

\* "wait" is an iq error of type wait or continue.
Kind == {"set", "result", "error", "wait"}

Stanza == [to : Peer, sid : Sid, kind : Kind, act : Act]

\* Messages of the signalling thread.
SessionMsg == {"MSG_STATE", "MSG_ERROR"}
QueueMsg == [id : SessionMsg \cup Command \cup Kind \cup
                  {"MSG_CHECKAUTODESTROY", "CLEARED"},
             sid : Sid, act : Act \cup {"-"}]

SessionTimer == {"MSG_TIMEOUT", "MSG_INIT_ACK_TIMEOUT"}
Timer == SessionTimer \cup {"MSG_TERMINATECALL"}

Endpoint ==
    [state   : [Sid -> State],       \* session_map_ and Session::state_
     error   : [Sid -> Error],       \* Session::error_
     acked   : SUBSET Sid,           \* Session::initiate_acked_
     cands   : [Sid -> {"none", "unsent", "sent"}],  \* local candidates
     calls   : SUBSET Sid,           \* MediaSessionClient::calls_
     media   : SUBSET Sid,           \* calls whose media_session_map_ holds it
     call    : Sid \cup {Null},      \* ClientSignalingThread::call_
     focus   : Sid \cup {Null},      \* MediaSessionClient::focus_call_
     timers  : SUBSET (Timer \X Sid),\* delayed messages
     waiting : SUBSET (Sid \X Act),  \* SessionSendTasks awaiting a response
     queue   : Seq(QueueMsg),        \* the signalling thread's message queue
     online  : BOOLEAN,              \* the XMPP stream is open
     out     : SUBSET Stanza]        \* sent by the running handler

IdleEndpoint ==
    [state |-> [s \in Sid |-> "NONE"], error |-> [s \in Sid |-> "NONE"],
     acked |-> {}, cands |-> [s \in Sid |-> "none"],
     calls |-> {}, media |-> {}, call |-> Null, focus |-> Null,
     timers |-> {}, waiting |-> {}, queue |-> <<>>, online |-> TRUE,
     out |-> {}]

Remote(p, s) == IF p = Initiator[s] THEN Responder[s] ELSE Initiator[s]

\* SessionManager::FindSession: a session whose initiate was refused never
\* learnt its remote name, so no stanza finds it.
Found(e, s) == e.state[s] \notin {"NONE", "INIT"}

-----------------------------------------------------------------------------
(* The thread's queue and the outgoing stanzas *)

Posted(id, s) == [id |-> id, sid |-> s, act |-> "-"]

Post(e, id, s) == [e EXCEPT !.queue = Append(@, Posted(id, s))]

\* Clear(handler): a cleared message keeps its place and does nothing.
Clear(q, ids, s) ==
    [i \in DOMAIN q |->
        IF q[i].id \in ids /\ q[i].sid = s THEN Posted("CLEARED", s)
                                           ELSE q[i]]

Put(p, e, s, kind, act) ==
    [e EXCEPT !.out = @ \cup {[to |-> Remote(p, s), sid |-> s,
                               kind |-> kind, act |-> act]}]

\* Mutant of SendMessage: the task is registered under a swapped key.
SwappedSendKey(p, e, s, act) ==
    Put(p, [e EXCEPT !.waiting = @ \cup {<<act, s>>}], s, "set", act)

\* An iq set goes out in a SessionSendTask that then waits for the response.
SendMessage(p, e, s, act) ==
    Put(p, [e EXCEPT !.waiting = @ \cup {<<s, act>>}], s, "set", act)

-----------------------------------------------------------------------------
(* State and error changes of a session, with everything they signal *)

\* Mutant of CallOnSessionState: an accept does not stop the timer.
TimerSurvivesAccept(e, s, new) ==
    IF new = "RECEIVEDTERMINATE"
    THEN [e EXCEPT !.timers = @ \ {<<"MSG_TERMINATECALL", s>>}]
    ELSE e

\* Call::OnSessionState stops the no-answer timer.
CallOnSessionState(e, s, new) ==
    IF new \in {"RECEIVEDACCEPT", "RECEIVEDTERMINATE"}
    THEN [e EXCEPT !.timers = @ \ {<<"MSG_TERMINATECALL", s>>}]
    ELSE e

\* ClientSignalingThread::OnSessionState makes the answered call current.
ClientOnSessionState(e, s, new) ==
    IF new \in {"SENTACCEPT", "RECEIVEDACCEPT"}
    THEN [e EXCEPT !.call = s, !.focus = s]
    ELSE e

SetState(e, s, new) ==
    IF e.state[s] = new THEN e
    ELSE Post(ClientOnSessionState(
                  CallOnSessionState([e EXCEPT !.state[s] = new], s, new),
                  s, new),
              "MSG_STATE", s)

\* Call::OnSessionError (on a new error) stops the no-answer timer too.
SetError(e, s, err) ==
    Post([e EXCEPT !.error[s] = err,
                   !.timers = IF e.error[s] = err THEN @
                              ELSE @ \ {<<"MSG_TERMINATECALL", s>>}],
         "MSG_ERROR", s)

\* Mutant of TerminateWithReason: the peer is told only of an answered call.
TerminateAnsweredOnly(p, e, s) ==
    IF e.state[s] \in Terminal THEN e
    ELSE SetState(IF e.state[s] = "INPROGRESS"
                  THEN SendMessage(p, e, s, "terminate") ELSE e,
                  s, "SENTTERMINATE")

TerminateWithReason(p, e, s) ==
    IF e.state[s] \in Terminal THEN e
    ELSE SetState(SendMessage(p, e, s, "terminate"), s, "SENTTERMINATE")

\* Mutants of Accept: it checks only that the session is not established, or
\* changes the state although the accept could not be written.
AcceptAnyState(p, e, s) ==
    IF e.state[s] \in {"SENTACCEPT", "INPROGRESS"} THEN e
    ELSE SetState(SendMessage(p, e, s, "accept"), s, "SENTACCEPT")

AcceptUnsent(p, e, s) ==
    IF e.state[s] # "RECEIVEDINITIATE" THEN e
    ELSE SetState(e, s, "SENTACCEPT")

\* Session::Accept: only an incoming session that was not answered yet.
Accept(p, e, s) ==
    IF e.state[s] # "RECEIVEDINITIATE" THEN e
    ELSE SetState(SendMessage(p, e, s, "accept"), s, "SENTACCEPT")

\* Session::Reject: the same.
Reject(p, e, s, busy) ==
    IF e.state[s] # "RECEIVEDINITIATE" THEN e
    ELSE SetState(SendMessage(p, e, s, IF s \in GingleSids THEN "reject"
                                       ELSE IF busy THEN "busy"
                                       ELSE "terminate"),
                  s, IF busy THEN "SENTBUSY" ELSE "SENTREJECT")

SendAllUnsentTransportInfoMessages(p, e, s) ==
    IF e.cands[s] # "unsent" THEN e
    ELSE Put(p, [e EXCEPT !.cands[s] = "sent"], s, "set", "info")

OnInitiateAcked(p, e, s) ==
    LET f == SetState([e EXCEPT !.timers = @ \ {<<"MSG_INIT_ACK_TIMEOUT", s>>}],
                      s, "RECEIVEDINITIATE_ACK")
    IN  IF s \in f.acked THEN f
        ELSE SendAllUnsentTransportInfoMessages(
                 p, [f EXCEPT !.acked = @ \cup {s}], s)

\* Mutants of DestroySession: the call keeps the session in its map, or never
\* checks whether it is the last one.
DestroyKeepsMedia(e, s) ==
    [e EXCEPT !.state[s] = "NONE", !.error[s] = "NONE", !.cands[s] = "none",
              !.acked = @ \ {s}, !.timers = @ \ (SessionTimer \X {s}),
              !.queue = Clear(@, SessionMsg, s)]

DestroyPostsNothing(e, s) ==
    [DestroyKeepsMedia(e, s) EXCEPT !.media = @ \ {s}]

\* SessionManager::DestroySession: MediaSessionClient takes the session out of
\* its call, the call posts the check that may delete it, and the destructor
\* of the session clears its messages and timers.
DestroySession(e, s) ==
    [e EXCEPT !.state[s] = "NONE", !.error[s] = "NONE", !.cands[s] = "none",
              !.acked = @ \ {s}, !.media = @ \ {s},
              !.timers = @ \ (SessionTimer \X {s}),
              !.queue = Append(Clear(@, SessionMsg, s),
                               Posted("MSG_CHECKAUTODESTROY", s))]

\* Mutant of OnCallDestroy: call_ is not reset.
CallPointerKept(e, s) == e

\* ClientSignalingThread::OnCallDestroy (SignalCallDestroy)
OnCallDestroy(e, s) == [e EXCEPT !.call = IF @ = s THEN Null ELSE @]

\* MediaSessionClient::DestroyCall and ~Call, for a call without a session.
DestroyCall(e, s) ==
    [OnCallDestroy(e, s) EXCEPT
        !.focus = IF @ = s THEN Null ELSE @,
        !.calls = @ \ {s},
        !.timers = @ \ {<<"MSG_TERMINATECALL", s>>},
        !.queue = Clear(@, {"MSG_CHECKAUTODESTROY"}, s)]

-----------------------------------------------------------------------------
(* The handlers of the messages a client's signalling thread dispatches *)

\* Mutant of OnMsgState: a session the peer terminated is not destroyed.
MsgStateForgetsTerminate(e, s) ==
    CASE e.state[s] \in {"SENTACCEPT", "RECEIVEDACCEPT"} ->
             SetState(e, s, "INPROGRESS")
      [] e.state[s] \in Terminal \ {"RECEIVEDTERMINATE"} ->
             DestroySession(e, s)
      [] OTHER -> e

\* MSG_STATE: a session in a terminal state is destroyed.
OnMsgState(e, s) ==
    CASE e.state[s] \in {"SENTACCEPT", "RECEIVEDACCEPT"} ->
             SetState(e, s, "INPROGRESS")
      [] e.state[s] \in Terminal -> DestroySession(e, s)
      [] OTHER -> e

\* MSG_CHECKAUTODESTROY
OnMsgCheckAutoDestroy(e, s) == IF s \in e.media THEN e ELSE DestroyCall(e, s)

CreateSession(e, s) == [e EXCEPT !.state[s] = "INIT"]

\* MediaSessionClient::CreateCall and Call::AddSession
AddSession(e, s) == [e EXCEPT !.calls = @ \cup {s}, !.media = @ \cup {s}]

\* Session::Initiate
Initiate(p, e, s) ==
    LET f == [e EXCEPT !.timers = @ \cup {<<"MSG_INIT_ACK_TIMEOUT", s>>}]
    IN  SetState(SendMessage(p, f, s, "initiate"), s, "SENTINITIATE")

\* found: the user gave a full jid, or (in builds with a roster) the roster
\* has an available resource of the callee.
CallS(p, e, s, found) ==
    IF found
    THEN [Initiate(p, AddSession(CreateSession(e, s), s), s) EXCEPT
             !.timers = @ \cup {<<"MSG_TERMINATECALL", s>>}]
    ELSE e

AcceptCallS(p, e, s) ==
    IF s \in e.calls \cap e.media THEN Accept(p, e, s) ELSE e

DeclineCallS(p, e, s, busy) ==
    IF s \in e.calls \cap e.media THEN Reject(p, e, s, busy) ELSE e

\* Call::Terminate ends the sessions the call still holds.
CallTerminate(p, e, s) ==
    IF s \in e.media THEN TerminateWithReason(p, e, s) ELSE e

EndCallS(p, e, s) == IF s \in e.calls THEN CallTerminate(p, e, s) ELSE e

HoldCallS(e, s, hold) ==
    CASE s \in e.calls /\ hold /\ e.call = s ->
             [e EXCEPT !.focus = Null, !.call = Null]
      [] s \in e.calls /\ ~hold -> [e EXCEPT !.focus = s, !.call = s]
      [] OTHER -> e

\* DisconnectS: closing the pump deletes the media client and with it every
\* call and its session.  The terminates of EndAllCalls are handed to tasks of
\* that pump, which dies before they run: none of them leaves.  A session that
\* has no call is not reached.
DisconnectS(e) ==
    [IdleEndpoint EXCEPT
        !.state = [s \in Sid |-> IF s \in e.media THEN "NONE" ELSE e.state[s]],
        !.online = FALSE]

Incoming(p, e, s) ==
    IF Offer[s] = "unusable"
    THEN Put(p, CreateSession(e, s), s, "error", "initiate")
    ELSE LET f == SetState(AddSession(e, s), s, "RECEIVEDINITIATE")
         IN  Put(p, IF Offer[s] = "nocodec" THEN Reject(p, f, s, FALSE) ELSE f,
                 s, "result", "initiate")

\* Mutant of OnAcceptMessage: without CheckSentInitiate.
AcceptMessageUnchecked(p, e, s) ==
    Put(p, SetState(OnInitiateAcked(p, e, s), s, "RECEIVEDACCEPT"),
        s, "result", "accept")

\* CheckSentInitiate and OnAcceptMessage: an accept
\* implies that the initiate arrived.
OnAcceptMessage(p, e, s) ==
    IF e.state[s] \notin Initiating THEN Put(p, e, s, "error", "accept")
    ELSE Put(p, SetState(OnInitiateAcked(p, e, s), s, "RECEIVEDACCEPT"),
             s, "result", "accept")

\* OnRejectMessage refuses only what also fails to parse.
OnRejectMessage(p, e, s) == Put(p, e, s, "result", "reject")

\* OnTerminateMessage has no state check at all.
OnTerminateMessage(p, e, s, act) ==
    Put(p, SetState(e, s, IF act = "busy" THEN "RECEIVEDBUSY"
                                          ELSE "RECEIVEDTERMINATE"),
        s, "result", act)

\* An initiate is only taken by a new session.  The responses to a
\* transport-info change nothing and are left out.
OnIncomingMessage(p, e, s, act) ==
    IF ~Found(e, s)
    THEN IF act = "initiate" THEN Incoming(p, e, s)
         ELSE IF act = "info" THEN e
         ELSE Put(p, e, s, "error", act)
    ELSE CASE act = "initiate" -> Put(p, e, s, "error", act)
           [] act = "accept" -> OnAcceptMessage(p, e, s)
           [] act = "reject" -> OnRejectMessage(p, e, s)
           [] act \in {"terminate", "busy"} -> OnTerminateMessage(p, e, s, act)
           [] act = "info" -> e

\* A response reaches the session only through the SessionSendTask that waits
\* for it; an error of type wait or continue is ignored.
OnResponse(p, e, s, kind, act) ==
    LET f == [e EXCEPT !.waiting = @ \ {<<s, act>>}]
    IN  IF <<s, act>> \notin e.waiting \/ ~Found(e, s) THEN f
        ELSE CASE kind = "result" /\ act = "initiate" -> OnInitiateAcked(p, f, s)
               [] kind = "error" -> SetError(f, s, "RESPONSE")
               [] OTHER -> f

-----------------------------------------------------------------------------
(* Actions *)

\* The endpoint of p becomes e; what its handler sent leaves.
Become(p, e) ==
    /\ ep' = [ep EXCEPT ![p] = [e EXCEPT !.out = {}]]
    /\ net' = net \cup e.out
    /\ sent' = sent \cup e.out

\* The message at the front of p's queue, and the endpoint without it.
Front(p) == Head(ep[p].queue)
Rest(p) == [ep[p] EXCEPT !.queue = Tail(@)]

Dispatching(p, ids) == ep[p].queue # <<>> /\ Front(p).id \in ids

MsgState(p) ==
    /\ Dispatching(p, {"MSG_STATE"})
    /\ Become(p, OnMsgState(Rest(p), Front(p).sid))

MsgError(p) ==
    /\ Dispatching(p, {"MSG_ERROR"})
    /\ Become(p, TerminateWithReason(p, Rest(p), Front(p).sid))

MsgCheckAutoDestroy(p) ==
    /\ Dispatching(p, {"MSG_CHECKAUTODESTROY"})
    /\ Become(p, OnMsgCheckAutoDestroy(Rest(p), Front(p).sid))

MsgCleared(p) ==
    /\ Dispatching(p, {"CLEARED"})
    /\ Become(p, Rest(p))

MsgCall(p) ==
    /\ Dispatching(p, {"CALL"})
    /\ \E found \in BOOLEAN : Become(p, CallS(p, Rest(p), Front(p).sid, found))

MsgAcceptCall(p) ==
    /\ Dispatching(p, {"ACCEPT"})
    /\ Become(p, AcceptCallS(p, Rest(p), Front(p).sid))

MsgDeclineCall(p) ==
    /\ Dispatching(p, {"DECLINE", "BUSY"})
    /\ Become(p, DeclineCallS(p, Rest(p), Front(p).sid, Front(p).id = "BUSY"))

MsgEndCall(p) ==
    /\ Dispatching(p, {"END"})
    /\ Become(p, EndCallS(p, Rest(p), Front(p).sid))

MsgHoldCall(p) ==
    /\ Dispatching(p, {"HOLD", "UNHOLD"})
    /\ Become(p, HoldCallS(Rest(p), Front(p).sid, Front(p).id = "HOLD"))

MsgDisconnect(p) ==
    /\ Dispatching(p, {"DISCONNECT"})
    /\ Become(p, DisconnectS(ep[p]))

MsgIncomingSet(p) ==
    /\ Dispatching(p, {"set"})
    /\ Become(p, OnIncomingMessage(p, Rest(p), Front(p).sid, Front(p).act))

MsgIncomingResponse(p) ==
    /\ Dispatching(p, {"result", "error", "wait"})
    /\ Become(p, OnResponse(p, Rest(p), Front(p).sid, Front(p).id,
                            Front(p).act))

\* The session's own timers: BaseSession::OnMessage
SessionTimeout(p, s) ==
    /\ <<"MSG_TIMEOUT", s>> \in ep[p].timers
    /\ Len(ep[p].queue) < MaxQueue
    /\ Become(p, SetError([ep[p] EXCEPT !.timers = @ \ {<<"MSG_TIMEOUT", s>>}],
                          s, "TIME"))

InitAckTimeout(p, s) ==
    /\ <<"MSG_INIT_ACK_TIMEOUT", s>> \in ep[p].timers
    /\ Become(p, SetError([ep[p] EXCEPT
                              !.timers = @ \ {<<"MSG_INIT_ACK_TIMEOUT", s>>}],
                          s, "ACK_TIME"))

\* Call::OnMessage: nobody answered
NoAnswerTimeout(p, s) ==
    /\ <<"MSG_TERMINATECALL", s>> \in ep[p].timers
    /\ Become(p, CallTerminate(p, [ep[p] EXCEPT
                                    !.timers = @ \ {<<"MSG_TERMINATECALL", s>>}],
                               s))

\* SessionSendTask::OnTimeout is a failed send.  The runner notices it only when
\* something steps the task, as a late response does, and in units that make
\* the 15 seconds 41 hours; here it may come at any time, which allows more.
SendTimeout(p, s, act) ==
    /\ "slow" \in Env
    /\ <<s, act>> \in ep[p].waiting
    /\ Become(p, OnResponse(p, ep[p], s, "error", act))

\* The transport's channels become writable or stop being so.
OnTransportWritable(p, s, writable) ==
    /\ "transport" \in Env
    /\ s \in ep[p].media
    /\ Become(p, [ep[p] EXCEPT
                    !.timers = IF writable THEN @ \ {<<"MSG_TIMEOUT", s>>}
                               ELSE @ \cup {<<"MSG_TIMEOUT", s>>}])

\* Mutant of OnCandidatesReady: the candidates are never held back.
CandidatesAtOnce(p, s) ==
    /\ "candidates" \in Env
    /\ s \in ep[p].media
    /\ ep[p].cands[s] = "none"
    /\ Become(p, Put(p, [ep[p] EXCEPT !.cands[s] = "sent"], s, "set", "info"))

\* Candidates are held back until the initiate is known to have arrived.
OnCandidatesReady(p, s) ==
    /\ "candidates" \in Env
    /\ s \in ep[p].media
    /\ ep[p].cands[s] = "none"
    /\ Become(p, IF p = Initiator[s] /\ s \notin ep[p].acked
                 THEN [ep[p] EXCEPT !.cands[s] = "unsent"]
                 ELSE Put(p, [ep[p] EXCEPT !.cands[s] = "sent"],
                          s, "set", "info"))

\* The user, through the calls that only post to the signalling thread.  The
\* user knows a call by the id the client reported, so it may be gone by the
\* time the command is dispatched.  Nothing follows a disconnect.
Disconnecting(p) ==
    \/ ~ep[p].online
    \/ \E i \in DOMAIN ep[p].queue : ep[p].queue[i].id = "DISCONNECT"

UserCommand(p, c, s) ==
    /\ c \in Commands[p]
    /\ Len(ep[p].queue) < MaxQueue
    /\ ~Disconnecting(p)
    /\ c \in {"ACCEPT", "DECLINE", "BUSY", "END", "HOLD", "UNHOLD"} =>
           s \in ep[p].calls
    /\ c = "CALL" =>
           /\ p = Initiator[s]
           /\ \A m \in sent : m.sid # s
           /\ \A i \in DOMAIN ep[p].queue : ep[p].queue[i] # Posted("CALL", s)
    /\ Become(p, Post(ep[p], c, s))

\* The server.  A response may overtake a request or be overtaken (they are
\* handled by different tasks); an iq set may come again; a stanza for a
\* client that is gone bounces if it asked for a response.
Final == {"terminate", "busy", "reject"}

Overtakes(m) ==
    /\ m.kind = "set" /\ m.act \in Final
    /\ \E n \in net : /\ n.to = m.to /\ n.sid = m.sid
                      /\ n.kind = "set" /\ n.act \notin Final

Arrive(m) ==
    /\ m \in net \/ (m.kind = "set" /\ m.act \in Again)
    /\ "reorder" \in Env \/ ~Overtakes(m)
    /\ ep[m.to].online
    /\ Len(ep[m.to].queue) < MaxQueue
    /\ ep' = [ep EXCEPT ![m.to].queue =
                  Append(@, [id |-> m.kind, sid |-> m.sid, act |-> m.act])]
    /\ net' = net \ {m}
    /\ UNCHANGED sent

Bounce(m, kind) ==
    /\ m \in net
    /\ ~ep[m.to].online
    /\ LET r == [m EXCEPT !.to = Remote(m.to, m.sid), !.kind = kind]
           back == IF m.kind = "set" THEN {r} ELSE {}
       IN  /\ net' = (net \ {m}) \cup back
           /\ sent' = sent \cup back
    /\ UNCHANGED ep

Lose(m) ==
    /\ "loss" \in Env
    /\ m \in net
    /\ net' = net \ {m}
    /\ UNCHANGED <<ep, sent>>

-----------------------------------------------------------------------------
(* Specification *)

Init ==
    /\ ep = [p \in Peer |-> IdleEndpoint]
    /\ net = {}
    /\ sent = {}

Dispatch(p) ==
    \/ MsgState(p)
    \/ MsgError(p)
    \/ MsgCheckAutoDestroy(p)
    \/ MsgCleared(p)
    \/ MsgCall(p)
    \/ MsgAcceptCall(p)
    \/ MsgDeclineCall(p)
    \/ MsgEndCall(p)
    \/ MsgHoldCall(p)
    \/ MsgDisconnect(p)
    \/ MsgIncomingSet(p)
    \/ MsgIncomingResponse(p)

Timeouts(p, s) ==
    \/ SessionTimeout(p, s)
    \/ InitAckTimeout(p, s)
    \/ NoAnswerTimeout(p, s)
    \/ \E act \in Act : SendTimeout(p, s, act)

Transport(p, s) ==
    \/ \E writable \in BOOLEAN : OnTransportWritable(p, s, writable)
    \/ OnCandidatesReady(p, s)

Server(m) ==
    \/ Arrive(m)
    \/ \E kind \in {"error", "wait"} : Bounce(m, kind)
    \/ Lose(m)

Next ==
    \/ \E p \in Peer : Dispatch(p)
    \/ \E p \in Peer, s \in Sid :
           \/ Timeouts(p, s)
           \/ Transport(p, s)
           \/ \E c \in Command : UserCommand(p, c, s)
    \/ \E m \in sent : Server(m)

Spec == Init /\ [][Next]_vars

\* Fairness.  The signalling thread runs, its clock advances, and the server
\* delivers what it holds.  The delivery is strongly fair because only the
\* bound MaxQueue ever makes it wait.
Fairness ==
    /\ \A p \in Peer : WF_vars(Dispatch(p))
    /\ \A p \in Peer, s \in Sid : WF_vars(Timeouts(p, s))
    /\ SF_vars(\E m \in net : Arrive(m))

FairSpec == Spec /\ Fairness

-----------------------------------------------------------------------------
(* Properties *)

\* Every field has its type, a handler leaves nothing unsent, and the server
\* only holds what was sent.
TypeOK ==
    /\ ep \in [Peer -> Endpoint]
    /\ \A p \in Peer : ep[p].out = {}
    /\ net \subseteq sent
    /\ sent \subseteq Stanza

Pending(e, id, s) ==
    \E i \in DOMAIN e.queue : e.queue[i].id = id /\ e.queue[i].sid = s

SetStanza(p, s, act) == [to |-> p, sid |-> s, kind |-> "set", act |-> act]

\* ClientSignalingThread::call_ and MediaSessionClient::focus_call_ are raw
\* pointers that PrintStatsS, HoldCallS, DisconnectS and SetFocus use: they
\* never point to a call that was deleted, and the call the user interface
\* holds is the one whose media is enabled.
CallPointersAlive ==
    \A p \in Peer : /\ ep[p].call = ep[p].focus
                    /\ ep[p].call # Null => ep[p].call \in ep[p].calls

\* MediaSessionClient::session_map_, Call::media_session_map_ and
\* SessionManager::session_map_ agree: a session that stanzas can find is in a
\* live call, and a live call holds no session that is gone (the ASSERT of
\* MediaSessionClient::OnSessionDestroy).
SessionsAndCallsAgree ==
    \A p \in Peer, s \in Sid :
        /\ Found(ep[p], s) <=> s \in ep[p].media
        /\ s \in ep[p].media => s \in ep[p].calls

\* Nothing that is over is forgotten: the MSG_STATE that destroys a session in
\* a terminal state, and the MSG_CHECKAUTODESTROY that destroys a call without
\* sessions, is still in the queue as long as the object exists, whatever was
\* cleared in between.
DoomedIsQueued ==
    \A p \in Peer, s \in Sid :
        /\ ep[p].state[s] \in Terminal => Pending(ep[p], "MSG_STATE", s)
        /\ s \in ep[p].calls \ ep[p].media =>
               Pending(ep[p], "MSG_CHECKAUTODESTROY", s)

\* The 20 s "callee isn't answering" timer of Call::InitiateSession never runs
\* on an answered call, nor for a call that was deleted.
NoAnswerTimerOnlyUnanswered ==
    \A p \in Peer, s \in Sid :
        <<"MSG_TERMINATECALL", s>> \in ep[p].timers =>
            /\ s \in ep[p].calls
            /\ ep[p].state[s] \notin {"RECEIVEDACCEPT", "INPROGRESS"}

\* Neither side believes a call is accepted unless the callee's user accepted
\* it, however the server delays, loses, reorders or repeats stanzas.
InProgressWasAccepted ==
    \A p \in Peer, s \in Sid :
        ep[p].state[s] \in {"RECEIVEDACCEPT", "SENTACCEPT", "INPROGRESS"} =>
            SetStanza(Initiator[s], s, "accept") \in sent

\* The caller's candidates never leave before the callee has shown that it has
\* the session, so that no reordering makes them arrive at an unknown session
\* (the reason for AddUnsentCandidates).
CandidatesFollowInitiate ==
    \A s \in Sid : SetStanza(Responder[s], s, "info") \in sent =>
        \E m \in sent : /\ m.to = Initiator[s] /\ m.sid = s
                        /\ \/ m.kind = "result" /\ m.act = "initiate"
                           \/ m.kind = "set" /\ m.act = "accept"

\* A session in a terminal state stays in one until it is destroyed, with one
\* exception, the caller's session that gets the ack of its initiate late
\* (OnInitiateAcked sets the state whatever it was).
OnlyLateAckRevives ==
    [][\A p \in Peer, s \in Sid :
          ep[p].state[s] \in Terminal =>
              \/ ep'[p].state[s] \in Terminal \cup {"NONE"}
              \/ /\ p = Initiator[s]
                 /\ ep'[p].state[s] = "RECEIVEDINITIATE_ACK"]_vars

\* The callee's and the caller's sessions implement CallPromise.
Promise == INSTANCE CallPromise WITH
    callee <- [s \in Sid |->
                 LET st == ep[Responder[s]].state[s]
                 IN  CASE st \in Terminal -> "over"
                       [] st = "RECEIVEDINITIATE" -> "ringing"
                       [] st \in {"SENTACCEPT", "INPROGRESS"} -> "talking"
                       [] OTHER -> "idle"],
    answered <- {s \in Sid : SetStanza(Initiator[s], s, "accept") \in sent},
    talking <- {s \in Sid : ep[Initiator[s]].state[s] \in
                                {"RECEIVEDACCEPT", "INPROGRESS"}}

\* Every step of the sessions is a step the two users were promised.
KeepsPromise == Promise!Spec

\* What takes a ringing phone's call back: the terminate of the caller, which
\* the server or the phone's own queue holds ...
HangupComes(s) ==
    \/ SetStanza(Responder[s], s, "terminate") \in net
    \/ LET q == ep[Responder[s]].queue
       IN  \E i \in DOMAIN q :
              /\ q[i].id = "set" /\ q[i].sid = s /\ q[i].act = "terminate"

\* ... or the caller's own no-answer timer or error message, on a session that
\* will then send it.
WillHangUp(e, s) ==
    /\ e.state[s] \in Initiating
    /\ <<"MSG_TERMINATECALL", s>> \in e.timers \/ Pending(e, "MSG_ERROR", s)

Reliable == "initiate" \notin Again /\ Env \cap {"loss", "reorder"} = {}

\* The callee has no timer of its own, so a phone that rings depends on its
\* caller: although SetError, an early ack, late responses and DestroySession
\* each stop some of the caller's timers and messages, the hang-up is on its
\* way or will be sent, unless the caller disconnects, whose terminates never
\* leave.
RingingWillEnd ==
    Reliable =>
        \A s \in Sid :
            ep[Responder[s]].state[s] = "RECEIVEDINITIATE" =>
                \/ HangupComes(s)
                \/ WillHangUp(ep[Initiator[s]], s)
                \/ ~ep[Initiator[s]].online

\* A phone that rings stops ringing: the callee has no timer of its own, so
\* this rests on the caller's no-answer timer and its terminate.
RingingEnds ==
    \A s \in Sid :
        ep[Responder[s]].state[s] = "RECEIVEDINITIATE"
            ~> ep[Responder[s]].state[s] # "RECEIVEDINITIATE"

\* A call of the callee that is over goes away with its session.
CalleeCallGoes ==
    \A s \in Sid :
        ep[Responder[s]].state[s] \in Terminal
            ~> s \notin ep[Responder[s]].calls

-----------------------------------------------------------------------------
(* Claims of the source that the model refutes *)

\* TerminateWithReason: "Either side can terminate, at any time."  A call the
\* caller terminated is not in progress at the caller afterwards.
EndedStaysEnded ==
    \A s \in Sid :
        SetStanza(Responder[s], s, "terminate") \in sent =>
            ep[Initiator[s]].state[s] # "INPROGRESS"

\* ASSERT of ~SessionManager ("They better be all gone"): after DisconnectS
\* no session is left.
NoSessionsLeft ==
    \A p \in Peer, s \in Sid : ~ep[p].online => ep[p].state[s] = "NONE"

=============================================================================
