------------------------- MODULE CallSessionProofs -------------------------
(***************************************************************************)
(* Theorems about CallSession, for every set of clients, sids and offers.  *)
(***************************************************************************)
EXTENDS CallSession, TLAPS

-----------------------------------------------------------------------------
(* The inductive invariant.  S stands for the stanzas sent so far. *)

AcceptOf(s) == SetStanza(Initiator[s], s, "accept")

Pointers(e) ==
    /\ e.call = e.focus
    /\ e.call # Null => e.call \in e.calls

Registered(e, s) == Found(e, s) <=> s \in e.media

Owned(e) ==
    /\ e.media \subseteq e.calls
    /\ \A t \in SessionTimer, s \in Sid : <<t, s>> \in e.timers => s \in e.media
    /\ \A i \in DOMAIN e.queue :
           e.queue[i].id \in SessionMsg => e.queue[i].sid \in e.media

Timed(p, e) ==
    /\ \A s \in Sid : <<"MSG_TERMINATECALL", s>> \in e.timers =>
           /\ s \in e.calls
           /\ p = Initiator[s]
           /\ e.state[s] \notin {"RECEIVEDACCEPT", "INPROGRESS"}
    /\ \A s \in Sid : e.state[s] \in {"RECEIVEDINITIATE", "SENTACCEPT"} =>
           p = Responder[s]

StanzaRouted(m) ==
    /\ m.kind = "set" /\ m.act = "initiate" => m.to = Responder[m.sid]
    /\ m.kind = "set" /\ m.act = "accept" => m.to = Initiator[m.sid]

MsgRouted(p, m, S) ==
    /\ m.id \in Kind => m.act \in Act
    /\ m.id = "set" /\ m.act = "initiate" => p = Responder[m.sid]
    /\ m.id = "set" /\ m.act = "accept" => AcceptOf(m.sid) \in S
    /\ m.id = "CALL" => p = Initiator[m.sid]

Routed(p, e, S) ==
    /\ \A m \in e.out : StanzaRouted(m)
    /\ \A i \in DOMAIN e.queue : MsgRouted(p, e.queue[i], S)

Backed(e, S) ==
    \A s \in Sid :
        e.state[s] \in {"RECEIVEDACCEPT", "SENTACCEPT", "INPROGRESS"} =>
            AcceptOf(s) \in S \cup e.out

Decent(p, e, S) ==
    /\ e \in Endpoint
    /\ Pointers(e)
    /\ Owned(e)
    /\ Timed(p, e)
    /\ Routed(p, e, S)
    /\ Backed(e, S)

Good(p, e, S) == Decent(p, e, S) /\ \A s \in Sid : Registered(e, s)

IInv ==
    /\ ep \in [Peer -> Endpoint]
    /\ \A p \in Peer : Good(p, ep[p], sent) /\ ep[p].out = {}
    /\ net \subseteq sent
    /\ sent \subseteq Stanza
    /\ \A m \in sent : StanzaRouted(m)

-----------------------------------------------------------------------------
(* Types *)

\* What an endpoint's fields are.
LEMMA EndpointFields ==
    ASSUME NEW e \in Endpoint
    PROVE  /\ e.state \in [Sid -> State]
           /\ e.error \in [Sid -> Error]
           /\ e.acked \in SUBSET Sid
           /\ e.cands \in [Sid -> {"none", "unsent", "sent"}]
           /\ e.calls \in SUBSET Sid
           /\ e.media \in SUBSET Sid
           /\ e.call \in Sid \cup {Null}
           /\ e.focus \in Sid \cup {Null}
           /\ e.timers \in SUBSET (Timer \X Sid)
           /\ e.waiting \in SUBSET (Sid \X Act)
           /\ e.queue \in Seq(QueueMsg)
           /\ e.online \in BOOLEAN
           /\ e.out \in SUBSET Stanza
  BY DEF Endpoint

\* What the code posts is a message of the queue.
LEMMA PostedType ==
    ASSUME NEW s \in Sid,
           NEW id \in SessionMsg \cup Command \cup
                     {"MSG_CHECKAUTODESTROY", "CLEARED"}
    PROVE  Posted(id, s) \in QueueMsg
  BY DEF Posted, QueueMsg

\* Append adds one message behind the others.
LEMMA AppendFacts ==
    ASSUME NEW q \in Seq(QueueMsg), NEW m \in QueueMsg
    PROVE  /\ Append(q, m) \in Seq(QueueMsg)
           /\ \A i \in DOMAIN Append(q, m) :
                  \/ i \in DOMAIN q /\ Append(q, m)[i] = q[i]
                  \/ Append(q, m)[i] = m
  OBVIOUS

\* Clear keeps the queue's length; what it leaves of the cleared kind is of
\* another session.
LEMMA ClearFacts ==
    ASSUME NEW q \in Seq(QueueMsg), NEW ids, NEW s \in Sid
    PROVE  /\ Clear(q, ids, s) \in Seq(QueueMsg)
           /\ DOMAIN Clear(q, ids, s) = DOMAIN q
           /\ \A i \in DOMAIN q :
                  \/ Clear(q, ids, s)[i] = Posted("CLEARED", s)
                  \/ /\ Clear(q, ids, s)[i] = q[i]
                     /\ q[i].id \notin ids \/ q[i].sid # s
  <1>1. Posted("CLEARED", s) \in QueueMsg
    BY PostedType
  <1>2. \A i \in DOMAIN q : q[i] \in QueueMsg
    OBVIOUS
  <1>3. DOMAIN q = 1..Len(q) /\ Len(q) \in Nat
    OBVIOUS
  <1> QED BY <1>1, <1>2, <1>3 DEF Clear

\* The message in front and those behind it were in the queue.
LEMMA TailFacts ==
    ASSUME NEW q \in Seq(QueueMsg), q # <<>>
    PROVE  /\ Head(q) \in QueueMsg
           /\ Tail(q) \in Seq(QueueMsg)
           /\ \E i \in DOMAIN q : Head(q) = q[i]
           /\ \A i \in DOMAIN Tail(q) : \E j \in DOMAIN q : Tail(q)[i] = q[j]
  <1>1. Len(q) \in Nat \ {0} /\ DOMAIN q = 1..Len(q)
    OBVIOUS
  <1>2. Head(q) = q[1] /\ 1 \in DOMAIN q
    BY <1>1
  <1>3. \A i \in DOMAIN Tail(q) : i + 1 \in DOMAIN q /\ Tail(q)[i] = q[i + 1]
    BY <1>1
  <1> QED BY <1>2, <1>3

\* A stanza a client sends to the other end of a session.
LEMMA PutStanza ==
    ASSUME NEW p \in Peer, NEW s \in Sid,
           NEW kind \in Kind, NEW act \in Act
    PROVE  [to |-> Remote(p, s), sid |-> s, kind |-> kind, act |-> act]
               \in Stanza
  BY RouteAssumption DEF Remote, Stanza

-----------------------------------------------------------------------------
(* What the building blocks of the handlers preserve *)

\* Fields the invariant does not speak of may change.
LEMMA Unrelated ==
    ASSUME NEW p, NEW S, NEW e, NEW f \in Endpoint, Good(p, e, S),
           f.state = e.state, f.calls = e.calls, f.media = e.media,
           f.call = e.call, f.focus = e.focus, f.timers \subseteq e.timers,
           f.queue = e.queue, f.out = e.out
    PROVE  Good(p, f, S)
  BY DEF Good, Decent, Pointers, Registered, Owned, Timed, Routed, Backed, Found

\* Timers may go.
LEMMA TimersGone ==
    ASSUME NEW p, NEW S, NEW e, NEW X, Good(p, e, S)
    PROVE  Good(p, [e EXCEPT !.timers = @ \ X], S)
  <1> DEFINE f == [e EXCEPT !.timers = @ \ X]
  <1>1. e \in Endpoint
    BY DEF Good, Decent
  <1>2. e.timers \ X \in SUBSET (Timer \X Sid)
    BY <1>1, EndpointFields
  <1>3. f \in Endpoint
    BY <1>1, <1>2 DEF Endpoint
  <1>4. /\ f.state = e.state /\ f.calls = e.calls /\ f.media = e.media
        /\ f.call = e.call /\ f.focus = e.focus /\ f.timers = e.timers \ X
        /\ f.queue = e.queue /\ f.out = e.out
    BY <1>1 DEF Endpoint
  <1> QED BY <1>3, <1>4, Unrelated

\* SetState: the session is in its call already, and every other session is
\* registered with its call.
LEMMA SetStateGood ==
    ASSUME NEW p \in Peer, NEW S, NEW e, NEW s \in Sid,
           NEW new \in State \ {"NONE", "INIT"},
           Decent(p, e, S), s \in e.media,
           \A r \in Sid \ {s} : Registered(e, r),
           new = "INPROGRESS" => <<"MSG_TERMINATECALL", s>> \notin e.timers,
           new \in {"RECEIVEDINITIATE", "SENTACCEPT"} => p = Responder[s],
           new \in {"RECEIVEDACCEPT", "SENTACCEPT", "INPROGRESS"} =>
               AcceptOf(s) \in S \cup e.out
    PROVE  Good(p, SetState(e, s, new), S)
  <1> DEFINE g == SetState(e, s, new)
             m == Posted("MSG_STATE", s)
  <1>1. e \in Endpoint
    BY DEF Decent
  <1>2. CASE e.state[s] = new
    <2>1. g = e
      BY <1>2 DEF SetState
    <2>2. Registered(e, s)
      BY <1>2 DEF Registered, Found
    <2> QED BY <2>1, <2>2 DEF Good
  <1>3. CASE e.state[s] # new
    <2> DEFINE a == [e EXCEPT !.state[s] = new]
               b == CallOnSessionState(a, s, new)
               c == ClientOnSessionState(b, s, new)
    <2>1. /\ a \in Endpoint
          /\ a.state = [e.state EXCEPT ![s] = new]
          /\ a.calls = e.calls /\ a.media = e.media /\ a.call = e.call
          /\ a.focus = e.focus /\ a.timers = e.timers /\ a.queue = e.queue
          /\ a.out = e.out
      BY <1>1 DEF Endpoint
    <2>2. a.timers \ {<<"MSG_TERMINATECALL", s>>} \in SUBSET (Timer \X Sid)
      BY <2>1, EndpointFields
    <2>3. /\ b \in Endpoint
          /\ b.state = [e.state EXCEPT ![s] = new]
          /\ b.calls = e.calls /\ b.media = e.media /\ b.call = e.call
          /\ b.focus = e.focus /\ b.queue = e.queue /\ b.out = e.out
          /\ b.timers = IF new \in {"RECEIVEDACCEPT", "RECEIVEDTERMINATE"}
                        THEN e.timers \ {<<"MSG_TERMINATECALL", s>>}
                        ELSE e.timers
      <3> HIDE DEF a
      <3> QED BY <2>1, <2>2 DEF CallOnSessionState, Endpoint
    <2>4. /\ c \in Endpoint
          /\ c.state = [e.state EXCEPT ![s] = new]
          /\ c.calls = e.calls /\ c.media = e.media /\ c.timers = b.timers
          /\ c.queue = e.queue /\ c.out = e.out
          /\ \/ c.call = s /\ c.focus = s
             \/ c.call = e.call /\ c.focus = e.focus
      <3> HIDE DEF b
      <3> QED BY <2>3 DEF ClientOnSessionState, Endpoint
    <2>5. g = [c EXCEPT !.queue = Append(@, m)]
      BY <1>3 DEF SetState, Post
    <2>6. m \in QueueMsg
      BY PostedType DEF SessionMsg
    <2>7. Append(c.queue, m) \in Seq(QueueMsg)
      BY <2>4, <2>6, EndpointFields, AppendFacts
    <2>8. /\ g \in Endpoint
          /\ g.state = [e.state EXCEPT ![s] = new]
          /\ g.calls = e.calls /\ g.media = e.media /\ g.out = e.out
          /\ g.queue = Append(e.queue, m)
          /\ g.timers = IF new \in {"RECEIVEDACCEPT", "RECEIVEDTERMINATE"}
                        THEN e.timers \ {<<"MSG_TERMINATECALL", s>>}
                        ELSE e.timers
          /\ \/ g.call = s /\ g.focus = s
             \/ g.call = e.call /\ g.focus = e.focus
      <3> HIDE DEF c, m, b, g
      <3> QED BY <2>3, <2>4, <2>5, <2>7 DEF Endpoint
    <2> HIDE DEF g, a, b, c
    <2>9. e.state \in [Sid -> State]
      BY <1>1, EndpointFields
    <2>10. \A i \in DOMAIN g.queue :
              \/ i \in DOMAIN e.queue /\ g.queue[i] = e.queue[i]
              \/ g.queue[i] = m
      BY <1>1, <2>6, <2>8, EndpointFields, AppendFacts
    <2>11. m.id = "MSG_STATE" /\ m.sid = s
      BY DEF Posted
    <2> HIDE DEF m
    <2>12. s \in e.calls
      BY DEF Decent, Owned
    <2>13. Pointers(g)
      BY <2>8, <2>12 DEF Decent, Pointers
    <2>14. Owned(g)
      BY <2>8, <2>10, <2>11 DEF Decent, Owned
    <2>15. Timed(p, g)
      BY <2>8, <2>9 DEF Decent, Timed
    <2>16. Routed(p, g, S)
      BY <2>8, <2>10, <2>11 DEF Decent, Routed, MsgRouted, Kind
    <2>17. Backed(g, S)
      BY <2>8, <2>9 DEF Decent, Backed
    <2>18. \A r \in Sid : Registered(g, r)
      BY <2>8, <2>9 DEF Registered, Found
    <2> QED BY <2>8, <2>13, <2>14, <2>15, <2>16, <2>17, <2>18 DEF Good, Decent, g
  <1> QED BY <1>2, <1>3

\* Put only adds to what the handler sends.
LEMMA PutDecent ==
    ASSUME NEW p \in Peer, NEW S, NEW e, NEW s \in Sid,
           NEW kind \in Kind, NEW act \in Act,
           Decent(p, e, S),
           kind = "set" /\ act = "initiate" => p = Initiator[s],
           kind = "set" /\ act = "accept" => p = Responder[s]
    PROVE  /\ Decent(p, Put(p, e, s, kind, act), S)
           /\ Put(p, e, s, kind, act).state = e.state
           /\ Put(p, e, s, kind, act).media = e.media
           /\ Put(p, e, s, kind, act).timers = e.timers
           /\ Put(p, e, s, kind, act).out =
                  e.out \cup {[to |-> Remote(p, s), sid |-> s,
                               kind |-> kind, act |-> act]}
  <1> DEFINE g == Put(p, e, s, kind, act)
             m == [to |-> Remote(p, s), sid |-> s, kind |-> kind, act |-> act]
  <1>1. e \in Endpoint
    BY DEF Decent
  <1>2. m \in Stanza
    BY PutStanza
  <1>3. StanzaRouted(m)
    BY RouteAssumption DEF StanzaRouted, Remote
  <1>4. e.out \cup {m} \in SUBSET Stanza
    BY <1>1, <1>2, EndpointFields
  <1> HIDE DEF m
  <1>5. g = [e EXCEPT !.out = @ \cup {m}]
    BY DEF Put, m
  <1>6. /\ g \in Endpoint
        /\ g.state = e.state /\ g.media = e.media /\ g.calls = e.calls
        /\ g.timers = e.timers
        /\ g.call = e.call /\ g.focus = e.focus /\ g.queue = e.queue
        /\ g.out = e.out \cup {m}
    <2> HIDE DEF g
    <2> QED BY <1>1, <1>4, <1>5 DEF Endpoint
  <1> HIDE DEF g
  <1>7. Pointers(g) /\ Owned(g)
    BY <1>6 DEF Decent, Pointers, Owned
  <1>8. Timed(p, g) /\ Backed(g, S)
    BY <1>6 DEF Decent, Timed, Backed
  <1>9. Routed(p, g, S)
    BY <1>3, <1>6 DEF Decent, Routed
  <1> QED BY <1>6, <1>7, <1>8, <1>9 DEF Decent, m, g

\* Put, in the whole invariant.
LEMMA PutGood ==
    ASSUME NEW p \in Peer, NEW S, NEW e, NEW s \in Sid,
           NEW kind \in Kind, NEW act \in Act,
           Good(p, e, S),
           kind = "set" /\ act = "initiate" => p = Initiator[s],
           kind = "set" /\ act = "accept" => p = Responder[s]
    PROVE  Good(p, Put(p, e, s, kind, act), S)
  <1> DEFINE g == Put(p, e, s, kind, act)
  <1>1. Decent(p, g, S) /\ g.state = e.state /\ g.media = e.media
    BY PutDecent DEF Good
  <1> HIDE DEF g
  <1>2. \A r \in Sid : Registered(g, r)
    BY <1>1 DEF Good, Registered, Found
  <1> QED BY <1>1, <1>2 DEF Good, g

\* SendMessage also starts to wait for the response.
LEMMA SendMessageDecent ==
    ASSUME NEW p \in Peer, NEW S, NEW e, NEW s \in Sid, NEW act \in Act,
           Decent(p, e, S),
           act = "initiate" => p = Initiator[s],
           act = "accept" => p = Responder[s]
    PROVE  /\ Decent(p, SendMessage(p, e, s, act), S)
           /\ SendMessage(p, e, s, act).state = e.state
           /\ SendMessage(p, e, s, act).media = e.media
           /\ SendMessage(p, e, s, act).timers = e.timers
           /\ SendMessage(p, e, s, act).out =
                  e.out \cup {SetStanza(Remote(p, s), s, act)}
  <1> DEFINE f == [e EXCEPT !.waiting = @ \cup {<<s, act>>}]
  <1>1. e \in Endpoint
    BY DEF Decent
  <1>2. e.waiting \cup {<<s, act>>} \in SUBSET (Sid \X Act)
    BY <1>1, EndpointFields
  <1>3. /\ f \in Endpoint
        /\ f.state = e.state /\ f.media = e.media /\ f.calls = e.calls
        /\ f.timers = e.timers /\ f.call = e.call /\ f.focus = e.focus
        /\ f.queue = e.queue /\ f.out = e.out
    BY <1>1, <1>2 DEF Endpoint
  <1>4. SendMessage(p, e, s, act) = Put(p, f, s, "set", act)
    BY DEF SendMessage
  <1> HIDE DEF f
  <1>5. Decent(p, f, S)
    BY <1>3 DEF Decent, Pointers, Owned, Timed, Routed, Backed
  <1>6. "set" \in Kind
    BY DEF Kind
  <1> QED BY <1>3, <1>4, <1>5, <1>6, PutDecent DEF SetStanza

\* The other end of the session, seen from the responder.
LEMMA RemoteOfResponder ==
    ASSUME NEW s \in Sid
    PROVE  Remote(Responder[s], s) = Initiator[s]
  BY RouteAssumption DEF Remote

\* A state change after a SendMessage: the pattern of Accept, Reject and
\* TerminateWithReason.
LEMMA SendAndSet ==
    ASSUME NEW p \in Peer, NEW S, NEW e, NEW s \in Sid,
           NEW act \in Act \ {"initiate"}, Good(p, e, S), s \in e.media,
           NEW new \in Terminal \cup {"SENTACCEPT"},
           act = "accept" => p = Responder[s],
           new = "SENTACCEPT" => act = "accept"
    PROVE  Good(p, SetState(SendMessage(p, e, s, act), s, new), S)
  <1> DEFINE f == SendMessage(p, e, s, act)
  <1>1. /\ Decent(p, f, S)
        /\ f.state = e.state /\ f.media = e.media
        /\ f.out = e.out \cup {SetStanza(Remote(p, s), s, act)}
    BY SendMessageDecent DEF Good
  <1> HIDE DEF f
  <1>2. \A r \in Sid : Registered(f, r)
    BY <1>1 DEF Good, Registered, Found
  <1>3. new = "SENTACCEPT" => p = Responder[s] /\ AcceptOf(s) \in S \cup f.out
    BY <1>1, RemoteOfResponder DEF AcceptOf
  <1>4. new \in State \ {"NONE", "INIT"} /\ new # "INPROGRESS"
        /\ new # "RECEIVEDACCEPT" /\ new # "RECEIVEDINITIATE"
    BY DEF State, Terminal
  <1>5. Good(p, SetState(f, s, new), S)
    BY <1>1, <1>2, <1>3, <1>4, SetStateGood
  <1> QED BY <1>5 DEF f

\* Session::TerminateWithReason on a session that is in its call.
LEMMA TerminateGood ==
    ASSUME NEW p \in Peer, NEW S, NEW e, NEW s \in Sid,
           Good(p, e, S), s \in e.media
    PROVE  Good(p, TerminateWithReason(p, e, s), S)
  BY SendAndSet DEF TerminateWithReason, Terminal, Act

\* Session::Accept: only a session that received an initiate sends an accept,
\* so the accept goes to the initiator.
LEMMA AcceptGood ==
    ASSUME NEW p \in Peer, NEW S, NEW e, NEW s \in Sid,
           Good(p, e, S), s \in e.media
    PROVE  Good(p, Accept(p, e, s), S)
  <1>1. e.state[s] = "RECEIVEDINITIATE" => p = Responder[s]
    BY DEF Good, Decent, Timed
  <1> QED BY <1>1, SendAndSet DEF Accept, Act

\* Session::Reject.
LEMMA RejectGood ==
    ASSUME NEW p \in Peer, NEW S, NEW e, NEW s \in Sid, NEW busy,
           Good(p, e, S), s \in e.media
    PROVE  Good(p, Reject(p, e, s, busy), S)
  <1> DEFINE act == IF s \in GingleSids THEN "reject"
                    ELSE IF busy THEN "busy" ELSE "terminate"
             new == IF busy THEN "SENTBUSY" ELSE "SENTREJECT"
  <1>1. act \in Act \ {"initiate"} /\ act # "accept" /\ new \in Terminal
        /\ new # "SENTACCEPT"
    BY DEF Act, Terminal
  <1>2. Reject(p, e, s, busy) = IF e.state[s] # "RECEIVEDINITIATE" THEN e
                                ELSE SetState(SendMessage(p, e, s, act), s, new)
    BY DEF Reject
  <1> HIDE DEF act, new
  <1> QED BY <1>1, <1>2, SendAndSet

\* Session::SetError posts MSG_ERROR for a session that is in its call.
LEMMA SetErrorGood ==
    ASSUME NEW p \in Peer, NEW S, NEW e, NEW s \in Sid, NEW err \in Error,
           Good(p, e, S), s \in e.media
    PROVE  Good(p, SetError(e, s, err), S)
  <1> DEFINE m == Posted("MSG_ERROR", s)
             T == IF e.error[s] = err THEN e.timers
                  ELSE e.timers \ {<<"MSG_TERMINATECALL", s>>}
             g == SetError(e, s, err)
  <1>1. e \in Endpoint
    BY DEF Good, Decent
  <1>2. m \in QueueMsg
    BY PostedType DEF SessionMsg
  <1>3. Append(e.queue, m) \in Seq(QueueMsg)
    BY <1>1, <1>2, EndpointFields, AppendFacts
  <1>4. T \in SUBSET (Timer \X Sid) /\ T \subseteq e.timers
    BY <1>1, EndpointFields
  <1>5. g = [[e EXCEPT !.error[s] = err, !.timers = T]
                EXCEPT !.queue = Append(@, m)]
    BY DEF SetError, Post
  <1> HIDE DEF T, m
  <1>6. /\ g \in Endpoint
        /\ g.state = e.state /\ g.calls = e.calls /\ g.media = e.media
        /\ g.call = e.call /\ g.focus = e.focus /\ g.timers = T
        /\ g.queue = Append(e.queue, m) /\ g.out = e.out
    <2> HIDE DEF g
    <2> QED BY <1>1, <1>3, <1>4, <1>5 DEF Endpoint
  <1> HIDE DEF g
  <1>7. \A i \in DOMAIN g.queue :
           \/ i \in DOMAIN e.queue /\ g.queue[i] = e.queue[i]
           \/ g.queue[i] = m
    BY <1>1, <1>2, <1>6, EndpointFields, AppendFacts
  <1>8. m.id = "MSG_ERROR" /\ m.sid = s
    BY DEF Posted, m
  <1>9. Pointers(g) /\ Backed(g, S) /\ \A r \in Sid : Registered(g, r)
    BY <1>6 DEF Good, Decent, Pointers, Backed, Registered, Found
  <1>10. Owned(g)
    BY <1>4, <1>6, <1>7, <1>8 DEF Good, Decent, Owned
  <1>11. Timed(p, g)
    BY <1>4, <1>6 DEF Good, Decent, Timed
  <1>12. Routed(p, g, S)
    BY <1>6, <1>7, <1>8 DEF Good, Decent, Routed, MsgRouted, Kind
  <1> QED BY <1>6, <1>9, <1>10, <1>11, <1>12 DEF Good, Decent, g

\* The ack of the initiate, or an accept in its place.
LEMMA InitiateAckedGood ==
    ASSUME NEW p \in Peer, NEW S, NEW e, NEW s \in Sid,
           Good(p, e, S), s \in e.media
    PROVE  /\ Good(p, OnInitiateAcked(p, e, s), S)
           /\ s \in OnInitiateAcked(p, e, s).media
           /\ e.out \subseteq OnInitiateAcked(p, e, s).out
  <1> DEFINE d == [e EXCEPT !.timers = @ \ {<<"MSG_INIT_ACK_TIMEOUT", s>>}]
             f == SetState(d, s, "RECEIVEDINITIATE_ACK")
             g == [f EXCEPT !.acked = @ \cup {s}]
             h == [g EXCEPT !.cands[s] = "sent"]
  <1>1. Good(p, d, S)
    BY TimersGone
  <1>2. e \in Endpoint
    BY DEF Good, Decent
  <1>3. d.media = e.media /\ d.out = e.out
    BY <1>2 DEF Endpoint
  <1>4. OnInitiateAcked(p, e, s) =
            IF s \in f.acked THEN f
            ELSE IF g.cands[s] # "unsent" THEN g
            ELSE Put(p, h, s, "set", "info")
    BY DEF OnInitiateAcked, SendAllUnsentTransportInfoMessages
  <1>5. d \in Endpoint
    BY <1>1 DEF Good, Decent
  <1> HIDE DEF d
  <1>6. Good(p, f, S)
    BY <1>1, <1>3, SetStateGood DEF Good, State, Initiating
  <1>7. f.media = d.media /\ f.out = d.out
    BY <1>5 DEF SetState, Post, ClientOnSessionState, CallOnSessionState,
                Endpoint
  <1>8. f \in Endpoint
    BY <1>6 DEF Good, Decent
  <1> HIDE DEF f
  <1>9. f.acked \cup {s} \in SUBSET Sid
    BY <1>8, EndpointFields
  <1>10. /\ g \in Endpoint
         /\ g.state = f.state /\ g.calls = f.calls /\ g.media = f.media
         /\ g.call = f.call /\ g.focus = f.focus /\ g.timers = f.timers
         /\ g.queue = f.queue /\ g.out = f.out
    BY <1>8, <1>9 DEF Endpoint
  <1> HIDE DEF g
  <1>11. /\ h \in Endpoint
         /\ h.state = f.state /\ h.calls = f.calls /\ h.media = f.media
         /\ h.call = f.call /\ h.focus = f.focus /\ h.timers = f.timers
         /\ h.queue = f.queue /\ h.out = f.out
    BY <1>10 DEF Endpoint
  <1> HIDE DEF h
  <1>12. Good(p, g, S) /\ Good(p, h, S)
    BY <1>6, <1>10, <1>11, Unrelated
  <1>13. "set" \in Kind /\ "info" \in Act
    BY DEF Kind, Act
  <1>14. Good(p, Put(p, h, s, "set", "info"), S)
    BY <1>12, <1>13, PutGood
  <1>15. Put(p, h, s, "set", "info").media = h.media
         /\ h.out \subseteq Put(p, h, s, "set", "info").out
    BY <1>12, <1>13, PutDecent DEF Good
  <1> QED BY <1>3, <1>4, <1>6, <1>7, <1>10, <1>11, <1>12, <1>14, <1>15

\* SessionManager::DestroySession takes the session out of its call and clears
\* its messages and timers.
LEMMA DestroySessionGood ==
    ASSUME NEW p \in Peer, NEW S, NEW e, NEW s \in Sid, Good(p, e, S)
    PROVE  Good(p, DestroySession(e, s), S)
  <1> DEFINE m == Posted("MSG_CHECKAUTODESTROY", s)
             T == e.timers \ (SessionTimer \X {s})
             Q == Clear(e.queue, SessionMsg, s)
             g == DestroySession(e, s)
  <1>1. e \in Endpoint
    BY DEF Good, Decent
  <1>2. e.queue \in Seq(QueueMsg) /\ e.state \in [Sid -> State]
        /\ e.media \in SUBSET Sid /\ e.acked \in SUBSET Sid
    BY <1>1, EndpointFields
  <1>3. m \in QueueMsg /\ m.id = "MSG_CHECKAUTODESTROY" /\ m.sid = s
    BY PostedType DEF Posted
  <1>4. /\ Q \in Seq(QueueMsg) /\ DOMAIN Q = DOMAIN e.queue
        /\ \A i \in DOMAIN Q :
               \/ Q[i] = Posted("CLEARED", s)
               \/ /\ Q[i] = e.queue[i]
                  /\ e.queue[i].id \notin SessionMsg \/ e.queue[i].sid # s
    BY <1>2, ClearFacts
  <1>5. T \in SUBSET (Timer \X Sid) /\ T \subseteq e.timers
    BY <1>1, EndpointFields
  <1>6. e.media \ {s} \in SUBSET Sid /\ e.acked \ {s} \in SUBSET Sid
    BY <1>2
  <1>7. g = [e EXCEPT !.state[s] = "NONE", !.error[s] = "NONE",
                      !.cands[s] = "none", !.acked = @ \ {s},
                      !.media = @ \ {s}, !.timers = T,
                      !.queue = Append(Q, m)]
    BY DEF DestroySession
  <1> HIDE DEF m, Q
  <1>8. Append(Q, m) \in Seq(QueueMsg)
    BY <1>3, <1>4, AppendFacts
  <1>9. "NONE" \in State /\ "NONE" \in Error
    BY DEF State, Error
  <1>10. /\ g \in Endpoint
         /\ g.state = [e.state EXCEPT ![s] = "NONE"]
         /\ g.calls = e.calls /\ g.media = e.media \ {s}
         /\ g.call = e.call /\ g.focus = e.focus /\ g.timers = T
         /\ g.queue = Append(Q, m) /\ g.out = e.out
    <2> HIDE DEF g, T
    <2> QED BY <1>1, <1>5, <1>6, <1>7, <1>8, <1>9 DEF Endpoint
  <1> HIDE DEF g
  <1>11. \A i \in DOMAIN g.queue :
            \/ g.queue[i] = m
            \/ g.queue[i] = Posted("CLEARED", s)
            \/ /\ i \in DOMAIN e.queue /\ g.queue[i] = e.queue[i]
               /\ e.queue[i].id \notin SessionMsg \/ e.queue[i].sid # s
    <2>1. \A i \in DOMAIN Append(Q, m) :
             \/ i \in DOMAIN Q /\ Append(Q, m)[i] = Q[i]
             \/ Append(Q, m)[i] = m
      BY <1>3, <1>4, AppendFacts
    <2> QED BY <2>1, <1>4, <1>10
  <1>12. Posted("CLEARED", s).id = "CLEARED"
    BY DEF Posted
  <1>13. Pointers(g) /\ Backed(g, S) /\ \A r \in Sid : Registered(g, r)
    BY <1>2, <1>10 DEF Good, Decent, Pointers, Backed, Registered, Found
  <1>14. Owned(g)
    BY <1>3, <1>5, <1>10, <1>11, <1>12 DEF Good, Decent, Owned, SessionMsg
  <1>15. Timed(p, g)
    BY <1>2, <1>5, <1>10 DEF Good, Decent, Timed
  <1>16. Routed(p, g, S)
    BY <1>3, <1>10, <1>11, <1>12 DEF Good, Decent, Routed, MsgRouted, Kind
  <1> QED BY <1>10, <1>13, <1>14, <1>15, <1>16 DEF Good, Decent, g

\* MediaSessionClient::DestroyCall, of a call that holds no session.
LEMMA DestroyCallGood ==
    ASSUME NEW p \in Peer, NEW S, NEW e, NEW s \in Sid,
           Good(p, e, S), s \notin e.media
    PROVE  Good(p, DestroyCall(e, s), S)
  <1> DEFINE T == e.timers \ {<<"MSG_TERMINATECALL", s>>}
             Q == Clear(e.queue, {"MSG_CHECKAUTODESTROY"}, s)
             c == IF e.call = s THEN Null ELSE e.call
             f == IF e.focus = s THEN Null ELSE e.focus
             g == DestroyCall(e, s)
  <1>1. e \in Endpoint
    BY DEF Good, Decent
  <1>2. e.queue \in Seq(QueueMsg) /\ e.calls \ {s} \in SUBSET Sid
        /\ c \in Sid \cup {Null} /\ f \in Sid \cup {Null}
    BY <1>1, EndpointFields
  <1>3. /\ Q \in Seq(QueueMsg) /\ DOMAIN Q = DOMAIN e.queue
        /\ \A i \in DOMAIN Q :
               Q[i] = Posted("CLEARED", s) \/ Q[i] = e.queue[i]
    BY <1>2, ClearFacts
  <1>4. T \in SUBSET (Timer \X Sid) /\ T \subseteq e.timers
    BY <1>1, EndpointFields
  <1>5. g = [[e EXCEPT !.call = c] EXCEPT
                !.focus = f, !.calls = @ \ {s}, !.timers = T, !.queue = Q]
    BY <1>1 DEF DestroyCall, OnCallDestroy, Endpoint
  <1> HIDE DEF Q, c, f
  <1>6. /\ g \in Endpoint
        /\ g.state = e.state /\ g.calls = e.calls \ {s} /\ g.media = e.media
        /\ g.call = c /\ g.focus = f /\ g.timers = T
        /\ g.queue = Q /\ g.out = e.out
    <2> HIDE DEF g, T
    <2> QED BY <1>1, <1>2, <1>3, <1>4, <1>5 DEF Endpoint
  <1> HIDE DEF g
  <1>7. Posted("CLEARED", s).id = "CLEARED"
    BY DEF Posted
  <1>8. Pointers(g)
    BY <1>6 DEF Good, Decent, Pointers, c, f
  <1>9. Backed(g, S) /\ \A r \in Sid : Registered(g, r)
    BY <1>6 DEF Good, Decent, Backed, Registered, Found
  <1>10. Owned(g)
    BY <1>3, <1>4, <1>6, <1>7 DEF Good, Decent, Owned, SessionMsg
  <1>11. Timed(p, g)
    BY <1>4, <1>6 DEF Good, Decent, Timed
  <1>12. Routed(p, g, S)
    BY <1>3, <1>6, <1>7 DEF Good, Decent, Routed, MsgRouted, Kind
  <1> QED BY <1>6, <1>8, <1>9, <1>10, <1>11, <1>12 DEF Good, Decent, g

\* Taking the front message off the queue, and what is known of it.
LEMMA RestGood ==
    ASSUME NEW p \in Peer, NEW S, Good(p, ep[p], S), ep[p].queue # <<>>
    PROVE  /\ Good(p, Rest(p), S)
           /\ Front(p) \in QueueMsg
           /\ MsgRouted(p, Front(p), S)
           /\ Front(p).id \in SessionMsg => Front(p).sid \in Rest(p).media
  <1> DEFINE e == ep[p]
             g == Rest(p)
  <1>1. e \in Endpoint
    BY DEF Good, Decent
  <1>2. e.queue \in Seq(QueueMsg)
    BY <1>1, EndpointFields
  <1>3. /\ Front(p) \in QueueMsg
        /\ Tail(e.queue) \in Seq(QueueMsg)
        /\ \E i \in DOMAIN e.queue : Front(p) = e.queue[i]
        /\ \A i \in DOMAIN Tail(e.queue) :
               \E j \in DOMAIN e.queue : Tail(e.queue)[i] = e.queue[j]
    BY <1>2, TailFacts DEF Front
  <1>4. /\ g \in Endpoint
        /\ g.state = e.state /\ g.calls = e.calls /\ g.media = e.media
        /\ g.call = e.call /\ g.focus = e.focus /\ g.timers = e.timers
        /\ g.queue = Tail(e.queue) /\ g.out = e.out
    BY <1>1, <1>3 DEF Rest, Endpoint
  <1> HIDE DEF g, e
  <1>5. Good(p, e, S)
    BY DEF e
  <1>6. /\ Pointers(g) /\ Backed(g, S) /\ Timed(p, g)
        /\ \A r \in Sid : Registered(g, r)
    BY <1>4, <1>5 DEF Good, Decent, Pointers, Backed, Timed, Registered, Found
  <1>7. Owned(g)
    BY <1>3, <1>4, <1>5 DEF Good, Decent, Owned
  <1>8. Routed(p, g, S) /\ MsgRouted(p, Front(p), S)
    BY <1>3, <1>4, <1>5 DEF Good, Decent, Routed
  <1>9. Front(p).id \in SessionMsg => Front(p).sid \in g.media
    BY <1>3, <1>4, <1>5 DEF Good, Decent, Owned
  <1> QED BY <1>3, <1>4, <1>6, <1>7, <1>8, <1>9 DEF Good, Decent, g

-----------------------------------------------------------------------------
(* The handlers *)

\* Session::OnMessage(MSG_STATE).
LEMMA MsgStateGood ==
    ASSUME NEW p \in Peer, NEW S, NEW e, NEW s \in Sid,
           Good(p, e, S), s \in e.media
    PROVE  Good(p, OnMsgState(e, s), S)
  <1>1. CASE e.state[s] \in {"SENTACCEPT", "RECEIVEDACCEPT"}
    <2>1. AcceptOf(s) \in S \cup e.out
      BY <1>1 DEF Good, Decent, Backed
    <2>2. <<"MSG_TERMINATECALL", s>> \notin e.timers
      BY <1>1, RouteAssumption DEF Good, Decent, Timed
    <2>3. "INPROGRESS" \in State \ {"NONE", "INIT"}
      BY DEF State
    <2>4. Good(p, SetState(e, s, "INPROGRESS"), S)
      BY <2>1, <2>2, <2>3, SetStateGood DEF Good
    <2> QED BY <1>1, <2>4 DEF OnMsgState, Terminal
  <1>2. CASE e.state[s] \in Terminal
    BY <1>2, DestroySessionGood DEF OnMsgState, Terminal
  <1>3. CASE e.state[s] \notin {"SENTACCEPT", "RECEIVEDACCEPT"} \cup Terminal
    BY <1>3 DEF OnMsgState
  <1> QED BY <1>1, <1>2, <1>3

\* Call::OnMessage(MSG_CHECKAUTODESTROY).
LEMMA CheckAutoDestroyGood ==
    ASSUME NEW p \in Peer, NEW S, NEW e, NEW s \in Sid, Good(p, e, S)
    PROVE  Good(p, OnMsgCheckAutoDestroy(e, s), S)
  BY DestroyCallGood DEF OnMsgCheckAutoDestroy

\* AcceptCallS, DeclineCallS, EndCallS and Call::Terminate.
LEMMA UserHandlersGood ==
    ASSUME NEW p \in Peer, NEW S, NEW e, NEW s \in Sid, NEW busy,
           Good(p, e, S)
    PROVE  /\ Good(p, AcceptCallS(p, e, s), S)
           /\ Good(p, DeclineCallS(p, e, s, busy), S)
           /\ Good(p, CallTerminate(p, e, s), S)
           /\ Good(p, EndCallS(p, e, s), S)
  <1>1. Good(p, AcceptCallS(p, e, s), S)
    BY AcceptGood DEF AcceptCallS
  <1>2. Good(p, DeclineCallS(p, e, s, busy), S)
    BY RejectGood DEF DeclineCallS
  <1>3. Good(p, CallTerminate(p, e, s), S)
    BY TerminateGood DEF CallTerminate
  <1>4. Good(p, EndCallS(p, e, s), S)
    BY <1>3 DEF EndCallS
  <1> QED BY <1>1, <1>2, <1>3, <1>4

\* HoldCallS moves both pointers together.
LEMMA HoldGood ==
    ASSUME NEW p \in Peer, NEW S, NEW e, NEW s \in Sid, NEW hold \in BOOLEAN,
           Good(p, e, S)
    PROVE  Good(p, HoldCallS(e, s, hold), S)
  <1> DEFINE g == HoldCallS(e, s, hold)
  <1>1. e \in Endpoint
    BY DEF Good, Decent
  <1>2. g = e \/ \E c \in {s, Null} : /\ c = s => s \in e.calls
                                      /\ g = [e EXCEPT !.focus = c, !.call = c]
    BY DEF HoldCallS
  <1>3. CASE g = e
    BY <1>3
  <1>4. ASSUME NEW c \in {s, Null}, c = s => s \in e.calls,
               g = [e EXCEPT !.focus = c, !.call = c]
        PROVE  Good(p, g, S)
    <2> HIDE DEF g
    <2>1. /\ g \in Endpoint
          /\ g.state = e.state /\ g.calls = e.calls /\ g.media = e.media
          /\ g.call = c /\ g.focus = c /\ g.timers = e.timers
          /\ g.queue = e.queue /\ g.out = e.out
      BY <1>1, <1>4 DEF Endpoint
    <2>2. Pointers(g)
      BY <1>4, <2>1 DEF Pointers
    <2>3. /\ Owned(g) /\ Timed(p, g) /\ Routed(p, g, S) /\ Backed(g, S)
          /\ \A r \in Sid : Registered(g, r)
      BY <2>1 DEF Good, Decent, Owned, Timed, Routed, Backed, Registered, Found
    <2> QED BY <2>1, <2>2, <2>3 DEF Good, Decent
  <1> QED BY <1>2, <1>3, <1>4

\* A session joins a call: of CallS and of MediaSessionClient::OnSessionState.
\* T are the timers that are armed with it.
LEMMA JoinDecent ==
    ASSUME NEW p \in Peer, NEW S, NEW e, NEW f \in Endpoint, NEW s \in Sid,
           Good(p, e, S),
           f.calls = e.calls \cup {s}, f.media = e.media \cup {s},
           \A r \in Sid \ {s} : f.state[r] = e.state[r],
           f.state[s] = e.state[s] \/ f.state[s] = "INIT",
           f.timers \subseteq e.timers \cup {<<"MSG_INIT_ACK_TIMEOUT", s>>},
           f.call = e.call, f.focus = e.focus, f.queue = e.queue,
           f.out = e.out
    PROVE  Decent(p, f, S) /\ \A r \in Sid \ {s} : Registered(f, r)
  <1>1. Pointers(f) /\ Routed(p, f, S)
    BY DEF Good, Decent, Pointers, Routed
  <1>2. Owned(f)
    BY DEF Good, Decent, Owned
  <1>3. Timed(p, f)
    BY DEF Good, Decent, Timed
  <1>4. Backed(f, S)
    BY DEF Good, Decent, Backed
  <1>5. \A r \in Sid \ {s} : Registered(f, r)
    BY DEF Good, Registered, Found
  <1> QED BY <1>1, <1>2, <1>3, <1>4, <1>5 DEF Decent

\* CallS: the new session is in its call before its state changes.
LEMMA CallGood ==
    ASSUME NEW p \in Peer, NEW S, NEW e, NEW s \in Sid, NEW found \in BOOLEAN,
           Good(p, e, S), p = Initiator[s]
    PROVE  Good(p, CallS(p, e, s, found), S)
  <1> DEFINE T == e.timers \cup {<<"MSG_INIT_ACK_TIMEOUT", s>>}
             c == AddSession(CreateSession(e, s), s)
             f == [c EXCEPT !.timers = @ \cup {<<"MSG_INIT_ACK_TIMEOUT", s>>}]
             h == SendMessage(p, f, s, "initiate")
             g == SetState(h, s, "SENTINITIATE")
             k == [g EXCEPT !.timers = @ \cup {<<"MSG_TERMINATECALL", s>>}]
  <1>1. e \in Endpoint
    BY DEF Good, Decent
  <1>2. T \in SUBSET (Timer \X Sid)
    BY <1>1, EndpointFields DEF Timer, SessionTimer
  <1>3. e.calls \cup {s} \in SUBSET Sid /\ e.media \cup {s} \in SUBSET Sid
        /\ e.state \in [Sid -> State] /\ "INIT" \in State
    BY <1>1, EndpointFields DEF State
  <1>4. CallS(p, e, s, found) = IF found THEN k ELSE e
    BY DEF CallS, Initiate
  <1>5. /\ c \in Endpoint
         /\ c.state = [e.state EXCEPT ![s] = "INIT"]
         /\ c.calls = e.calls \cup {s} /\ c.media = e.media \cup {s}
         /\ c.call = e.call /\ c.focus = e.focus /\ c.timers = e.timers
         /\ c.queue = e.queue /\ c.out = e.out
    BY <1>1, <1>3 DEF AddSession, CreateSession, Endpoint
  <1> HIDE DEF c
  <1>6. c.timers \cup {<<"MSG_INIT_ACK_TIMEOUT", s>>} = T
    BY <1>5
  <1> HIDE DEF T
  <1>7. /\ f \in Endpoint
        /\ f.state = [e.state EXCEPT ![s] = "INIT"]
        /\ f.calls = e.calls \cup {s} /\ f.media = e.media \cup {s}
        /\ f.call = e.call /\ f.focus = e.focus /\ f.timers = T
        /\ f.queue = e.queue /\ f.out = e.out
    BY <1>2, <1>5, <1>6 DEF Endpoint
  <1> HIDE DEF f
  <1>8. Decent(p, f, S) /\ \A r \in Sid \ {s} : Registered(f, r)
    BY <1>3, <1>7, JoinDecent DEF T
  <1>9. Decent(p, h, S) /\ h.state = f.state /\ h.media = f.media
    BY <1>8, SendMessageDecent DEF Act
  <1> HIDE DEF h
  <1>10. \A r \in Sid \ {s} : Registered(h, r)
    BY <1>8, <1>9 DEF Registered, Found
  <1>11. s \in h.media
    BY <1>7, <1>9
  <1>12. Good(p, g, S)
    BY <1>9, <1>10, <1>11, SetStateGood DEF State, Initiating
  <1>13. h \in Endpoint /\ h.state \in [Sid -> State]
    BY <1>9, EndpointFields DEF Decent
  <1>14. g.media = h.media /\ g.state[s] = "SENTINITIATE"
    BY <1>13 DEF SetState, Post, ClientOnSessionState, CallOnSessionState,
                 Endpoint
  <1> HIDE DEF g
  <1>15. g \in Endpoint /\ s \in g.calls
    BY <1>11, <1>12, <1>14 DEF Good, Decent, Owned
  <1>16. g.timers \cup {<<"MSG_TERMINATECALL", s>>} \in SUBSET (Timer \X Sid)
    BY <1>15, EndpointFields DEF Timer
  <1>17. /\ k \in Endpoint
         /\ k.state = g.state /\ k.calls = g.calls /\ k.media = g.media
         /\ k.call = g.call /\ k.focus = g.focus
         /\ k.timers = g.timers \cup {<<"MSG_TERMINATECALL", s>>}
         /\ k.queue = g.queue /\ k.out = g.out
    BY <1>15, <1>16 DEF Endpoint
  <1> HIDE DEF k
  <1>18. /\ Pointers(k) /\ Routed(p, k, S) /\ Backed(k, S)
         /\ \A r \in Sid : Registered(k, r)
    BY <1>12, <1>17 DEF Good, Decent, Pointers, Routed, Backed, Registered, Found
  <1>19. Owned(k)
    BY <1>12, <1>17 DEF Good, Decent, Owned, SessionTimer
  <1>20. Timed(p, k)
    BY <1>12, <1>14, <1>15, <1>17 DEF Good, Decent, Timed
  <1>21. Good(p, k, S)
    BY <1>17, <1>18, <1>19, <1>20 DEF Good, Decent
  <1> QED BY <1>4, <1>21

\* An initiate for an unknown session, from its initiator.
LEMMA IncomingGood ==
    ASSUME NEW p \in Peer, NEW S, NEW e, NEW s \in Sid,
           Good(p, e, S), ~Found(e, s), p = Responder[s]
    PROVE  Good(p, Incoming(p, e, s), S)
  <1>1. e \in Endpoint
    BY DEF Good, Decent
  <1>2. e.state \in [Sid -> State] /\ "INIT" \in State
    BY <1>1, EndpointFields DEF State
  <1>3. {"result", "error"} \subseteq Kind /\ "initiate" \in Act
    BY DEF Kind, Act
  <1>4. CASE Offer[s] = "unusable"
    <2> DEFINE f == [e EXCEPT !.state[s] = "INIT"]
    <2>1. /\ f \in Endpoint
          /\ f.state = [e.state EXCEPT ![s] = "INIT"]
          /\ f.calls = e.calls /\ f.media = e.media /\ f.call = e.call
          /\ f.focus = e.focus /\ f.timers = e.timers /\ f.queue = e.queue
          /\ f.out = e.out
      BY <1>1, <1>2 DEF Endpoint
    <2>2. Incoming(p, e, s) = Put(p, f, s, "error", "initiate")
      BY <1>4 DEF Incoming, CreateSession
    <2> HIDE DEF f
    <2>3. Pointers(f) /\ Owned(f) /\ Routed(p, f, S)
      BY <2>1 DEF Good, Decent, Pointers, Owned, Routed
    <2>4. Timed(p, f) /\ Backed(f, S)
      BY <1>2, <2>1 DEF Good, Decent, Timed, Backed
    <2>5. \A r \in Sid : Registered(f, r)
      BY <1>2, <2>1 DEF Good, Registered, Found
    <2>6. Good(p, f, S)
      BY <2>1, <2>3, <2>4, <2>5 DEF Good, Decent
    <2> QED BY <1>3, <2>2, <2>6, PutGood
  <1>5. CASE Offer[s] # "unusable"
    <2> DEFINE f == [e EXCEPT !.calls = @ \cup {s}, !.media = @ \cup {s}]
               g == SetState(f, s, "RECEIVEDINITIATE")
               h == IF Offer[s] = "nocodec" THEN Reject(p, g, s, FALSE) ELSE g
    <2>1. e.calls \cup {s} \in SUBSET Sid /\ e.media \cup {s} \in SUBSET Sid
      BY <1>1, EndpointFields
    <2>2. /\ f \in Endpoint
          /\ f.state = e.state
          /\ f.calls = e.calls \cup {s} /\ f.media = e.media \cup {s}
          /\ f.call = e.call /\ f.focus = e.focus /\ f.timers = e.timers
          /\ f.queue = e.queue /\ f.out = e.out
      BY <1>1, <2>1 DEF Endpoint
    <2>3. Incoming(p, e, s) = Put(p, h, s, "result", "initiate")
      BY <1>5 DEF Incoming, AddSession
    <2> HIDE DEF f
    <2>4. Decent(p, f, S) /\ \A r \in Sid \ {s} : Registered(f, r)
      BY <2>2, JoinDecent
    <2>5. s \in f.media
      BY <2>2
    <2>6. Good(p, g, S)
      BY <2>4, <2>5, SetStateGood DEF State
    <2>7. g.media = f.media
      BY <2>2 DEF SetState, Post, ClientOnSessionState, CallOnSessionState,
                  Endpoint
    <2> HIDE DEF g
    <2>8. Good(p, h, S)
      BY <2>5, <2>6, <2>7, RejectGood
    <2> HIDE DEF h
    <2> QED BY <1>3, <2>3, <2>8, PutGood
  <1> QED BY <1>4, <1>5

\* Session::OnAcceptMessage.
LEMMA AcceptMessageGood ==
    ASSUME NEW p \in Peer, NEW S, NEW e, NEW s \in Sid,
           Good(p, e, S), s \in e.media, AcceptOf(s) \in S
    PROVE  Good(p, OnAcceptMessage(p, e, s), S)
  <1> DEFINE f == OnInitiateAcked(p, e, s)
             g == SetState(f, s, "RECEIVEDACCEPT")
  <1>1. {"result", "error"} \subseteq Kind /\ "accept" \in Act
    BY DEF Kind, Act
  <1>2. Good(p, f, S) /\ s \in f.media
    BY InitiateAckedGood
  <1> HIDE DEF f
  <1>3. Good(p, g, S)
    BY <1>2, SetStateGood DEF Good, State
  <1> HIDE DEF g
  <1>4. Good(p, Put(p, e, s, "error", "accept"), S)
    BY <1>1, PutGood
  <1>5. Good(p, Put(p, g, s, "result", "accept"), S)
    BY <1>1, <1>3, PutGood
  <1> QED BY <1>4, <1>5 DEF OnAcceptMessage, f, g

\* SessionManager::OnIncomingMessage.
LEMMA IncomingMessageGood ==
    ASSUME NEW p \in Peer, NEW S, NEW e, NEW s \in Sid, NEW act \in Act,
           Good(p, e, S),
           act = "initiate" => p = Responder[s],
           act = "accept" => AcceptOf(s) \in S
    PROVE  Good(p, OnIncomingMessage(p, e, s, act), S)
  <1> DEFINE h == OnIncomingMessage(p, e, s, act)
  <1>1. {"result", "error"} \subseteq Kind
    BY DEF Kind
  <1>2. \A f, kind : Good(p, f, S) /\ kind \in {"result", "error"}
                         => Good(p, Put(p, f, s, kind, act), S)
    BY <1>1, PutGood
  <1>3. CASE ~Found(e, s)
    <2>1. h = e \/ h = Put(p, e, s, "error", act)
          \/ (act = "initiate" /\ h = Incoming(p, e, s))
      BY <1>3 DEF OnIncomingMessage
    <2> QED BY <1>2, <1>3, <2>1, IncomingGood
  <1>4. CASE Found(e, s)
    <2>1. s \in e.media
      BY <1>4 DEF Good, Registered
    <2>2. \/ h = e
          \/ h = Put(p, e, s, "error", act) \/ h = Put(p, e, s, "result", act)
          \/ act = "accept" /\ h = OnAcceptMessage(p, e, s)
          \/ \E new \in {"RECEIVEDTERMINATE", "RECEIVEDBUSY"} :
                 h = Put(p, SetState(e, s, new), s, "result", act)
      BY <1>4 DEF OnIncomingMessage, OnRejectMessage, OnTerminateMessage, Act
    <2>3. \A new \in {"RECEIVEDTERMINATE", "RECEIVEDBUSY"} :
             Good(p, SetState(e, s, new), S)
      BY <2>1, SetStateGood DEF Good, State, Terminal
    <2> QED BY <1>2, <2>1, <2>2, <2>3, AcceptMessageGood
  <1> QED BY <1>3, <1>4

\* The response to an iq set, or its time running out.
LEMMA ResponseGood ==
    ASSUME NEW p \in Peer, NEW S, NEW e, NEW s \in Sid, NEW kind,
           NEW act \in Act, Good(p, e, S)
    PROVE  Good(p, OnResponse(p, e, s, kind, act), S)
  <1> DEFINE f == [e EXCEPT !.waiting = @ \ {<<s, act>>}]
             h == OnResponse(p, e, s, kind, act)
  <1>1. e \in Endpoint
    BY DEF Good, Decent
  <1>2. e.waiting \ {<<s, act>>} \in SUBSET (Sid \X Act)
    BY <1>1, EndpointFields
  <1>3. /\ f \in Endpoint
        /\ f.state = e.state /\ f.calls = e.calls /\ f.media = e.media
        /\ f.call = e.call /\ f.focus = e.focus /\ f.timers = e.timers
        /\ f.queue = e.queue /\ f.out = e.out
    BY <1>1, <1>2 DEF Endpoint
  <1>4. \/ h = f
        \/ /\ Found(e, s)
           /\ h = OnInitiateAcked(p, f, s) \/ h = SetError(f, s, "RESPONSE")
    BY DEF OnResponse
  <1> HIDE DEF f
  <1>5. Good(p, f, S)
    BY <1>3, Unrelated
  <1>6. Found(e, s) => s \in f.media
    BY <1>3 DEF Good, Registered
  <1>7. "RESPONSE" \in Error
    BY DEF Error
  <1> QED BY <1>4, <1>5, <1>6, <1>7, InitiateAckedGood, SetErrorGood

\* A client before its first call.
LEMMA IdleGood ==
    ASSUME NEW p \in Peer, NEW S
    PROVE  Good(p, IdleEndpoint, S)
  <1> DEFINE g == IdleEndpoint
  <1>1. /\ g \in Endpoint
        /\ g.state = [s \in Sid |-> "NONE"] /\ g.calls = {} /\ g.media = {}
        /\ g.call = Null /\ g.focus = Null /\ g.timers = {}
        /\ g.queue = <<>> /\ g.out = {}
    BY DEF IdleEndpoint, Endpoint, State, Error
  <1> HIDE DEF g
  <1>2. /\ Pointers(g) /\ Owned(g) /\ Timed(p, g) /\ Routed(p, g, S)
        /\ Backed(g, S)
    BY <1>1 DEF Pointers, Owned, Timed, Routed, Backed
  <1>3. \A r \in Sid : Registered(g, r)
    BY <1>1 DEF Registered, Found
  <1> QED BY <1>1, <1>2, <1>3 DEF Good, Decent, g

\* DisconnectS.
LEMMA DisconnectGood ==
    ASSUME NEW p \in Peer, NEW S, NEW e, Good(p, e, S)
    PROVE  Good(p, DisconnectS(e), S)
  <1> DEFINE st == [s \in Sid |-> IF s \in e.media THEN "NONE" ELSE e.state[s]]
             g == DisconnectS(e)
  <1>1. e \in Endpoint /\ e.state \in [Sid -> State]
    BY EndpointFields DEF Good, Decent
  <1>2. st \in [Sid -> State]
    BY <1>1 DEF State
  <1>3. \A s \in Sid : st[s] \in {"NONE", "INIT"}
    BY DEF Good, Registered, Found
  <1>4. g = [IdleEndpoint EXCEPT !.state = st, !.online = FALSE]
    BY DEF DisconnectS
  <1> HIDE DEF st
  <1>5. IdleEndpoint \in Endpoint
    BY IdleGood DEF Good, Decent
  <1>6. /\ g \in Endpoint
        /\ g.state = st /\ g.calls = {} /\ g.media = {}
        /\ g.call = Null /\ g.focus = Null /\ g.timers = {}
        /\ g.queue = <<>> /\ g.out = {}
    <2>1. g \in Endpoint
      BY <1>2, <1>4, <1>5 DEF Endpoint
    <2> QED BY <1>4, <2>1 DEF IdleEndpoint
  <1> HIDE DEF g
  <1>7. Pointers(g) /\ Owned(g) /\ Routed(p, g, S)
    BY <1>6 DEF Pointers, Owned, Routed
  <1>8. Timed(p, g) /\ Backed(g, S) /\ \A r \in Sid : Registered(g, r)
    BY <1>3, <1>6 DEF Timed, Backed, Registered, Found
  <1> QED BY <1>6, <1>7, <1>8 DEF Good, Decent, g

-----------------------------------------------------------------------------
(* From endpoints to the system *)

\* What was good stays so when more stanzas have been sent.
LEMMA GoodLater ==
    ASSUME NEW p \in Peer, NEW S, NEW R, NEW e, Good(p, e, S), S \subseteq R
    PROVE  Good(p, e, R)
  BY DEF Good, Decent, Routed, MsgRouted, Backed

\* A client whose handler leaves it good leaves the system good.
LEMMA BecomeInv ==
    ASSUME IInv, NEW p \in Peer, NEW e, Good(p, e, sent), Become(p, e)
    PROVE  IInv'
  <1> DEFINE f == [e EXCEPT !.out = {}]
  <1>1. e \in Endpoint
    BY DEF Good, Decent
  <1>2. sent' = sent \cup e.out /\ net' = net \cup e.out
        /\ ep' = [ep EXCEPT ![p] = f]
    BY DEF Become
  <1>3. e.out \subseteq Stanza /\ \A m \in e.out : StanzaRouted(m)
    BY <1>1, EndpointFields DEF Good, Decent, Routed
  <1>4. /\ f \in Endpoint
        /\ f.state = e.state /\ f.calls = e.calls /\ f.media = e.media
        /\ f.call = e.call /\ f.focus = e.focus /\ f.timers = e.timers
        /\ f.queue = e.queue /\ f.out = {}
    BY <1>1 DEF Endpoint
  <1> HIDE DEF f
  <1>5. Good(p, e, sent')
    BY <1>2, GoodLater
  <1>6. Pointers(f) /\ Owned(f) /\ Timed(p, f)
    BY <1>4 DEF Good, Decent, Pointers, Owned, Timed
  <1>7. Routed(p, f, sent')
    BY <1>4, <1>5 DEF Good, Decent, Routed
  <1>8. Backed(f, sent')
    BY <1>2, <1>4 DEF Good, Decent, Backed
  <1>9. \A r \in Sid : Registered(f, r)
    BY <1>4 DEF Good, Registered, Found
  <1>10. Good(p, f, sent')
    BY <1>4, <1>6, <1>7, <1>8, <1>9 DEF Good, Decent
  <1>11. \A q \in Peer \ {p} : Good(q, ep[q], sent')
    BY <1>2, GoodLater DEF IInv
  <1>12. \A q \in Peer : ep'[q] = IF q = p THEN f ELSE ep[q]
    BY <1>2 DEF IInv
  <1>13. \A q \in Peer : Good(q, ep'[q], sent') /\ ep'[q].out = {}
    BY <1>4, <1>10, <1>11, <1>12 DEF IInv
  <1>14. ep' \in [Peer -> Endpoint]
    BY <1>2, <1>4 DEF IInv
  <1>15. net' \subseteq sent' /\ sent' \subseteq Stanza
         /\ \A m \in sent' : StanzaRouted(m)
    BY <1>2, <1>3 DEF IInv
  <1> QED BY <1>13, <1>14, <1>15 DEF IInv, Good, Decent, Pointers, Owned,
                                     Timed, Routed, Backed

-----------------------------------------------------------------------------
(* The actions *)

\* Every message of the signalling thread.
LEMMA DispatchInv ==
    ASSUME IInv, NEW p \in Peer, Dispatch(p)
    PROVE  IInv'
  <1> DEFINE e == Rest(p)
             m == Front(p)
             s == Front(p).sid
  <1>1. Good(p, ep[p], sent)
    BY DEF IInv
  <1>2. ep[p].queue # <<>>
    BY DEF Dispatch, Dispatching, MsgState, MsgError, MsgCheckAutoDestroy,
           MsgCleared, MsgCall, MsgAcceptCall, MsgDeclineCall, MsgEndCall,
           MsgHoldCall, MsgDisconnect, MsgIncomingSet, MsgIncomingResponse
  <1>3. /\ Good(p, e, sent) /\ m \in QueueMsg /\ MsgRouted(p, m, sent)
        /\ m.id \in SessionMsg => s \in e.media
    BY <1>1, <1>2, RestGood
  <1>4. s \in Sid
    BY <1>3 DEF QueueMsg
  <1> HIDE DEF e, m, s
  <1>5. \A f : Good(p, f, sent) /\ Become(p, f) => IInv'
    BY BecomeInv
  <1>6. CASE MsgState(p)
    BY <1>3, <1>4, <1>5, <1>6, MsgStateGood
    DEF MsgState, Dispatching, SessionMsg, e, m, s
  <1>7. CASE MsgError(p)
    BY <1>3, <1>4, <1>5, <1>7, TerminateGood
    DEF MsgError, Dispatching, SessionMsg, e, m, s
  <1>8. CASE MsgCheckAutoDestroy(p)
    BY <1>3, <1>4, <1>5, <1>8, CheckAutoDestroyGood
    DEF MsgCheckAutoDestroy, e, s
  <1>9. CASE MsgCleared(p)
    BY <1>3, <1>5, <1>9 DEF MsgCleared, e
  <1>10. CASE MsgCall(p)
    <2>1. p = Initiator[s]
      BY <1>3, <1>10 DEF MsgCall, Dispatching, MsgRouted, m, s
    <2>2. PICK found \in BOOLEAN : Become(p, CallS(p, e, s, found))
      BY <1>10 DEF MsgCall, e, s
    <2>3. Good(p, CallS(p, e, s, found), sent)
      BY <1>3, <1>4, <2>1, CallGood
    <2> QED BY <1>5, <2>2, <2>3
  <1>11. CASE MsgAcceptCall(p)
    BY <1>3, <1>4, <1>5, <1>11, UserHandlersGood DEF MsgAcceptCall, e, s
  <1>12. CASE MsgDeclineCall(p)
    BY <1>3, <1>4, <1>5, <1>12, UserHandlersGood DEF MsgDeclineCall, e, s
  <1>13. CASE MsgEndCall(p)
    BY <1>3, <1>4, <1>5, <1>13, UserHandlersGood DEF MsgEndCall, e, s
  <1>14. CASE MsgHoldCall(p)
    <2>1. Good(p, HoldCallS(e, s, Front(p).id = "HOLD"), sent)
      BY <1>3, <1>4, HoldGood
    <2> QED BY <1>5, <1>14, <2>1 DEF MsgHoldCall, e, s
  <1>15. CASE MsgDisconnect(p)
    BY <1>1, <1>5, <1>15, DisconnectGood DEF MsgDisconnect
  <1>16. CASE MsgIncomingSet(p)
    <2>1. m.id = "set"
      BY <1>16 DEF MsgIncomingSet, Dispatching, m
    <2>2. /\ m.act \in Act
          /\ m.act = "initiate" => p = Responder[s]
          /\ m.act = "accept" => AcceptOf(s) \in sent
      BY <1>3, <2>1 DEF MsgRouted, Kind, m, s
    <2>3. Good(p, OnIncomingMessage(p, e, s, m.act), sent)
      BY <1>3, <1>4, <2>2, IncomingMessageGood
    <2> QED BY <1>5, <1>16, <2>3 DEF MsgIncomingSet, e, m, s
  <1>17. CASE MsgIncomingResponse(p)
    <2>1. m.act \in Act
      BY <1>3, <1>17 DEF MsgIncomingResponse, Dispatching, MsgRouted, Kind, m
    <2>2. Good(p, OnResponse(p, e, s, m.id, m.act), sent)
      BY <1>3, <1>4, <2>1, ResponseGood
    <2> QED BY <1>5, <1>17, <2>2 DEF MsgIncomingResponse, e, m, s
  <1> QED BY <1>6, <1>7, <1>8, <1>9, <1>10, <1>11, <1>12, <1>13, <1>14, <1>15,
             <1>16, <1>17 DEF Dispatch

\* Every timer.
LEMMA TimeoutsInv ==
    ASSUME IInv, NEW p \in Peer, NEW s \in Sid, Timeouts(p, s)
    PROVE  IInv'
  <1> DEFINE e == ep[p]
             Without(t) == [e EXCEPT !.timers = @ \ {<<t, s>>}]
  <1>1. Good(p, e, sent) /\ e \in Endpoint
    BY DEF IInv, Good, Decent
  <1>2. \A t : Good(p, Without(t), sent) /\ Without(t).media = e.media
    <2> TAKE t
    <2>1. Good(p, [e EXCEPT !.timers = @ \ {<<t, s>>}], sent)
      BY <1>1, TimersGone
    <2>2. Without(t).media = e.media
      BY <1>1 DEF Endpoint
    <2> QED BY <2>1, <2>2
  <1>3. \A t \in SessionTimer : <<t, s>> \in e.timers => s \in e.media
    BY <1>1 DEF Good, Decent, Owned
  <1>4. \A f : Good(p, f, sent) /\ Become(p, f) => IInv'
    BY BecomeInv
  <1>5. CASE SessionTimeout(p, s)
    <2>1. Good(p, SetError(Without("MSG_TIMEOUT"), s, "TIME"), sent)
      <3>1. s \in Without("MSG_TIMEOUT").media
        BY <1>2, <1>3, <1>5 DEF SessionTimeout, SessionTimer
      <3> HIDE DEF Without
      <3> QED BY <1>2, <3>1, SetErrorGood DEF Error
    <2> QED BY <1>4, <1>5, <2>1 DEF SessionTimeout
  <1>6. CASE InitAckTimeout(p, s)
    <2>1. Good(p, SetError(Without("MSG_INIT_ACK_TIMEOUT"), s, "ACK_TIME"), sent)
      <3>1. s \in Without("MSG_INIT_ACK_TIMEOUT").media
        BY <1>2, <1>3, <1>6 DEF InitAckTimeout, SessionTimer
      <3> HIDE DEF Without
      <3> QED BY <1>2, <3>1, SetErrorGood DEF Error
    <2> QED BY <1>4, <1>6, <2>1 DEF InitAckTimeout
  <1>7. CASE NoAnswerTimeout(p, s)
    <2>1. Good(p, CallTerminate(p, Without("MSG_TERMINATECALL"), s), sent)
      <3> HIDE DEF Without
      <3> QED BY <1>2, UserHandlersGood
    <2> QED BY <1>4, <1>7, <2>1 DEF NoAnswerTimeout
  <1>8. CASE \E act \in Act : SendTimeout(p, s, act)
    <2>1. PICK act \in Act : SendTimeout(p, s, act)
      BY <1>8
    <2>2. Good(p, OnResponse(p, e, s, "error", act), sent)
      BY <1>1, ResponseGood
    <2> QED BY <1>4, <2>1, <2>2 DEF SendTimeout
  <1> QED BY <1>5, <1>6, <1>7, <1>8 DEF Timeouts

\* Writability changes and gathered candidates.
LEMMA TransportInv ==
    ASSUME IInv, NEW p \in Peer, NEW s \in Sid, Transport(p, s)
    PROVE  IInv'
  <1> DEFINE e == ep[p]
  <1>1. Good(p, e, sent) /\ e \in Endpoint
    BY DEF IInv, Good, Decent
  <1>2. \A f : Good(p, f, sent) /\ Become(p, f) => IInv'
    BY BecomeInv
  <1>3. ASSUME NEW writable \in BOOLEAN, OnTransportWritable(p, s, writable)
        PROVE  IInv'
    <2> DEFINE T == IF writable THEN e.timers \ {<<"MSG_TIMEOUT", s>>}
                    ELSE e.timers \cup {<<"MSG_TIMEOUT", s>>}
               f == [e EXCEPT !.timers = T]
    <2>1. T \in SUBSET (Timer \X Sid)
      BY <1>1, EndpointFields DEF Timer, SessionTimer
    <2>2. T \subseteq e.timers \cup {<<"MSG_TIMEOUT", s>>} /\ s \in e.media
      BY <1>3 DEF OnTransportWritable
    <2>3. Become(p, f)
      BY <1>3 DEF OnTransportWritable
    <2> HIDE DEF T
    <2>4. /\ f \in Endpoint
          /\ f.state = e.state /\ f.calls = e.calls /\ f.media = e.media
          /\ f.call = e.call /\ f.focus = e.focus /\ f.timers = T
          /\ f.queue = e.queue /\ f.out = e.out
      BY <1>1, <2>1 DEF Endpoint
    <2> HIDE DEF f, e
    <2>5. Owned(f)
      BY <1>1, <2>2, <2>4 DEF Good, Decent, Owned
    <2>6. Timed(p, f)
      BY <1>1, <2>2, <2>4 DEF Good, Decent, Timed
    <2>7. /\ Pointers(f) /\ Routed(p, f, sent) /\ Backed(f, sent)
          /\ \A r \in Sid : Registered(f, r)
      BY <1>1, <2>4 DEF Good, Decent, Pointers, Routed, Backed, Registered, Found
    <2>8. Good(p, f, sent)
      BY <2>4, <2>5, <2>6, <2>7 DEF Good, Decent
    <2> QED BY <1>2, <2>3, <2>8
  <1>4. ASSUME OnCandidatesReady(p, s)
        PROVE  IInv'
    <2> DEFINE f == [e EXCEPT !.cands[s] = "unsent"]
               g == [e EXCEPT !.cands[s] = "sent"]
    <2>1. Become(p, f) \/ Become(p, Put(p, g, s, "set", "info"))
      BY <1>4 DEF OnCandidatesReady
    <2>2. /\ f \in Endpoint
          /\ f.state = e.state /\ f.calls = e.calls /\ f.media = e.media
          /\ f.call = e.call /\ f.focus = e.focus /\ f.timers = e.timers
          /\ f.queue = e.queue /\ f.out = e.out
      BY <1>1 DEF Endpoint
    <2>3. /\ g \in Endpoint
          /\ g.state = e.state /\ g.calls = e.calls /\ g.media = e.media
          /\ g.call = e.call /\ g.focus = e.focus /\ g.timers = e.timers
          /\ g.queue = e.queue /\ g.out = e.out
      BY <1>1 DEF Endpoint
    <2> HIDE DEF f, g, e
    <2>4. Good(p, f, sent) /\ Good(p, g, sent)
      BY <1>1, <2>2, <2>3, Unrelated
    <2>5. Good(p, Put(p, g, s, "set", "info"), sent)
      BY <2>4, PutGood DEF Kind, Act
    <2> QED BY <1>2, <2>1, <2>4, <2>5
  <1> QED BY <1>3, <1>4 DEF Transport

\* A message joins the end of a queue.
LEMMA AppendGood ==
    ASSUME NEW p \in Peer, NEW S, NEW e, NEW m \in QueueMsg, Good(p, e, S),
           m.id \notin SessionMsg, MsgRouted(p, m, S)
    PROVE  Good(p, [e EXCEPT !.queue = Append(@, m)], S)
  <1> DEFINE g == [e EXCEPT !.queue = Append(@, m)]
  <1>1. e \in Endpoint /\ e.queue \in Seq(QueueMsg)
    BY EndpointFields DEF Good, Decent
  <1>2. /\ Append(e.queue, m) \in Seq(QueueMsg)
        /\ \A i \in DOMAIN Append(e.queue, m) :
              \/ i \in DOMAIN e.queue /\ Append(e.queue, m)[i] = e.queue[i]
              \/ Append(e.queue, m)[i] = m
    BY <1>1, AppendFacts
  <1>3. /\ g \in Endpoint
        /\ g.state = e.state /\ g.calls = e.calls /\ g.media = e.media
        /\ g.call = e.call /\ g.focus = e.focus /\ g.timers = e.timers
        /\ g.queue = Append(e.queue, m) /\ g.out = e.out
    BY <1>1, <1>2 DEF Endpoint
  <1> HIDE DEF g
  <1>4. Owned(g)
    BY <1>2, <1>3 DEF Good, Decent, Owned
  <1>5. Routed(p, g, S)
    BY <1>2, <1>3 DEF Good, Decent, Routed
  <1>6. /\ Pointers(g) /\ Timed(p, g) /\ Backed(g, S)
        /\ \A r \in Sid : Registered(g, r)
    BY <1>3 DEF Good, Decent, Pointers, Timed, Backed, Registered, Found
  <1> QED BY <1>3, <1>4, <1>5, <1>6 DEF Good, Decent, g

\* Commands the user posts.
LEMMA UserCommandInv ==
    ASSUME IInv, NEW p \in Peer, NEW s \in Sid, NEW c \in Command,
           UserCommand(p, c, s)
    PROVE  IInv'
  <1> DEFINE m == Posted(c, s)
  <1>1. m \in QueueMsg
    BY PostedType
  <1>2. m.id = c /\ m.sid = s /\ c \notin SessionMsg /\ c \notin Kind
    BY DEF Posted, Command, SessionMsg, Kind
  <1>3. c = "CALL" => p = Initiator[s]
    BY DEF UserCommand
  <1>4. MsgRouted(p, m, sent)
    BY <1>2, <1>3 DEF MsgRouted, Kind
  <1>5. Become(p, [ep[p] EXCEPT !.queue = Append(@, m)])
    BY DEF UserCommand, Post
  <1> HIDE DEF m
  <1>6. Good(p, [ep[p] EXCEPT !.queue = Append(@, m)], sent)
    BY <1>1, <1>2, <1>4, AppendGood DEF IInv
  <1> QED BY <1>5, <1>6, BecomeInv

\* What the server does with a stanza.
LEMMA ServerInv ==
    ASSUME IInv, NEW m \in sent, Server(m)
    PROVE  IInv'
  <1>1. m \in Stanza /\ StanzaRouted(m) /\ m.to \in Peer /\ m.sid \in Sid
        /\ m.kind \in Kind /\ m.act \in Act
    BY DEF IInv, Stanza
  <1>2. CASE Arrive(m)
    <2> DEFINE q == [id |-> m.kind, sid |-> m.sid, act |-> m.act]
               f == [ep[m.to] EXCEPT !.queue = Append(@, q)]
    <2>1. q \in QueueMsg /\ q.id \notin SessionMsg
      BY <1>1 DEF QueueMsg, Kind, SessionMsg
    <2>2. /\ m.kind = "set" /\ m.act = "accept" =>
                m = SetStanza(Initiator[m.sid], m.sid, "accept")
      BY <1>1 DEF SetStanza, StanzaRouted, Stanza
    <2>3. MsgRouted(m.to, q, sent)
      BY <1>1, <2>2 DEF MsgRouted, StanzaRouted, AcceptOf, Kind
    <2>4. ep' = [ep EXCEPT ![m.to] = f] /\ net' = net \ {m} /\ sent' = sent
      BY <1>2 DEF Arrive
    <2> HIDE DEF q
    <2>5. Good(m.to, f, sent)
      BY <1>1, <2>1, <2>3, AppendGood DEF IInv
    <2>6. f.out = ep[m.to].out
      BY <1>1 DEF IInv, Endpoint
    <2>7. f \in Endpoint
      BY <2>5 DEF Good, Decent
    <2> HIDE DEF f
    <2>8. \A r \in Peer : ep'[r] = IF r = m.to THEN f ELSE ep[r]
      BY <2>4 DEF IInv
    <2>9. \A r \in Peer : Good(r, ep'[r], sent') /\ ep'[r].out = {}
      BY <1>1, <2>4, <2>5, <2>6, <2>8 DEF IInv
    <2>10. ep' \in [Peer -> Endpoint]
      BY <1>1, <2>4, <2>7 DEF IInv
    <2>11. net' \subseteq sent' /\ sent' \subseteq Stanza
           /\ \A r \in sent' : StanzaRouted(r)
      BY <2>4 DEF IInv
    <2> QED BY <2>9, <2>10, <2>11 DEF IInv, Good, Decent, Pointers, Owned,
                                      Timed, Routed, Backed
  <1>3. ASSUME NEW kind \in {"error", "wait"}, Bounce(m, kind)
        PROVE  IInv'
    <2> DEFINE r == [m EXCEPT !.to = Remote(m.to, m.sid), !.kind = kind]
    <2>1. r \in Stanza /\ StanzaRouted(r)
      BY <1>1, RouteAssumption DEF Stanza, Remote, Kind, StanzaRouted
    <2>2. PICK back \in SUBSET {r} :
             net' = (net \ {m}) \cup back /\ sent' = sent \cup back /\ ep' = ep
      BY <1>3 DEF Bounce
    <2> HIDE DEF r
    <2>3. \A p \in Peer : Good(p, ep[p], sent')
      BY <2>2, GoodLater DEF IInv
    <2>4. net' \subseteq sent' /\ sent' \subseteq Stanza
          /\ \A n \in sent' : StanzaRouted(n)
      BY <2>1, <2>2 DEF IInv
    <2> QED BY <2>2, <2>3, <2>4 DEF IInv, Good, Decent, Pointers, Owned,
                                    Timed, Routed, Backed
  <1>4. CASE Lose(m)
    BY <1>4 DEF Lose, IInv, Good, Decent, Pointers, Owned, Timed, Routed, Backed
  <1> QED BY <1>2, <1>3, <1>4 DEF Server

-----------------------------------------------------------------------------
(* Theorems *)

\* IInv holds initially.
LEMMA InitIInv ==
    Init => IInv
  <1> SUFFICES ASSUME Init PROVE IInv
    OBVIOUS
  <1>1. \A p \in Peer : Good(p, IdleEndpoint, sent) /\ IdleEndpoint.out = {}
    BY IdleGood DEF IdleEndpoint
  <1>2. \A p \in Peer : ep[p] = IdleEndpoint
    BY DEF Init
  <1>3. ep \in [Peer -> Endpoint]
    BY <1>1 DEF Init, Good, Decent
  <1> QED BY <1>1, <1>2, <1>3 DEF Init, IInv

\* Every step preserves IInv.
LEMMA NextIInv ==
    IInv /\ [Next]_vars => IInv'
  <1> SUFFICES ASSUME IInv, [Next]_vars PROVE IInv'
    OBVIOUS
  <1>1. CASE UNCHANGED vars
    BY <1>1 DEF vars, IInv, Good, Decent, Pointers, Owned, Timed, Routed, Backed
  <1>2. ASSUME NEW p \in Peer, Dispatch(p) PROVE IInv'
    BY <1>2, DispatchInv
  <1>3. ASSUME NEW p \in Peer, NEW s \in Sid, Timeouts(p, s) PROVE IInv'
    BY <1>3, TimeoutsInv
  <1>4. ASSUME NEW p \in Peer, NEW s \in Sid, Transport(p, s) PROVE IInv'
    BY <1>4, TransportInv
  <1>5. ASSUME NEW p \in Peer, NEW s \in Sid, NEW c \in Command,
               UserCommand(p, c, s)
        PROVE  IInv'
    BY <1>5, UserCommandInv
  <1>6. ASSUME NEW m \in sent, Server(m) PROVE IInv'
    BY <1>6, ServerInv
  <1> QED BY <1>1, <1>2, <1>3, <1>4, <1>5, <1>6 DEF Next

\* IInv implies the properties.
LEMMA IInvImplies ==
    IInv => /\ TypeOK
            /\ CallPointersAlive
            /\ SessionsAndCallsAgree
            /\ NoAnswerTimerOnlyUnanswered
            /\ InProgressWasAccepted
  <1> SUFFICES ASSUME IInv
               PROVE  /\ TypeOK
                      /\ CallPointersAlive
                      /\ SessionsAndCallsAgree
                      /\ NoAnswerTimerOnlyUnanswered
                      /\ InProgressWasAccepted
    OBVIOUS
  <1>1. TypeOK
    BY DEF IInv, TypeOK
  <1>2. CallPointersAlive
    BY DEF IInv, Good, Decent, Pointers, CallPointersAlive
  <1>3. SessionsAndCallsAgree
    BY DEF IInv, Good, Decent, Owned, Registered, SessionsAndCallsAgree
  <1>4. NoAnswerTimerOnlyUnanswered
    BY DEF IInv, Good, Decent, Timed, NoAnswerTimerOnlyUnanswered
  <1>5. InProgressWasAccepted
    BY DEF IInv, Good, Decent, Backed, AcceptOf, InProgressWasAccepted
  <1> QED BY <1>1, <1>2, <1>3, <1>4, <1>5

\* IInv is an invariant of the clients and the server between them.
THEOREM Invariance == Spec => []IInv
  <1>1. Init => IInv
    BY InitIInv
  <1>2. IInv /\ [Next]_vars => IInv'
    BY NextIInv
  <1> QED BY <1>1, <1>2, PTL DEF Spec

\* Every field of every client keeps its type, handlers leave nothing unsent
\* and the server holds only what was sent.
THEOREM TypeCorrectness == Spec => []TypeOK
  <1>1. IInv => TypeOK
    BY IInvImplies
  <1> QED BY <1>1, Invariance, PTL

\* ClientSignalingThread::call_ and MediaSessionClient::focus_call_ never point
\* to a deleted call and always agree, with any number of calls and clients.
THEOREM PointersStayAlive == Spec => []CallPointersAlive
  <1>1. IInv => CallPointersAlive
    BY IInvImplies
  <1> QED BY <1>1, Invariance, PTL

\* The session maps of SessionManager, MediaSessionClient and Call agree.
THEOREM MapsStayConsistent == Spec => []SessionsAndCallsAgree
  <1>1. IInv => SessionsAndCallsAgree
    BY IInvImplies
  <1> QED BY <1>1, Invariance, PTL

\* The no-answer timer of Call::InitiateSession never runs on an answered call.
THEOREM AnswerStopsTimer == Spec => []NoAnswerTimerOnlyUnanswered
  <1>1. IInv => NoAnswerTimerOnlyUnanswered
    BY IInvImplies
  <1> QED BY <1>1, Invariance, PTL

\* No side believes a call accepted unless the callee sent an accept, whatever
\* the server loses, repeats or reorders.
THEOREM AcceptedFirst == Spec => []InProgressWasAccepted
  <1>1. IInv => InProgressWasAccepted
    BY IInvImplies
  <1> QED BY <1>1, Invariance, PTL

=============================================================================
