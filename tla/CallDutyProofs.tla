--------------------------- MODULE CallDutyProofs ---------------------------
(***************************************************************************)
(* More theorems about CallSession, for every set of clients, sids and     *)
(* offers: what is over has its destruction in the queue, candidates wait  *)
(* for the initiate, only a late ack revives a session, a ringing phone is *)
(* going to be hung up, and the sessions implement CallPromise.            *)
(***************************************************************************)
EXTENDS CallSessionProofs

-----------------------------------------------------------------------------
(* What is invariant besides IInv of CallSessionProofs *)

\* The message that destroys a session that is over, and the one that destroys
\* a call without sessions.
StateDue(e, s) == e.state[s] \in Terminal => Pending(e, "MSG_STATE", s)
CheckDue(e, s) == s \in e.calls \ e.media => Pending(e, "MSG_CHECKAUTODESTROY", s)

\* The responder has shown that it has the session.
Acknowledges(m, s) ==
    /\ m.to = Initiator[s] /\ m.sid = s
    /\ \/ m.kind = "result" /\ m.act = "initiate"
       \/ m.kind = "set" /\ m.act = "accept"
Acknowledged(s) == \E m \in sent : Acknowledges(m, s)

Used(s) == \E m \in sent : m.sid = s

\* The caller believes that its initiate arrived only when it did.
Acks == \A s \in Sid : s \in ep[Initiator[s]].acked => Acknowledged(s)

\* A queued stanza was sent.
Carried ==
    \A p \in Peer : \A i \in DOMAIN ep[p].queue :
        ep[p].queue[i].id \in Kind =>
            [to |-> p, sid |-> ep[p].queue[i].sid, kind |-> ep[p].queue[i].id,
             act |-> ep[p].queue[i].act] \in sent

\* Nobody keeps anything of a sid before its first stanza.
Keeps(e, s) == \/ e.state[s] # "NONE"
               \/ s \in e.calls
               \/ \E act \in Act : <<s, act>> \in e.waiting

Idle(m) == m.id \in {"CALL", "DISCONNECT", "CLEARED"}
Begun ==
    \A p \in Peer :
        /\ \A s \in Sid : Keeps(ep[p], s) => Used(s)
        /\ \A i \in DOMAIN ep[p].queue :
              ~Idle(ep[p].queue[i]) => Used(ep[p].queue[i].sid)

\* A call is placed once: nothing was sent for it yet.
OneCall(q) ==
    \A i, j \in DOMAIN q :
        q[i].id = "CALL" /\ q[j].id = "CALL" /\ q[i].sid = q[j].sid => i = j
Placed ==
    \A p \in Peer :
        /\ OneCall(ep[p].queue)
        /\ \A i \in DOMAIN ep[p].queue :
              ep[p].queue[i].id = "CALL" => /\ ep[p].queue[i].act = "-"
                                            /\ ~Used(ep[p].queue[i].sid)

\* Only the initiator waits for the response to an initiate.
Asked == \A p \in Peer, s \in Sid :
            <<s, "initiate">> \in ep[p].waiting => p = Initiator[s]

\* Only the initiator receives an accept.
Roles == \A p \in Peer, s \in Sid :
            ep[p].state[s] = "RECEIVEDACCEPT" => p = Initiator[s]

DInv == DoomedIsQueued /\ CandidatesFollowInitiate /\ Acks /\ Carried /\ Begun
          /\ Placed /\ Asked /\ Roles

-----------------------------------------------------------------------------
(* What a handler may do to the endpoint e of p, all of it about the session *)
(* s: A is {s} if it may count its initiate as acknowledged, N are the       *)
(* states that are not ends it may reach.                                    *)

Duties(e, f) ==
    \A r \in Sid : /\ StateDue(e, r) => StateDue(f, r)
                   /\ CheckDue(e, r) => CheckDue(f, r)

\* Only messages of s that are not stanzas or calls come into the queue.
Queues(e, f, s) ==
    \A i \in DOMAIN f.queue :
        \/ i \in DOMAIN e.queue /\ f.queue[i] = e.queue[i]
        \/ f.queue[i].sid = s /\ f.queue[i].id \notin Kind \cup {"CALL"}

Sends(e, f, s, A) ==
    \A m \in f.out :
        \/ m \in e.out
        \/ m.sid = s /\ (m = SetStanza(Responder[s], s, "info") => s \in A)

Waits(p, e, f, s) ==
    \A w \in f.waiting :
        \/ w \in e.waiting
        \/ \E act \in Act : w = <<s, act>> /\ (act = "initiate" => p = Initiator[s])

Moves(e, f, s, N) ==
    \A r \in Sid :
        /\ r # s => /\ f.state[r] = e.state[r]
                    /\ r \in f.calls => r \in e.calls
        /\ f.state[r] \in {e.state[r], "NONE"} \cup Terminal \cup N

Touches(p, e, f, s, A, N) ==
    /\ f \in Endpoint
    /\ Duties(e, f) /\ Queues(e, f, s)
    /\ Sends(e, f, s, A) /\ Waits(p, e, f, s) /\ Moves(e, f, s, N)
    /\ \A r \in f.acked : r \in e.acked \/ r \in A

LEMMA TouchTrans ==
    ASSUME NEW p, NEW e, NEW f, NEW g, NEW s, NEW A, NEW N,
           Touches(p, e, f, s, A, N), Touches(p, f, g, s, A, N)
    PROVE  Touches(p, e, g, s, A, N)
  <1>1. Duties(e, g)
    BY DEF Touches, Duties
  <1>2. Queues(e, g, s)
    BY DEF Touches, Queues
  <1>3. Sends(e, g, s, A)
    BY DEF Touches, Sends
  <1>4. Waits(p, e, g, s)
    BY DEF Touches, Waits
  <1>5. Moves(e, g, s, N)
    BY DEF Touches, Moves
  <1>6. g \in Endpoint /\ \A r \in g.acked : r \in e.acked \/ r \in A
    BY DEF Touches
  <1> QED BY <1>1, <1>2, <1>3, <1>4, <1>5, <1>6 DEF Touches

\* A handler that may do less.
LEMMA TouchMore ==
    ASSUME NEW p, NEW e, NEW f, NEW s, NEW A, NEW N, NEW B, NEW O,
           Touches(p, e, f, s, A, N), A \subseteq B, N \subseteq O
    PROVE  Touches(p, e, f, s, B, O)
  BY DEF Touches, Sends, Moves

\* Fields the relation does not speak of may change.
LEMMA TouchSame ==
    ASSUME NEW p, NEW e, NEW f \in Endpoint, NEW s, NEW A, NEW N,
           f.state = e.state, f.calls = e.calls, f.media = e.media,
           f.queue = e.queue, f.out = e.out, f.waiting \subseteq e.waiting,
           \A r \in f.acked : r \in e.acked \/ r \in A
    PROVE  Touches(p, e, f, s, A, N)
  BY DEF Touches, Duties, StateDue, CheckDue, Pending, Queues, Sends, Waits, Moves

\* A message was appended: what was pending is, and the message too.
LEMMA AppendPending ==
    ASSUME NEW e \in Endpoint, NEW f, NEW m \in QueueMsg, f.queue = Append(e.queue, m)
    PROVE  /\ \A id, r : Pending(e, id, r) => Pending(f, id, r)
           /\ Pending(f, m.id, m.sid)
  <1>1. e.queue \in Seq(QueueMsg)
    BY EndpointFields
  <1>2. /\ \A i \in DOMAIN e.queue : i \in DOMAIN f.queue /\ f.queue[i] = e.queue[i]
        /\ Len(e.queue) + 1 \in DOMAIN f.queue /\ f.queue[Len(e.queue) + 1] = m
    BY <1>1
  <1> QED BY <1>2 DEF Pending

LEMMA AppendQueues ==
    ASSUME NEW e \in Endpoint, NEW f, NEW m \in QueueMsg, NEW s,
           f.queue = Append(e.queue, m), m.sid = s, m.id \notin Kind \cup {"CALL"}
    PROVE  Queues(e, f, s)
  <1>1. e.queue \in Seq(QueueMsg)
    BY EndpointFields
  <1> QED BY <1>1, AppendFacts DEF Queues

-----------------------------------------------------------------------------
(* The building blocks of the handlers *)

LEMMA SetStateTouch ==
    ASSUME NEW p, NEW e \in Endpoint, NEW s \in Sid, NEW new \in State, NEW A, NEW N,
           new \in Terminal \cup N
    PROVE  /\ Touches(p, e, SetState(e, s, new), s, A, N)
           /\ SetState(e, s, new).state[s] = new
  <1> DEFINE g == SetState(e, s, new)
             m == Posted("MSG_STATE", s)
  <1>1. CASE e.state[s] = new
    <2>1. g = e
      BY <1>1 DEF SetState
    <2> HIDE DEF g
    <2> QED BY <1>1, <2>1, TouchSame DEF g
  <1>2. CASE e.state[s] # new
    <2>1. m \in QueueMsg /\ m.id = "MSG_STATE" /\ m.sid = s
      BY PostedType DEF SessionMsg, Posted
    <2> HIDE DEF m
    <2>2. /\ g \in Endpoint
          /\ g.state = [e.state EXCEPT ![s] = new]
          /\ g.calls = e.calls /\ g.media = e.media /\ g.out = e.out
          /\ g.waiting = e.waiting /\ g.acked = e.acked
          /\ g.queue = Append(e.queue, m)
      <3> DEFINE a == [e EXCEPT !.state[s] = new]
                 b == CallOnSessionState(a, s, new)
                 c == ClientOnSessionState(b, s, new)
      <3>1. /\ a \in Endpoint
            /\ a.state = [e.state EXCEPT ![s] = new]
            /\ a.calls = e.calls /\ a.media = e.media /\ a.out = e.out
            /\ a.waiting = e.waiting /\ a.acked = e.acked /\ a.queue = e.queue
        BY DEF Endpoint
      <3> HIDE DEF a
      <3>2. a.timers \ {<<"MSG_TERMINATECALL", s>>} \in SUBSET (Timer \X Sid)
        BY <3>1, EndpointFields
      <3>3. /\ b \in Endpoint
            /\ b.state = a.state
            /\ b.calls = a.calls /\ b.media = a.media /\ b.out = a.out
            /\ b.waiting = a.waiting /\ b.acked = a.acked /\ b.queue = a.queue
        BY <3>1, <3>2 DEF CallOnSessionState, Endpoint
      <3> HIDE DEF b
      <3>4. /\ c \in Endpoint
            /\ c.state = b.state
            /\ c.calls = b.calls /\ c.media = b.media /\ c.out = b.out
            /\ c.waiting = b.waiting /\ c.acked = b.acked /\ c.queue = b.queue
        BY <3>3 DEF ClientOnSessionState, Endpoint
      <3>5. g = [c EXCEPT !.queue = Append(@, m)]
        BY <1>2 DEF SetState, Post, m, a, b
      <3> HIDE DEF c
      <3>6. Append(c.queue, m) \in Seq(QueueMsg)
        BY <2>1, <3>4, EndpointFields, AppendFacts
      <3> HIDE DEF g
      <3>7. /\ g \in Endpoint
            /\ g.state = c.state
            /\ g.calls = c.calls /\ g.media = c.media /\ g.out = c.out
            /\ g.waiting = c.waiting /\ g.acked = c.acked
            /\ g.queue = Append(c.queue, m)
        BY <3>4, <3>5, <3>6 DEF Endpoint
      <3> QED BY <3>1, <3>3, <3>4, <3>7
    <2> HIDE DEF g
    <2>3. e.state \in [Sid -> State]
      BY EndpointFields
    <2>4. /\ \A id, r : Pending(e, id, r) => Pending(g, id, r)
          /\ Pending(g, "MSG_STATE", s)
      BY <2>1, <2>2, AppendPending
    <2>5. Duties(e, g)
      BY <2>2, <2>3, <2>4 DEF Duties, StateDue, CheckDue
    <2>6. Queues(e, g, s)
      <3>1. "MSG_STATE" \notin Kind \cup {"CALL"}
        BY DEF Kind
      <3> QED BY <2>1, <2>2, <3>1, AppendQueues
    <2>7. Moves(e, g, s, N)
      BY <2>2, <2>3 DEF Moves
    <2>8. Sends(e, g, s, A) /\ Waits(p, e, g, s)
      BY <2>2 DEF Sends, Waits
    <2>9. Touches(p, e, g, s, A, N)
      BY <2>2, <2>5, <2>6, <2>7, <2>8 DEF Touches
    <2> QED BY <2>2, <2>3, <2>9 DEF g
  <1> QED BY <1>1, <1>2

LEMMA PutTouch ==
    ASSUME NEW p \in Peer, NEW e \in Endpoint, NEW s \in Sid, NEW kind \in Kind,
           NEW act \in Act, NEW A, NEW N,
           act = "info" /\ p = Initiator[s] => s \in A
    PROVE  /\ Touches(p, e, Put(p, e, s, kind, act), s, A, N)
           /\ Put(p, e, s, kind, act).state = e.state
           /\ Put(p, e, s, kind, act).waiting = e.waiting
           /\ Put(p, e, s, kind, act).acked = e.acked
           /\ Put(p, e, s, kind, act).media = e.media
           /\ Put(p, e, s, kind, act).calls = e.calls
           /\ Put(p, e, s, kind, act).queue = e.queue
           /\ Put(p, e, s, kind, act).out =
                  e.out \cup {[to |-> Remote(p, s), sid |-> s, kind |-> kind, act |-> act]}
  <1> DEFINE g == Put(p, e, s, kind, act)
             m == [to |-> Remote(p, s), sid |-> s, kind |-> kind, act |-> act]
  <1>1. m \in Stanza /\ m.sid = s /\ m.act = act
    BY PutStanza
  <1>2. g = [e EXCEPT !.out = @ \cup {m}]
    BY DEF Put
  <1> HIDE DEF m
  <1>3. e.out \cup {m} \in SUBSET Stanza
    BY <1>1, EndpointFields
  <1> HIDE DEF g
  <1>4. /\ g \in Endpoint
        /\ g.state = e.state /\ g.calls = e.calls /\ g.media = e.media
        /\ g.queue = e.queue /\ g.waiting = e.waiting /\ g.acked = e.acked
        /\ g.out = e.out \cup {m}
    BY <1>2, <1>3 DEF Endpoint
  <1>5. Duties(e, g) /\ Queues(e, g, s) /\ Waits(p, e, g, s) /\ Moves(e, g, s, N)
    BY <1>4 DEF Duties, StateDue, CheckDue, Pending, Queues, Waits, Moves
  <1>6. Sends(e, g, s, A)
    <2>1. m = SetStanza(Responder[s], s, "info") => Remote(p, s) = Responder[s] /\ act = "info"
      BY DEF SetStanza, m
    <2>2. p # Initiator[s] => Remote(p, s) # Responder[s]
      BY RouteAssumption DEF Remote
    <2>3. m = SetStanza(Responder[s], s, "info") => s \in A
      BY <2>1, <2>2
    <2> QED BY <1>1, <1>4, <2>3 DEF Sends
  <1>7. Touches(p, e, g, s, A, N)
    BY <1>4, <1>5, <1>6 DEF Touches
  <1> QED BY <1>4, <1>7 DEF g, m

LEMMA SendMessageTouch ==
    ASSUME NEW p \in Peer, NEW e \in Endpoint, NEW s \in Sid, NEW act \in Act,
           NEW A, NEW N, act # "info", act = "initiate" => p = Initiator[s]
    PROVE  /\ Touches(p, e, SendMessage(p, e, s, act), s, A, N)
           /\ SendMessage(p, e, s, act) \in Endpoint
           /\ SendMessage(p, e, s, act).state = e.state
           /\ SendMessage(p, e, s, act).out =
                  e.out \cup {SetStanza(Remote(p, s), s, act)}
  <1> DEFINE f == [e EXCEPT !.waiting = @ \cup {<<s, act>>}]
  <1>1. e.waiting \cup {<<s, act>>} \in SUBSET (Sid \X Act)
    BY EndpointFields
  <1>2. /\ f \in Endpoint
        /\ f.state = e.state /\ f.calls = e.calls /\ f.media = e.media
        /\ f.queue = e.queue /\ f.acked = e.acked /\ f.out = e.out
        /\ f.waiting = e.waiting \cup {<<s, act>>}
    BY <1>1 DEF Endpoint
  <1>3. SendMessage(p, e, s, act) = Put(p, f, s, "set", act)
    BY DEF SendMessage
  <1> HIDE DEF f
  <1>4. Duties(e, f) /\ Queues(e, f, s) /\ Sends(e, f, s, A) /\ Moves(e, f, s, N)
    BY <1>2 DEF Duties, StateDue, CheckDue, Pending, Queues, Sends, Moves
  <1>5. Waits(p, e, f, s)
    BY <1>2 DEF Waits
  <1>6. Touches(p, e, f, s, A, N)
    BY <1>2, <1>4, <1>5 DEF Touches
  <1>7. "set" \in Kind
    BY DEF Kind
  <1>8. /\ Touches(p, f, Put(p, f, s, "set", act), s, A, N)
        /\ Put(p, f, s, "set", act).state = f.state
        /\ Put(p, f, s, "set", act).out = f.out \cup {SetStanza(Remote(p, s), s, act)}
    BY <1>2, <1>7, PutTouch DEF SetStanza
  <1> QED BY <1>2, <1>3, <1>6, <1>8, TouchTrans DEF Touches

\* The pattern of Accept, Reject and TerminateWithReason.
LEMMA SendSetTouch ==
    ASSUME NEW p \in Peer, NEW e \in Endpoint, NEW s \in Sid, NEW act \in Act,
           NEW A, NEW N, act \notin {"info", "initiate"},
           NEW new \in State, new \in Terminal \cup N
    PROVE  Touches(p, e, SetState(SendMessage(p, e, s, act), s, new), s, A, N)
  <1> DEFINE f == SendMessage(p, e, s, act)
  <1>1. Touches(p, e, f, s, A, N) /\ f \in Endpoint
    BY SendMessageTouch
  <1> HIDE DEF f
  <1>2. Touches(p, f, SetState(f, s, new), s, A, N)
    BY <1>1, SetStateTouch
  <1> QED BY <1>1, <1>2, TouchTrans DEF f

\* Session::TerminateWithReason, Accept and Reject.
LEMMA EndTouch ==
    ASSUME NEW p \in Peer, NEW e \in Endpoint, NEW s \in Sid, NEW busy, NEW A, NEW N
    PROVE  /\ Touches(p, e, TerminateWithReason(p, e, s), s, A, N)
           /\ Touches(p, e, Reject(p, e, s, busy), s, A, N)
           /\ "SENTACCEPT" \in N => Touches(p, e, Accept(p, e, s), s, A, N)
           /\ e.state[s] # "RECEIVEDINITIATE" => Accept(p, e, s) = e
  <1>1. Touches(p, e, e, s, A, N)
    BY TouchSame
  <1>2. /\ {"terminate", "reject", "busy", "accept"} \subseteq Act \ {"info", "initiate"}
        /\ {"SENTTERMINATE", "SENTBUSY", "SENTREJECT"} \subseteq Terminal
        /\ Terminal \cup {"SENTACCEPT"} \subseteq State
    BY DEF Act, Terminal, State
  <1>3. Touches(p, e, TerminateWithReason(p, e, s), s, A, N)
    BY <1>1, <1>2, SendSetTouch DEF TerminateWithReason
  <1>4. Touches(p, e, Reject(p, e, s, busy), s, A, N)
    <2> DEFINE act == IF s \in GingleSids THEN "reject"
                      ELSE IF busy THEN "busy" ELSE "terminate"
               new == IF busy THEN "SENTBUSY" ELSE "SENTREJECT"
    <2>1. act \in Act /\ act \notin {"info", "initiate"} /\ new \in State /\ new \in Terminal
      BY <1>2
    <2>2. Reject(p, e, s, busy) = IF e.state[s] # "RECEIVEDINITIATE" THEN e
                                  ELSE SetState(SendMessage(p, e, s, act), s, new)
      BY DEF Reject
    <2> HIDE DEF act, new
    <2> QED BY <1>1, <2>1, <2>2, SendSetTouch
  <1>5. "SENTACCEPT" \in N => Touches(p, e, Accept(p, e, s), s, A, N)
    BY <1>1, <1>2, SendSetTouch DEF Accept
  <1> QED BY <1>3, <1>4, <1>5 DEF Accept

\* Session::SetError.
LEMMA SetErrorTouch ==
    ASSUME NEW p, NEW e \in Endpoint, NEW s \in Sid, NEW err \in Error, NEW A, NEW N
    PROVE  Touches(p, e, SetError(e, s, err), s, A, N)
  <1> DEFINE m == Posted("MSG_ERROR", s)
             T == IF e.error[s] = err THEN e.timers
                  ELSE e.timers \ {<<"MSG_TERMINATECALL", s>>}
             g == SetError(e, s, err)
  <1>1. m \in QueueMsg /\ m.id = "MSG_ERROR" /\ m.sid = s
    BY PostedType DEF SessionMsg, Posted
  <1>2. Append(e.queue, m) \in Seq(QueueMsg)
    BY <1>1, EndpointFields, AppendFacts
  <1>3. T \in SUBSET (Timer \X Sid)
    BY EndpointFields
  <1>4. g = [[e EXCEPT !.error[s] = err, !.timers = T]
                EXCEPT !.queue = Append(@, m)]
    BY DEF SetError, Post
  <1> HIDE DEF T, m
  <1>5. /\ g \in Endpoint
        /\ g.state = e.state /\ g.calls = e.calls /\ g.media = e.media
        /\ g.queue = Append(e.queue, m) /\ g.out = e.out
        /\ g.waiting = e.waiting /\ g.acked = e.acked
    <2> HIDE DEF g
    <2> QED BY <1>2, <1>3, <1>4 DEF Endpoint
  <1> HIDE DEF g
  <1>6. \A id, r : Pending(e, id, r) => Pending(g, id, r)
    BY <1>1, <1>5, AppendPending
  <1>7. Duties(e, g)
    BY <1>5, <1>6 DEF Duties, StateDue, CheckDue
  <1>8. Queues(e, g, s)
    <2>1. "MSG_ERROR" \notin Kind \cup {"CALL"}
      BY DEF Kind
    <2> QED BY <1>1, <1>5, <2>1, AppendQueues
  <1>9. Sends(e, g, s, A) /\ Waits(p, e, g, s) /\ Moves(e, g, s, N)
    BY <1>5 DEF Sends, Waits, Moves
  <1> QED BY <1>5, <1>7, <1>8, <1>9 DEF Touches, g

\* The initiate is acknowledged, by its response or by an accept.
LEMMA InitiateAckedTouch ==
    ASSUME NEW p \in Peer, NEW e \in Endpoint, NEW s \in Sid, NEW A, NEW N,
           s \in A, "RECEIVEDINITIATE_ACK" \in N
    PROVE  /\ Touches(p, e, OnInitiateAcked(p, e, s), s, A, N)
           /\ OnInitiateAcked(p, e, s) \in Endpoint
           /\ OnInitiateAcked(p, e, s).state[s] = "RECEIVEDINITIATE_ACK"
  <1> DEFINE d == [e EXCEPT !.timers = @ \ {<<"MSG_INIT_ACK_TIMEOUT", s>>}]
             f == SetState(d, s, "RECEIVEDINITIATE_ACK")
             g == [f EXCEPT !.acked = @ \cup {s}]
             h == [g EXCEPT !.cands[s] = "sent"]
  <1>1. e.timers \ {<<"MSG_INIT_ACK_TIMEOUT", s>>} \in SUBSET (Timer \X Sid)
    BY EndpointFields
  <1>2. /\ d \in Endpoint
        /\ d.state = e.state /\ d.calls = e.calls /\ d.media = e.media
        /\ d.queue = e.queue /\ d.out = e.out /\ d.waiting = e.waiting
        /\ d.acked = e.acked
    BY <1>1 DEF Endpoint
  <1>3. OnInitiateAcked(p, e, s) =
            IF s \in f.acked THEN f
            ELSE IF g.cands[s] # "unsent" THEN g
            ELSE Put(p, h, s, "set", "info")
    BY DEF OnInitiateAcked, SendAllUnsentTransportInfoMessages
  <1> HIDE DEF d
  <1>4. Touches(p, e, d, s, A, N)
    BY <1>2, TouchSame
  <1>5. "RECEIVEDINITIATE_ACK" \in State
    BY DEF State, Initiating
  <1>6. Touches(p, d, f, s, A, N) /\ f.state[s] = "RECEIVEDINITIATE_ACK"
    BY <1>2, <1>5, SetStateTouch
  <1> HIDE DEF f
  <1>7. f \in Endpoint /\ Touches(p, e, f, s, A, N)
    BY <1>4, <1>6, TouchTrans DEF Touches
  <1>8. f.acked \cup {s} \in SUBSET Sid
    BY <1>7, EndpointFields
  <1>9. /\ g \in Endpoint
        /\ g.state = f.state /\ g.calls = f.calls /\ g.media = f.media
        /\ g.queue = f.queue /\ g.out = f.out /\ g.waiting = f.waiting
        /\ g.acked = f.acked \cup {s}
    BY <1>7, <1>8 DEF Endpoint
  <1> HIDE DEF g
  <1>10. /\ h \in Endpoint
         /\ h.state = g.state /\ h.calls = g.calls /\ h.media = g.media
         /\ h.queue = g.queue /\ h.out = g.out /\ h.waiting = g.waiting
         /\ h.acked = g.acked
    BY <1>9 DEF Endpoint
  <1> HIDE DEF h
  <1>11. Touches(p, f, g, s, A, N) /\ Touches(p, g, h, s, A, N)
    BY <1>9, <1>10, TouchSame
  <1>12. "set" \in Kind /\ "info" \in Act
    BY DEF Kind, Act
  <1>13. /\ Touches(p, h, Put(p, h, s, "set", "info"), s, A, N)
         /\ Put(p, h, s, "set", "info").state = h.state
    BY <1>10, <1>12, PutTouch
  <1>14. Touches(p, e, g, s, A, N) /\ Touches(p, e, h, s, A, N)
    BY <1>7, <1>11, TouchTrans
  <1>15. Touches(p, e, Put(p, h, s, "set", "info"), s, A, N)
    BY <1>13, <1>14, TouchTrans
  <1>16. Put(p, h, s, "set", "info") \in Endpoint
    BY <1>15 DEF Touches
  <1> QED BY <1>3, <1>6, <1>7, <1>9, <1>10, <1>13, <1>14, <1>15, <1>16

\* What Clear leaves.
LEMMA ClearPending ==
    ASSUME NEW e \in Endpoint, NEW ids, NEW s \in Sid, NEW f, NEW q,
           q = Clear(e.queue, ids, s),
           \A i \in DOMAIN q : i \in DOMAIN f.queue /\ f.queue[i] = q[i]
    PROVE  \A id, r : Pending(e, id, r) /\ (id \notin ids \/ r # s) => Pending(f, id, r)
  <1>1. e.queue \in Seq(QueueMsg)
    BY EndpointFields
  <1>2. DOMAIN q = DOMAIN e.queue
    BY <1>1, ClearFacts
  <1>3. \A i \in DOMAIN e.queue :
           e.queue[i].id \notin ids \/ e.queue[i].sid # s => q[i] = e.queue[i]
    BY <1>1 DEF Clear
  <1> QED BY <1>2, <1>3 DEF Pending

\* SessionManager::DestroySession: what ends the session is gone, and with it
\* what would have destroyed it.
LEMMA DestroySessionTouch ==
    ASSUME NEW p, NEW e \in Endpoint, NEW s \in Sid, NEW A, NEW N
    PROVE  /\ Touches(p, e, DestroySession(e, s), s, A, N)
           /\ DestroySession(e, s).state[s] = "NONE"
           /\ DestroySession(e, s).out = e.out
  <1> DEFINE m == Posted("MSG_CHECKAUTODESTROY", s)
             T == e.timers \ (SessionTimer \X {s})
             Q == Clear(e.queue, SessionMsg, s)
             g == DestroySession(e, s)
  <1>1. e.queue \in Seq(QueueMsg) /\ e.state \in [Sid -> State]
        /\ e.media \in SUBSET Sid /\ e.acked \in SUBSET Sid
    BY EndpointFields
  <1>2. m \in QueueMsg /\ m.id = "MSG_CHECKAUTODESTROY" /\ m.sid = s
    BY PostedType DEF Posted
  <1>3. /\ Q \in Seq(QueueMsg) /\ DOMAIN Q = DOMAIN e.queue
        /\ \A i \in DOMAIN Q : Q[i] = Posted("CLEARED", s) \/ Q[i] = e.queue[i]
    BY <1>1, ClearFacts
  <1>4. T \in SUBSET (Timer \X Sid)
    BY EndpointFields
  <1>5. e.media \ {s} \in SUBSET Sid /\ e.acked \ {s} \in SUBSET Sid
    BY <1>1
  <1>6. g = [e EXCEPT !.state[s] = "NONE", !.error[s] = "NONE",
                      !.cands[s] = "none", !.acked = @ \ {s},
                      !.media = @ \ {s}, !.timers = T,
                      !.queue = Append(Q, m)]
    BY DEF DestroySession
  <1>7. \A f : (\A i \in DOMAIN Q : i \in DOMAIN f.queue /\ f.queue[i] = Q[i])
                => \A id, r : Pending(e, id, r) /\ (id \notin SessionMsg \/ r # s)
                                => Pending(f, id, r)
    BY ClearPending
  <1> HIDE DEF m, Q
  <1>8. Append(Q, m) \in Seq(QueueMsg)
    BY <1>2, <1>3, AppendFacts
  <1>9. "NONE" \in State /\ "NONE" \in Error
    BY DEF State, Error
  <1>10. /\ g \in Endpoint
         /\ g.state = [e.state EXCEPT ![s] = "NONE"]
         /\ g.calls = e.calls /\ g.media = e.media \ {s}
         /\ g.queue = Append(Q, m) /\ g.out = e.out
         /\ g.waiting = e.waiting /\ g.acked = e.acked \ {s}
    <2> HIDE DEF g, T
    <2> QED BY <1>4, <1>5, <1>6, <1>8, <1>9 DEF Endpoint
  <1> HIDE DEF g
  <1>11. /\ \A i \in DOMAIN Q : i \in DOMAIN g.queue /\ g.queue[i] = Q[i]
         /\ Len(Q) + 1 \in DOMAIN g.queue /\ g.queue[Len(Q) + 1] = m
    BY <1>3, <1>10
  <1>12. /\ \A id, r : Pending(e, id, r) /\ (id \notin SessionMsg \/ r # s)
                         => Pending(g, id, r)
         /\ Pending(g, "MSG_CHECKAUTODESTROY", s)
    <2>1. \A id, r : Pending(e, id, r) /\ (id \notin SessionMsg \/ r # s)
                       => Pending(g, id, r)
      BY <1>7, <1>11
    <2>2. Pending(g, "MSG_CHECKAUTODESTROY", s)
      BY <1>2, <1>11 DEF Pending
    <2> QED BY <2>1, <2>2
  <1>13. Duties(e, g)
    <2>1. \A r \in Sid : StateDue(e, r) => StateDue(g, r)
      BY <1>1, <1>10, <1>12 DEF StateDue, Terminal
    <2>2. "MSG_CHECKAUTODESTROY" \notin SessionMsg
      BY DEF SessionMsg
    <2>3. \A r \in Sid : CheckDue(e, r) => CheckDue(g, r)
      BY <1>10, <1>12, <2>2 DEF CheckDue
    <2> QED BY <2>1, <2>3 DEF Duties
  <1>14. Queues(e, g, s)
    <2>1. \A i \in DOMAIN g.queue :
             \/ i \in DOMAIN Q /\ g.queue[i] = Q[i]
             \/ g.queue[i] = m
      BY <1>2, <1>3, <1>10, AppendFacts
    <2>2. Posted("CLEARED", s).id = "CLEARED" /\ Posted("CLEARED", s).sid = s
      BY DEF Posted
    <2>3. {"CLEARED", "MSG_CHECKAUTODESTROY"} \cap (Kind \cup {"CALL"}) = {}
      BY DEF Kind
    <2> QED BY <1>2, <1>3, <2>1, <2>2, <2>3 DEF Queues
  <1>15. Moves(e, g, s, N)
    BY <1>1, <1>10 DEF Moves
  <1>16. Sends(e, g, s, A) /\ Waits(p, e, g, s)
    BY <1>10 DEF Sends, Waits
  <1>17. \A r \in g.acked : r \in e.acked
    BY <1>10
  <1> QED BY <1>1, <1>10, <1>13, <1>14, <1>15, <1>16, <1>17 DEF Touches, g

\* MediaSessionClient::DestroyCall.
LEMMA DestroyCallTouch ==
    ASSUME NEW p, NEW e \in Endpoint, NEW s \in Sid, NEW A, NEW N
    PROVE  /\ Touches(p, e, DestroyCall(e, s), s, A, N)
           /\ s \notin DestroyCall(e, s).calls
           /\ DestroyCall(e, s).out = e.out
  <1> DEFINE T == e.timers \ {<<"MSG_TERMINATECALL", s>>}
             Q == Clear(e.queue, {"MSG_CHECKAUTODESTROY"}, s)
             c == IF e.call = s THEN Null ELSE e.call
             f == IF e.focus = s THEN Null ELSE e.focus
             g == DestroyCall(e, s)
  <1>1. e.queue \in Seq(QueueMsg) /\ e.calls \ {s} \in SUBSET Sid
        /\ c \in Sid \cup {Null} /\ f \in Sid \cup {Null}
    BY EndpointFields
  <1>2. /\ Q \in Seq(QueueMsg) /\ DOMAIN Q = DOMAIN e.queue
        /\ \A i \in DOMAIN Q :
               Q[i] = Posted("CLEARED", s) \/ Q[i] = e.queue[i]
    BY <1>1, ClearFacts
  <1>3. T \in SUBSET (Timer \X Sid)
    BY EndpointFields
  <1>4. g = [[e EXCEPT !.call = c] EXCEPT
                !.focus = f, !.calls = @ \ {s}, !.timers = T, !.queue = Q]
    BY DEF DestroyCall, OnCallDestroy, Endpoint
  <1>5. \A h : (\A i \in DOMAIN Q : i \in DOMAIN h.queue /\ h.queue[i] = Q[i])
                => \A id, r : Pending(e, id, r)
                                /\ (id \notin {"MSG_CHECKAUTODESTROY"} \/ r # s)
                                => Pending(h, id, r)
    BY ClearPending
  <1> HIDE DEF Q, c, f
  <1>6. /\ g \in Endpoint
        /\ g.state = e.state /\ g.calls = e.calls \ {s} /\ g.media = e.media
        /\ g.queue = Q /\ g.out = e.out
        /\ g.waiting = e.waiting /\ g.acked = e.acked
    <2> HIDE DEF g, T
    <2> QED BY <1>1, <1>2, <1>3, <1>4 DEF Endpoint
  <1> HIDE DEF g
  <1>7. \A id, r : Pending(e, id, r) /\ (id \notin {"MSG_CHECKAUTODESTROY"} \/ r # s)
                     => Pending(g, id, r)
    BY <1>5, <1>6
  <1>8. Duties(e, g)
    BY <1>6, <1>7 DEF Duties, StateDue, CheckDue
  <1>9. Queues(e, g, s)
    <2>1. Posted("CLEARED", s).id = "CLEARED" /\ Posted("CLEARED", s).sid = s
      BY DEF Posted
    <2>2. "CLEARED" \notin Kind \cup {"CALL"}
      BY DEF Kind
    <2> QED BY <1>2, <1>6, <2>1, <2>2 DEF Queues
  <1>10. Moves(e, g, s, N) /\ Sends(e, g, s, A) /\ Waits(p, e, g, s)
    BY <1>6 DEF Moves, Sends, Waits
  <1> QED BY <1>6, <1>8, <1>9, <1>10 DEF Touches, g

-----------------------------------------------------------------------------
(* The handlers *)

\* What a session that has ended may still become, and any other.
Onward(e, s) == IF e.state[s] \in Terminal THEN {} ELSE State

LEMMA MsgStateTouch ==
    ASSUME NEW p, NEW e \in Endpoint, NEW s \in Sid
    PROVE  /\ Touches(p, e, OnMsgState(e, s), s, {}, Onward(e, s))
           /\ StateDue(OnMsgState(e, s), s)
  <1>1. CASE e.state[s] \in {"SENTACCEPT", "RECEIVEDACCEPT"}
    <2>1. "INPROGRESS" \in State /\ "INPROGRESS" \notin Terminal /\ Onward(e, s) = State
          /\ OnMsgState(e, s) = SetState(e, s, "INPROGRESS")
      BY <1>1 DEF State, Terminal, Onward, OnMsgState
    <2> QED BY <2>1, SetStateTouch DEF StateDue
  <1>2. CASE e.state[s] \in Terminal
    <2>1. OnMsgState(e, s) = DestroySession(e, s)
      BY <1>2 DEF OnMsgState, Terminal
    <2> QED BY <2>1, DestroySessionTouch DEF StateDue, Terminal
  <1>3. CASE e.state[s] \notin {"SENTACCEPT", "RECEIVEDACCEPT"} \cup Terminal
    <2>1. OnMsgState(e, s) = e
      BY <1>3 DEF OnMsgState
    <2> QED BY <1>3, <2>1, TouchSame DEF StateDue
  <1> QED BY <1>1, <1>2, <1>3

LEMMA CheckAutoDestroyTouch ==
    ASSUME NEW p, NEW e \in Endpoint, NEW s \in Sid
    PROVE  /\ Touches(p, e, OnMsgCheckAutoDestroy(e, s), s, {}, {})
           /\ CheckDue(OnMsgCheckAutoDestroy(e, s), s)
           /\ OnMsgCheckAutoDestroy(e, s).out = e.out
  BY DestroyCallTouch, TouchSame DEF OnMsgCheckAutoDestroy, CheckDue

\* AcceptCallS, DeclineCallS, EndCallS, Call::Terminate and HoldCallS.
LEMMA UserHandlersTouch ==
    ASSUME NEW p \in Peer, NEW e \in Endpoint, NEW s \in Sid, NEW busy
    PROVE  /\ Touches(p, e, AcceptCallS(p, e, s), s, {}, Onward(e, s))
           /\ Touches(p, e, DeclineCallS(p, e, s, busy), s, {}, Onward(e, s))
           /\ Touches(p, e, CallTerminate(p, e, s), s, {}, Onward(e, s))
           /\ Touches(p, e, EndCallS(p, e, s), s, {}, Onward(e, s))
           /\ Touches(p, e, HoldCallS(e, s, busy), s, {}, Onward(e, s))
  <1> DEFINE N == Onward(e, s)
  <1>1. Touches(p, e, e, s, {}, N)
    BY TouchSame
  <1>2. e.state[s] = "RECEIVEDINITIATE" => "SENTACCEPT" \in N
    BY DEF Onward, Terminal, State
  <1> HIDE DEF N
  <1>3. /\ Touches(p, e, TerminateWithReason(p, e, s), s, {}, N)
        /\ Touches(p, e, Reject(p, e, s, busy), s, {}, N)
        /\ Touches(p, e, Accept(p, e, s), s, {}, N)
    BY <1>1, <1>2, EndTouch
  <1>4. Touches(p, e, AcceptCallS(p, e, s), s, {}, N)
    BY <1>1, <1>3 DEF AcceptCallS
  <1>5. Touches(p, e, DeclineCallS(p, e, s, busy), s, {}, N)
    BY <1>1, <1>3 DEF DeclineCallS
  <1>6. Touches(p, e, CallTerminate(p, e, s), s, {}, N)
    BY <1>1, <1>3 DEF CallTerminate
  <1>7. Touches(p, e, EndCallS(p, e, s), s, {}, N)
    BY <1>1, <1>6 DEF EndCallS
  <1>8. Touches(p, e, HoldCallS(e, s, busy), s, {}, N)
    <2>1. ASSUME NEW c \in {s, Null}
          PROVE  Touches(p, e, [e EXCEPT !.focus = c, !.call = c], s, {}, N)
      <3> DEFINE f == [e EXCEPT !.focus = c, !.call = c]
      <3>1. /\ f \in Endpoint
            /\ f.state = e.state /\ f.calls = e.calls /\ f.media = e.media
            /\ f.queue = e.queue /\ f.out = e.out /\ f.waiting = e.waiting
            /\ f.acked = e.acked
        BY <2>1 DEF Endpoint
      <3> HIDE DEF f
      <3> QED BY <3>1, TouchSame DEF f
    <2> QED BY <1>1, <2>1 DEF HoldCallS
  <1> QED BY <1>4, <1>5, <1>6, <1>7, <1>8 DEF N

\* A session joins a call, in a state that is not an end.
LEMMA JoinTouch ==
    ASSUME NEW p, NEW e \in Endpoint, NEW s \in Sid, NEW N, NEW new \in State \cap N,
           new \notin Terminal
    PROVE  /\ Touches(p, e, AddSession(e, s), s, {}, N)
           /\ Touches(p, e, [e EXCEPT !.state[s] = new], s, {}, N)
  <1> DEFINE f == AddSession(e, s)
             g == [e EXCEPT !.state[s] = new]
  <1>1. e.calls \cup {s} \in SUBSET Sid /\ e.media \cup {s} \in SUBSET Sid
        /\ e.state \in [Sid -> State]
    BY EndpointFields
  <1>2. /\ f \in Endpoint
        /\ f.state = e.state /\ f.calls = e.calls \cup {s} /\ f.media = e.media \cup {s}
        /\ f.queue = e.queue /\ f.out = e.out /\ f.waiting = e.waiting
        /\ f.acked = e.acked
    BY <1>1 DEF AddSession, Endpoint
  <1>3. /\ g \in Endpoint
        /\ g.state = [e.state EXCEPT ![s] = new]
        /\ g.calls = e.calls /\ g.media = e.media
        /\ g.queue = e.queue /\ g.out = e.out /\ g.waiting = e.waiting
        /\ g.acked = e.acked
    BY DEF Endpoint
  <1> HIDE DEF f, g
  <1>4. Touches(p, e, f, s, {}, N)
    <2>1. Duties(e, f) /\ Queues(e, f, s)
      BY <1>2 DEF Duties, StateDue, CheckDue, Pending, Queues
    <2>2. Moves(e, f, s, N) /\ Sends(e, f, s, {}) /\ Waits(p, e, f, s)
      BY <1>2 DEF Moves, Sends, Waits
    <2> QED BY <1>2, <2>1, <2>2 DEF Touches
  <1>5. Touches(p, e, g, s, {}, N)
    <2>1. Duties(e, g) /\ Queues(e, g, s)
      BY <1>1, <1>3 DEF Duties, StateDue, CheckDue, Pending, Queues
    <2>2. Moves(e, g, s, N) /\ Sends(e, g, s, {}) /\ Waits(p, e, g, s)
      BY <1>1, <1>3 DEF Moves, Sends, Waits
    <2> QED BY <1>3, <2>1, <2>2 DEF Touches
  <1> QED BY <1>4, <1>5 DEF f, g

\* CallS.
LEMMA CallTouch ==
    ASSUME NEW p \in Peer, NEW e \in Endpoint, NEW s \in Sid, p = Initiator[s]
    PROVE  /\ Touches(p, e, CallS(p, e, s, TRUE), s, {}, State)
           /\ \E m \in CallS(p, e, s, TRUE).out : m.sid = s
  <1> DEFINE a == CreateSession(e, s)
             b == AddSession(a, s)
             c == [b EXCEPT !.timers = @ \cup {<<"MSG_INIT_ACK_TIMEOUT", s>>}]
             d == SendMessage(p, c, s, "initiate")
             f == SetState(d, s, "SENTINITIATE")
             g == [f EXCEPT !.timers = @ \cup {<<"MSG_TERMINATECALL", s>>}]
  <1>1. {"INIT", "SENTINITIATE"} \subseteq State \ Terminal /\ "initiate" \in Act
    BY DEF State, Terminal, Initiating, Act
  <1>2. CallS(p, e, s, TRUE) = g
    BY DEF CallS, Initiate
  <1>3. Touches(p, e, a, s, {}, State) /\ a \in Endpoint
    BY <1>1, JoinTouch DEF CreateSession, Touches
  <1> HIDE DEF a
  <1>4. Touches(p, a, b, s, {}, State) /\ b \in Endpoint
    BY <1>1, <1>3, JoinTouch DEF Touches
  <1> HIDE DEF b
  <1>5. \A t \in Timer : b.timers \cup {<<t, s>>} \in SUBSET (Timer \X Sid)
    BY <1>4, EndpointFields
  <1>6. {"MSG_INIT_ACK_TIMEOUT", "MSG_TERMINATECALL"} \subseteq Timer
    BY DEF Timer, SessionTimer
  <1>7. /\ c \in Endpoint
        /\ c.state = b.state /\ c.calls = b.calls /\ c.media = b.media
        /\ c.queue = b.queue /\ c.out = b.out /\ c.waiting = b.waiting
        /\ c.acked = b.acked
    BY <1>4, <1>5, <1>6 DEF Endpoint
  <1> HIDE DEF c
  <1>8. Touches(p, b, c, s, {}, State)
    BY <1>7, TouchSame
  <1>9. /\ Touches(p, c, d, s, {}, State) /\ d \in Endpoint
        /\ SetStanza(Remote(p, s), s, "initiate") \in d.out
    BY <1>1, <1>7, SendMessageTouch
  <1> HIDE DEF d
  <1>10. Touches(p, d, f, s, {}, State)
    BY <1>1, <1>9, SetStateTouch
  <1>11. f \in Endpoint /\ f.out = d.out
    BY <1>9, <1>10 DEF Touches, SetState, Post, ClientOnSessionState,
                       CallOnSessionState, Endpoint
  <1> HIDE DEF f
  <1>12. f.timers \cup {<<"MSG_TERMINATECALL", s>>} \in SUBSET (Timer \X Sid)
    BY <1>6, <1>11, EndpointFields
  <1>13. /\ g \in Endpoint
         /\ g.state = f.state /\ g.calls = f.calls /\ g.media = f.media
         /\ g.queue = f.queue /\ g.out = f.out /\ g.waiting = f.waiting
         /\ g.acked = f.acked
    BY <1>11, <1>12 DEF Endpoint
  <1> HIDE DEF g
  <1>14. Touches(p, f, g, s, {}, State)
    BY <1>13, TouchSame
  <1>15. Touches(p, e, d, s, {}, State)
    BY <1>3, <1>4, <1>8, <1>9, TouchTrans
  <1>16. Touches(p, e, g, s, {}, State)
    BY <1>10, <1>14, <1>15, TouchTrans
  <1>17. SetStanza(Remote(p, s), s, "initiate").sid = s
    BY DEF SetStanza
  <1> QED BY <1>2, <1>9, <1>11, <1>13, <1>16, <1>17

\* An initiate for a session that cannot be found.
LEMMA IncomingTouch ==
    ASSUME NEW p \in Peer, NEW e \in Endpoint, NEW s \in Sid
    PROVE  Touches(p, e, Incoming(p, e, s), s, {}, State)
  <1>1. /\ {"INIT", "RECEIVEDINITIATE"} \subseteq State \ Terminal
        /\ "initiate" \in Act /\ {"error", "result"} \subseteq Kind
    BY DEF State, Terminal, Initiating, Act, Kind
  <1>2. CASE Offer[s] = "unusable"
    <2> DEFINE a == CreateSession(e, s)
    <2>1. Touches(p, e, a, s, {}, State) /\ a \in Endpoint
      BY <1>1, JoinTouch DEF CreateSession, Touches
    <2> HIDE DEF a
    <2>2. Touches(p, a, Put(p, a, s, "error", "initiate"), s, {}, State)
      BY <1>1, <2>1, PutTouch
    <2>3. Incoming(p, e, s) = Put(p, a, s, "error", "initiate")
      BY <1>2 DEF Incoming, a
    <2> QED BY <2>1, <2>2, <2>3, TouchTrans
  <1>3. CASE Offer[s] # "unusable"
    <2> DEFINE b == AddSession(e, s)
               f == SetState(b, s, "RECEIVEDINITIATE")
               g == IF Offer[s] = "nocodec" THEN Reject(p, f, s, FALSE) ELSE f
    <2>1. Touches(p, e, b, s, {}, State) /\ b \in Endpoint
      BY <1>1, JoinTouch DEF Touches
    <2> HIDE DEF b
    <2>2. Touches(p, b, f, s, {}, State) /\ f \in Endpoint
      BY <1>1, <2>1, SetStateTouch DEF Touches
    <2> HIDE DEF f
    <2>3. Touches(p, f, g, s, {}, State)
      BY <2>2, TouchSame, EndTouch
    <2> HIDE DEF g
    <2>4. g \in Endpoint
      BY <2>3 DEF Touches
    <2>5. Touches(p, g, Put(p, g, s, "result", "initiate"), s, {}, State)
      BY <1>1, <2>4, PutTouch
    <2>6. Incoming(p, e, s) = Put(p, g, s, "result", "initiate")
      BY <1>3 DEF Incoming, b, f, g
    <2> QED BY <2>1, <2>2, <2>3, <2>5, <2>6, TouchTrans
  <1> QED BY <1>2, <1>3

\* A stanza of type set.  Only an accept counts as an acknowledgement.
AckBy(act, s) == IF act = "accept" THEN {s} ELSE {}

LEMMA IncomingMessageTouch ==
    ASSUME NEW p \in Peer, NEW e \in Endpoint, NEW s \in Sid, NEW act \in Act
    PROVE  Touches(p, e, OnIncomingMessage(p, e, s, act), s, AckBy(act, s), Onward(e, s))
  <1> DEFINE A == AckBy(act, s)
             N == Onward(e, s)
             g == OnIncomingMessage(p, e, s, act)
  <1>1. {"error", "result"} \subseteq Kind
    BY DEF Kind
  <1>2. Touches(p, e, e, s, A, N)
    BY TouchSame
  <1>3. ASSUME NEW f \in Endpoint, Touches(p, e, f, s, A, N),
               NEW kind \in {"error", "result"}, act # "info"
        PROVE  Touches(p, e, Put(p, f, s, kind, act), s, A, N)
    <2>1. Touches(p, f, Put(p, f, s, kind, act), s, A, N)
      BY <1>1, <1>3, PutTouch
    <2> QED BY <1>3, <2>1, TouchTrans
  <1>4. CASE ~Found(e, s) /\ act = "initiate"
    <2>1. N = State /\ g = Incoming(p, e, s)
      BY <1>4 DEF Found, Onward, Terminal, OnIncomingMessage
    <2>2. Touches(p, e, g, s, {}, N)
      BY <2>1, IncomingTouch
    <2> QED BY <2>2, TouchMore
  <1>5. CASE act = "info"
    <2>1. g = e
      BY <1>5 DEF OnIncomingMessage
    <2> QED BY <1>2, <2>1
  <1>6. CASE /\ (act # "info" /\ act # "initiate") \/ Found(e, s)
             /\ ~Found(e, s) \/ act \in {"initiate", "reject"}
    <2>1. g = Put(p, e, s, "error", act) \/ g = Put(p, e, s, "result", act)
      BY <1>5, <1>6 DEF OnIncomingMessage, OnRejectMessage
    <2> QED BY <1>2, <1>3, <1>6, <2>1
  <1>7. CASE Found(e, s) /\ act = "accept"
    <2>1. g = OnAcceptMessage(p, e, s)
      BY <1>7 DEF OnIncomingMessage
    <2>2. CASE e.state[s] \notin Initiating
      BY <1>2, <1>3, <1>7, <2>1, <2>2 DEF OnAcceptMessage
    <2>3. CASE e.state[s] \in Initiating
      <3> DEFINE a == OnInitiateAcked(p, e, s)
                 f == SetState(a, s, "RECEIVEDACCEPT")
      <3>1. /\ N = State /\ s \in A
            /\ {"RECEIVEDINITIATE_ACK", "RECEIVEDACCEPT"} \subseteq State
        BY <1>7, <2>3 DEF Onward, State, Initiating, Terminal, AckBy
      <3>2. Touches(p, e, a, s, A, N) /\ a \in Endpoint
        BY <3>1, InitiateAckedTouch
      <3> HIDE DEF a
      <3>3. Touches(p, a, f, s, A, N) /\ f \in Endpoint
        BY <3>1, <3>2, SetStateTouch DEF Touches
      <3> HIDE DEF f
      <3>4. Touches(p, e, Put(p, f, s, "result", act), s, A, N)
        BY <1>3, <1>7, <3>2, <3>3, TouchTrans
      <3> QED BY <1>7, <2>1, <2>3, <3>4 DEF OnAcceptMessage, a, f
    <2> QED BY <2>2, <2>3
  <1>8. CASE Found(e, s) /\ act \in {"terminate", "busy"}
    <2> DEFINE new == IF act = "busy" THEN "RECEIVEDBUSY" ELSE "RECEIVEDTERMINATE"
               f == SetState(e, s, new)
    <2>1. g = Put(p, f, s, "result", act)
      BY <1>8 DEF OnIncomingMessage, OnTerminateMessage
    <2>2. new \in State /\ new \in Terminal
      BY DEF State, Terminal
    <2> HIDE DEF new
    <2>3. Touches(p, e, f, s, A, N) /\ f \in Endpoint
      BY <2>2, SetStateTouch DEF Touches
    <2> HIDE DEF f
    <2> QED BY <1>3, <1>8, <2>1, <2>3
  <1> QED BY <1>4, <1>5, <1>6, <1>7, <1>8 DEF Act

\* A response, or the timeout of the task that waits for it.
AckOf(e, s, kind, act) ==
    IF kind = "result" /\ act = "initiate" /\ <<s, act>> \in e.waiting THEN {s} ELSE {}

LEMMA ResponseTouch ==
    ASSUME NEW p \in Peer, NEW e \in Endpoint, NEW s \in Sid, NEW kind, NEW act \in Act
    PROVE  /\ Touches(p, e, OnResponse(p, e, s, kind, act), s, AckOf(e, s, kind, act),
                      Onward(e, s) \cup IF AckOf(e, s, kind, act) = {} THEN {}
                                        ELSE {"RECEIVEDINITIATE_ACK"})
  <1> DEFINE f == [e EXCEPT !.waiting = @ \ {<<s, act>>}]
             g == OnResponse(p, e, s, kind, act)
             A == AckOf(e, s, kind, act)
             N == Onward(e, s) \cup IF A = {} THEN {} ELSE {"RECEIVEDINITIATE_ACK"}
  <1>1. e.waiting \ {<<s, act>>} \in SUBSET (Sid \X Act)
    BY EndpointFields
  <1>2. /\ f \in Endpoint
        /\ f.state = e.state /\ f.calls = e.calls /\ f.media = e.media
        /\ f.queue = e.queue /\ f.out = e.out
        /\ f.waiting = e.waiting \ {<<s, act>>} /\ f.acked = e.acked
    BY <1>1 DEF Endpoint
  <1> HIDE DEF f
  <1>3. Touches(p, e, f, s, A, N)
    BY <1>2, TouchSame
  <1>4. \/ g = f
        \/ g = SetError(f, s, "RESPONSE")
        \/ A = {s} /\ g = OnInitiateAcked(p, f, s)
    BY DEF OnResponse, f, AckOf
  <1>5. A = {s} => A # {}
    OBVIOUS
  <1>6. A = {s} => "RECEIVEDINITIATE_ACK" \in N
    BY <1>5
  <1>7. "RESPONSE" \in Error
    BY DEF Error
  <1> HIDE DEF A, N
  <1>8. Touches(p, f, SetError(f, s, "RESPONSE"), s, A, N)
    BY <1>2, <1>7, SetErrorTouch
  <1>9. A = {s} => Touches(p, f, OnInitiateAcked(p, f, s), s, A, N)
    BY <1>2, <1>6, InitiateAckedTouch
  <1> QED BY <1>3, <1>4, <1>8, <1>9, TouchTrans DEF A, N

-----------------------------------------------------------------------------
(* What a handler makes of the state of its session: for CallPromise.  e is  *)
(* the endpoint it starts with, which has nothing to send.                   *)

Turn(p, s, old, new) ==
    \/ new = old
    \/ new \in Terminal
    \/ old \in Terminal /\ new = "NONE"
    \/ old \in {"NONE", "INIT"} /\ new \in {"INIT", "RECEIVEDINITIATE", "SENTINITIATE"}
    \/ old \in {"SENTACCEPT", "RECEIVEDACCEPT"} /\ new = "INPROGRESS"
    \/ p = Initiator[s] /\ new \in {"RECEIVEDINITIATE_ACK", "RECEIVEDACCEPT"}

Turns(p, e, f, s) ==
    \/ AcceptOf(s) \notin f.out /\ Turn(p, s, e.state[s], f.state[s])
    \/ /\ AcceptOf(s) \in f.out /\ p = Responder[s]
       /\ e.state[s] = "RECEIVEDINITIATE" /\ f.state[s] = "SENTACCEPT"

\* What the building blocks do to the state and to what is sent.
LEMMA SetStateEffect ==
    ASSUME NEW e \in Endpoint, NEW s \in Sid, NEW new \in State
    PROVE  /\ SetState(e, s, new) \in Endpoint
           /\ SetState(e, s, new).state[s] = new
           /\ SetState(e, s, new).out = e.out
  <1>1. SetState(e, s, new) \in Endpoint /\ SetState(e, s, new).state[s] = new
    BY SetStateTouch DEF Touches
  <1>2. SetState(e, s, new).out = e.out
    BY DEF SetState, Post, ClientOnSessionState, CallOnSessionState, Endpoint
  <1> QED BY <1>1, <1>2

LEMMA PutEffect ==
    ASSUME NEW p \in Peer, NEW e \in Endpoint, NEW s \in Sid, NEW kind \in Kind,
           NEW act \in Act, kind # "set" \/ act # "accept", AcceptOf(s) \notin e.out
    PROVE  /\ Put(p, e, s, kind, act) \in Endpoint
           /\ Put(p, e, s, kind, act).state = e.state
           /\ AcceptOf(s) \notin Put(p, e, s, kind, act).out
  <1>1. /\ Touches(p, e, Put(p, e, s, kind, act), s, {s}, {})
        /\ Put(p, e, s, kind, act).state = e.state
        /\ Put(p, e, s, kind, act).out =
               e.out \cup {[to |-> Remote(p, s), sid |-> s, kind |-> kind, act |-> act]}
    BY PutTouch
  <1>2. AcceptOf(s) # [to |-> Remote(p, s), sid |-> s, kind |-> kind, act |-> act]
    BY DEF AcceptOf, SetStanza
  <1> QED BY <1>1, <1>2 DEF Touches

LEMMA SendEffect ==
    ASSUME NEW p \in Peer, NEW e \in Endpoint, NEW s \in Sid, NEW act \in Act,
           act # "info", act = "initiate" => p = Initiator[s], AcceptOf(s) \notin e.out
    PROVE  /\ SendMessage(p, e, s, act) \in Endpoint
           /\ SendMessage(p, e, s, act).state = e.state
           /\ act # "accept" => AcceptOf(s) \notin SendMessage(p, e, s, act).out
           /\ act = "accept" /\ p = Responder[s] =>
                  AcceptOf(s) \in SendMessage(p, e, s, act).out
  <1>1. /\ SendMessage(p, e, s, act) \in Endpoint
        /\ SendMessage(p, e, s, act).state = e.state
        /\ SendMessage(p, e, s, act).out = e.out \cup {SetStanza(Remote(p, s), s, act)}
    BY SendMessageTouch
  <1>2. act # "accept" => AcceptOf(s) # SetStanza(Remote(p, s), s, act)
    BY DEF AcceptOf, SetStanza
  <1>3. p = Responder[s] => Remote(p, s) = Initiator[s]
    BY RemoteOfResponder
  <1> QED BY <1>1, <1>2, <1>3 DEF AcceptOf

LEMMA EndEffect ==
    ASSUME NEW p \in Peer, NEW e \in Endpoint, NEW s \in Sid, NEW busy,
           AcceptOf(s) \notin e.out
    PROVE  /\ TerminateWithReason(p, e, s).state[s] \in Terminal
           /\ AcceptOf(s) \notin TerminateWithReason(p, e, s).out
           /\ \/ Reject(p, e, s, busy).state[s] \in Terminal
              \/ Reject(p, e, s, busy).state[s] = e.state[s]
           /\ AcceptOf(s) \notin Reject(p, e, s, busy).out
  <1>1. ASSUME NEW act \in Act \ {"info", "initiate", "accept"}, NEW new \in Terminal
        PROVE  LET f == SetState(SendMessage(p, e, s, act), s, new)
               IN  f.state[s] \in Terminal /\ AcceptOf(s) \notin f.out
    <2>1. new \in State
      BY DEF State
    <2>2. /\ SendMessage(p, e, s, act) \in Endpoint
          /\ AcceptOf(s) \notin SendMessage(p, e, s, act).out
      BY SendEffect
    <2> QED BY <2>1, <2>2, SetStateEffect
  <1>2. /\ {"terminate", "reject", "busy"} \subseteq Act \ {"info", "initiate", "accept"}
        /\ {"SENTTERMINATE", "SENTBUSY", "SENTREJECT"} \subseteq Terminal
    BY DEF Act, Terminal
  <1>3. CASE e.state[s] \in Terminal
    BY <1>1, <1>2, <1>3 DEF TerminateWithReason, Reject, Terminal
  <1>4. CASE e.state[s] \notin Terminal
    BY <1>1, <1>2, <1>4 DEF TerminateWithReason, Reject
  <1> QED BY <1>3, <1>4

LEMMA InitiateAckedEffect ==
    ASSUME NEW p \in Peer, NEW e \in Endpoint, NEW s \in Sid, AcceptOf(s) \notin e.out
    PROVE  /\ OnInitiateAcked(p, e, s) \in Endpoint
           /\ OnInitiateAcked(p, e, s).state[s] = "RECEIVEDINITIATE_ACK"
           /\ AcceptOf(s) \notin OnInitiateAcked(p, e, s).out
  <1> DEFINE A == {s}
             N == {"RECEIVEDINITIATE_ACK"}
             d == [e EXCEPT !.timers = @ \ {<<"MSG_INIT_ACK_TIMEOUT", s>>}]
             f == SetState(d, s, "RECEIVEDINITIATE_ACK")
             g == [f EXCEPT !.acked = @ \cup {s}]
             h == [g EXCEPT !.cands[s] = "sent"]
  <1>1. /\ OnInitiateAcked(p, e, s) \in Endpoint
        /\ OnInitiateAcked(p, e, s).state[s] = "RECEIVEDINITIATE_ACK"
    BY InitiateAckedTouch
  <1>2. OnInitiateAcked(p, e, s) \in {f, g, Put(p, h, s, "set", "info")}
    BY DEF OnInitiateAcked, SendAllUnsentTransportInfoMessages
  <1>3. "RECEIVEDINITIATE_ACK" \in State
    BY DEF State, Initiating
  <1>4. e.timers \ {<<"MSG_INIT_ACK_TIMEOUT", s>>} \in SUBSET (Timer \X Sid)
    BY EndpointFields
  <1>5. d \in Endpoint /\ d.out = e.out
    BY <1>4 DEF Endpoint
  <1> HIDE DEF d
  <1>6. f \in Endpoint /\ f.out = e.out
    BY <1>3, <1>5, SetStateEffect
  <1> HIDE DEF f
  <1>7. f.acked \cup {s} \in SUBSET Sid
    BY <1>6, EndpointFields
  <1>8. g \in Endpoint /\ g.out = e.out
    BY <1>6, <1>7 DEF Endpoint
  <1> HIDE DEF g
  <1>9. h \in Endpoint /\ h.out = e.out
    BY <1>8 DEF Endpoint
  <1> HIDE DEF h
  <1>10. AcceptOf(s) \notin Put(p, h, s, "set", "info").out
    BY <1>9, PutEffect DEF Kind, Act
  <1> QED BY <1>1, <1>2, <1>6, <1>8, <1>10

\* The handlers.
LEMMA MsgStateTurn ==
    ASSUME NEW p, NEW e \in Endpoint, NEW s \in Sid, e.out = {}
    PROVE  Turns(p, e, OnMsgState(e, s), s)
  <1>1. CASE e.state[s] \in {"SENTACCEPT", "RECEIVEDACCEPT"}
    <2>1. "INPROGRESS" \in State /\ OnMsgState(e, s) = SetState(e, s, "INPROGRESS")
      BY <1>1 DEF State, Terminal, OnMsgState
    <2> QED BY <1>1, <2>1, SetStateEffect DEF Turns, Turn, Found
  <1>2. CASE e.state[s] \in Terminal
    <2>1. OnMsgState(e, s) = DestroySession(e, s)
      BY <1>2 DEF OnMsgState, Terminal
    <2> QED BY <1>2, <2>1, DestroySessionTouch DEF Turns, Turn, Found
  <1>3. CASE e.state[s] \notin {"SENTACCEPT", "RECEIVEDACCEPT"} \cup Terminal
    <2>1. OnMsgState(e, s) = e
      BY <1>3 DEF OnMsgState
    <2> QED BY <2>1 DEF Turns, Turn, Found
  <1> QED BY <1>1, <1>2, <1>3

\* A handler that only ends the session, or leaves it as it is.
LEMMA EndTurn ==
    ASSUME NEW p \in Peer, NEW e \in Endpoint, NEW s \in Sid, NEW busy, e.out = {}
    PROVE  /\ Turns(p, e, e, s)
           /\ Turns(p, e, TerminateWithReason(p, e, s), s)
           /\ Turns(p, e, DeclineCallS(p, e, s, busy), s)
           /\ Turns(p, e, CallTerminate(p, e, s), s)
           /\ Turns(p, e, EndCallS(p, e, s), s)
           /\ Turns(p, e, HoldCallS(e, s, busy), s)
           /\ Turns(p, e, OnMsgCheckAutoDestroy(e, s), s)
  <1>1. Turns(p, e, e, s)
    BY DEF Turns, Turn, Found
  <1>2. /\ Turns(p, e, TerminateWithReason(p, e, s), s)
        /\ Turns(p, e, Reject(p, e, s, busy), s)
    BY EndEffect DEF Turns, Turn, Found
  <1>3. /\ DeclineCallS(p, e, s, busy) \in {e, Reject(p, e, s, busy)}
        /\ CallTerminate(p, e, s) \in {e, TerminateWithReason(p, e, s)}
        /\ EndCallS(p, e, s) \in {e, CallTerminate(p, e, s)}
    BY DEF DeclineCallS, CallTerminate, EndCallS
  <1>4. HoldCallS(e, s, busy).state = e.state /\ HoldCallS(e, s, busy).out = e.out
    BY DEF HoldCallS, Endpoint
  <1>5. Turns(p, e, HoldCallS(e, s, busy), s)
    BY <1>4 DEF Turns, Turn, Found
  <1>6. DestroyCall(e, s).state = e.state /\ DestroyCall(e, s).out = e.out
    BY DEF DestroyCall, OnCallDestroy, Endpoint
  <1>7. Turns(p, e, DestroyCall(e, s), s)
    BY <1>6 DEF Turns, Turn, Found
  <1>8. OnMsgCheckAutoDestroy(e, s) \in {e, DestroyCall(e, s)}
    BY DEF OnMsgCheckAutoDestroy
  <1> QED BY <1>1, <1>2, <1>3, <1>5, <1>7, <1>8

LEMMA AcceptTurn ==
    ASSUME NEW p \in Peer, NEW e \in Endpoint, NEW s \in Sid, e.out = {},
           e.state[s] = "RECEIVEDINITIATE" => p = Responder[s]
    PROVE  Turns(p, e, AcceptCallS(p, e, s), s)
  <1>1. CASE AcceptCallS(p, e, s) = e
    BY <1>1 DEF Turns, Turn, Found
  <1>2. CASE e.state[s] = "RECEIVEDINITIATE" /\ AcceptCallS(p, e, s) # e
    <2> DEFINE f == SendMessage(p, e, s, "accept")
    <2>1. AcceptCallS(p, e, s) = SetState(f, s, "SENTACCEPT")
      BY <1>2 DEF AcceptCallS, Accept
    <2>2. f \in Endpoint /\ AcceptOf(s) \in f.out
      BY <1>2, SendEffect DEF Act
    <2> HIDE DEF f
    <2>3. "SENTACCEPT" \in State
      BY DEF State
    <2> QED BY <1>2, <2>1, <2>2, <2>3, SetStateEffect DEF Turns, Turn, Found
  <1> QED BY <1>1, <1>2 DEF AcceptCallS, Accept

LEMMA CallTurn ==
    ASSUME NEW p \in Peer, NEW e \in Endpoint, NEW s \in Sid, p = Initiator[s],
           e.out = {}, ~Found(e, s)
    PROVE  Turns(p, e, CallS(p, e, s, TRUE), s)
  <1> DEFINE b == AddSession(CreateSession(e, s), s)
             c == [b EXCEPT !.timers = @ \cup {<<"MSG_INIT_ACK_TIMEOUT", s>>}]
             d == SendMessage(p, c, s, "initiate")
             f == SetState(d, s, "SENTINITIATE")
             g == [f EXCEPT !.timers = @ \cup {<<"MSG_TERMINATECALL", s>>}]
  <1>1. {"INIT", "SENTINITIATE"} \subseteq State /\ "initiate" \in Act
    BY DEF State, Initiating, Act
  <1>2. CallS(p, e, s, TRUE) = g
    BY DEF CallS, Initiate
  <1>3. \A t \in Timer : e.timers \cup {<<t, s>>} \in SUBSET (Timer \X Sid)
    BY EndpointFields
  <1>4. "MSG_INIT_ACK_TIMEOUT" \in Timer
    BY DEF Timer, SessionTimer
  <1>5. c \in Endpoint /\ c.out = {}
    BY <1>1, <1>3, <1>4 DEF CreateSession, AddSession, Endpoint
  <1> HIDE DEF c
  <1>6. d \in Endpoint /\ AcceptOf(s) \notin d.out
    BY <1>1, <1>5, SendEffect
  <1> HIDE DEF d
  <1>7. f \in Endpoint /\ f.state[s] = "SENTINITIATE" /\ AcceptOf(s) \notin f.out
    BY <1>1, <1>6, SetStateEffect
  <1> HIDE DEF f
  <1>8. g.state = f.state /\ g.out = f.out
    BY <1>7 DEF Endpoint
  <1> QED BY <1>2, <1>7, <1>8 DEF Turns, Turn, Found

LEMMA IncomingTurn ==
    ASSUME NEW p \in Peer, NEW e \in Endpoint, NEW s \in Sid, e.out = {}, ~Found(e, s)
    PROVE  Turns(p, e, Incoming(p, e, s), s)
  <1>1. /\ {"INIT", "RECEIVEDINITIATE"} \subseteq State
        /\ "initiate" \in Act /\ {"error", "result"} \subseteq Kind
    BY DEF State, Act, Kind
  <1>2. CASE Offer[s] = "unusable"
    <2> DEFINE a == CreateSession(e, s)
    <2>1. a \in Endpoint /\ a.state[s] = "INIT" /\ a.out = {}
      BY <1>1 DEF CreateSession, Endpoint
    <2>2. Incoming(p, e, s) = Put(p, a, s, "error", "initiate")
      BY <1>2 DEF Incoming
    <2> HIDE DEF a
    <2> QED BY <1>1, <2>1, <2>2, PutEffect DEF Turns, Turn, Found
  <1>3. CASE Offer[s] # "unusable"
    <2> DEFINE b == AddSession(e, s)
               f == SetState(b, s, "RECEIVEDINITIATE")
               g == IF Offer[s] = "nocodec" THEN Reject(p, f, s, FALSE) ELSE f
    <2>1. b \in Endpoint /\ b.out = {}
      BY DEF AddSession, Endpoint
    <2> HIDE DEF b
    <2>2. f \in Endpoint /\ f.state[s] = "RECEIVEDINITIATE" /\ f.out = {}
      BY <1>1, <2>1, SetStateEffect
    <2>3. Incoming(p, e, s) = Put(p, g, s, "result", "initiate")
      BY <1>3 DEF Incoming, b
    <2> HIDE DEF f
    <2>4. /\ g \in Endpoint /\ AcceptOf(s) \notin g.out
          /\ g.state[s] \in Terminal \cup {"RECEIVEDINITIATE"}
      <3> DEFINE busy == FALSE
                 h == Reject(p, f, s, busy)
      <3> HIDE DEF busy
      <3>1. h \in Endpoint
        BY <2>2, EndTouch DEF Touches
      <3>2. AcceptOf(s) \notin f.out
        BY <2>2
      <3>3. h.state[s] \in Terminal \/ h.state[s] = f.state[s]
        BY <2>2, <3>2, EndEffect
      <3>4. AcceptOf(s) \notin h.out
        BY <2>2, <3>2, EndEffect
      <3>5. g = IF Offer[s] = "nocodec" THEN h ELSE f
        BY DEF busy
      <3> HIDE DEF h, g
      <3> QED BY <2>2, <3>1, <3>2, <3>3, <3>4, <3>5
    <2> HIDE DEF g
    <2> QED BY <1>1, <2>3, <2>4, PutEffect DEF Turns, Turn, Found
  <1> QED BY <1>2, <1>3

LEMMA IncomingMessageTurn ==
    ASSUME NEW p \in Peer, NEW e \in Endpoint, NEW s \in Sid, NEW act \in Act,
           e.out = {}, act = "accept" => p = Initiator[s]
    PROVE  Turns(p, e, OnIncomingMessage(p, e, s, act), s)
  <1> DEFINE g == OnIncomingMessage(p, e, s, act)
  <1>1. {"error", "result"} \subseteq Kind
    BY DEF Kind
  <1>2. Turns(p, e, e, s)
    BY DEF Turns, Turn, Found
  <1>3. ASSUME NEW f \in Endpoint, Turns(p, e, f, s), AcceptOf(s) \notin f.out,
               NEW kind \in {"error", "result"}
        PROVE  Turns(p, e, Put(p, f, s, kind, act), s)
    <2>1. /\ Put(p, f, s, kind, act).state = f.state
          /\ AcceptOf(s) \notin Put(p, f, s, kind, act).out
      BY <1>1, <1>3, PutEffect
    <2> QED BY <1>3, <2>1 DEF Turns, Turn, Found
  <1>4. CASE ~Found(e, s) /\ act = "initiate"
    <2>1. g = Incoming(p, e, s)
      BY <1>4 DEF OnIncomingMessage
    <2> QED BY <1>4, <2>1, IncomingTurn
  <1>5. CASE act = "info"
    <2>1. g = e
      BY <1>5 DEF OnIncomingMessage
    <2> QED BY <1>2, <2>1
  <1>6. CASE /\ (act # "info" /\ act # "initiate") \/ Found(e, s)
             /\ ~Found(e, s) \/ act \in {"initiate", "reject"}
    <2>1. g = Put(p, e, s, "error", act) \/ g = Put(p, e, s, "result", act) \/ g = e
      BY <1>6 DEF OnIncomingMessage, OnRejectMessage
    <2> QED BY <1>2, <1>3, <2>1
  <1>7. CASE Found(e, s) /\ act = "accept"
    <2>1. g = OnAcceptMessage(p, e, s)
      BY <1>7 DEF OnIncomingMessage
    <2>2. CASE e.state[s] \notin Initiating
      BY <1>2, <1>3, <2>1, <2>2, <1>7 DEF OnAcceptMessage
    <2>3. CASE e.state[s] \in Initiating
      <3> DEFINE a == OnInitiateAcked(p, e, s)
                 f == SetState(a, s, "RECEIVEDACCEPT")
      <3>1. "RECEIVEDACCEPT" \in State
        BY DEF State
      <3>2. a \in Endpoint /\ AcceptOf(s) \notin a.out
        BY InitiateAckedEffect
      <3>3. g = Put(p, f, s, "result", act)
        BY <1>7, <2>1, <2>3 DEF OnAcceptMessage
      <3> HIDE DEF a
      <3>4. f \in Endpoint /\ f.state[s] = "RECEIVEDACCEPT" /\ AcceptOf(s) \notin f.out
        BY <3>1, <3>2, SetStateEffect
      <3>5. Turns(p, e, f, s)
        BY <1>7, <3>4 DEF Turns, Turn, Found
      <3> HIDE DEF f
      <3> QED BY <1>3, <3>3, <3>4, <3>5
    <2> QED BY <2>2, <2>3
  <1>8. CASE Found(e, s) /\ act \in {"terminate", "busy"}
    <2> DEFINE new == IF act = "busy" THEN "RECEIVEDBUSY" ELSE "RECEIVEDTERMINATE"
               f == SetState(e, s, new)
    <2>1. g = Put(p, f, s, "result", act)
      BY <1>8 DEF OnIncomingMessage, OnTerminateMessage
    <2>2. new \in State /\ new \in Terminal
      BY DEF State, Terminal
    <2> HIDE DEF new
    <2>3. f \in Endpoint /\ f.state[s] \in Terminal /\ AcceptOf(s) \notin f.out
      BY <2>2, SetStateEffect
    <2>4. Turns(p, e, f, s)
      BY <2>3 DEF Turns, Turn, Found
    <2> HIDE DEF f
    <2> QED BY <1>3, <2>1, <2>3, <2>4
  <1> QED BY <1>4, <1>5, <1>6, <1>7, <1>8 DEF Act

LEMMA ResponseTurn ==
    ASSUME NEW p \in Peer, NEW e \in Endpoint, NEW s \in Sid, NEW kind, NEW act \in Act,
           e.out = {}, AckOf(e, s, kind, act) # {} => p = Initiator[s]
    PROVE  Turns(p, e, OnResponse(p, e, s, kind, act), s)
  <1> DEFINE f == [e EXCEPT !.waiting = @ \ {<<s, act>>}]
             g == OnResponse(p, e, s, kind, act)
  <1>1. e.waiting \ {<<s, act>>} \in SUBSET (Sid \X Act)
    BY EndpointFields
  <1>2. f \in Endpoint /\ f.state = e.state /\ f.out = {}
    BY <1>1 DEF Endpoint
  <1> HIDE DEF f
  <1>3. \/ g = f
        \/ g = SetError(f, s, "RESPONSE")
        \/ AckOf(e, s, kind, act) # {} /\ g = OnInitiateAcked(p, f, s)
    BY DEF OnResponse, f, AckOf
  <1>4. SetError(f, s, "RESPONSE").state = f.state /\ SetError(f, s, "RESPONSE").out = f.out
    BY <1>2 DEF SetError, Post, Endpoint
  <1>5. /\ OnInitiateAcked(p, f, s).state[s] = "RECEIVEDINITIATE_ACK"
        /\ AcceptOf(s) \notin OnInitiateAcked(p, f, s).out
    BY <1>2, InitiateAckedEffect
  <1> QED BY <1>2, <1>3, <1>4, <1>5 DEF Turns, Turn, Found

-----------------------------------------------------------------------------
(* The step of a handler *)

\* The endpoint e that a handler for s starts with: p's own, without the
\* message it handles, which may be one that was due for s.
Resumes(p, e, s) ==
    /\ e \in Endpoint
    /\ e.state = ep[p].state /\ e.calls = ep[p].calls /\ e.media = ep[p].media
    /\ e.out = {} /\ e.waiting = ep[p].waiting /\ e.acked = ep[p].acked
    /\ \A r \in Sid \ {s} : StateDue(e, r) /\ CheckDue(e, r)
    /\ \A i \in DOMAIN e.queue : \E j \in DOMAIN ep[p].queue : e.queue[i] = ep[p].queue[j]
    /\ OneCall(e.queue)

\* What OnlyLateAckRevives says of a step.
LateAckOnly ==
    \A p \in Peer, s \in Sid :
        ep[p].state[s] \in Terminal =>
            \/ ep'[p].state[s] \in Terminal \cup {"NONE"}
            \/ p = Initiator[s] /\ ep'[p].state[s] = "RECEIVEDINITIATE_ACK"

\* A step of p about s, and the step that drops all sessions of p.
Turned(p, s) ==
    /\ \A q \in Peer, r \in Sid : q # p \/ r # s => ep'[q].state[r] = ep[q].state[r]
    /\ \A r \in Sid \ {s} : AcceptOf(r) \in sent' <=> AcceptOf(r) \in sent
    /\ \/ /\ AcceptOf(s) \in sent' <=> AcceptOf(s) \in sent
          /\ Turn(p, s, ep[p].state[s], ep'[p].state[s])
       \/ /\ AcceptOf(s) \in sent' /\ p = Responder[s]
          /\ ep[p].state[s] = "RECEIVEDINITIATE" /\ ep'[p].state[s] = "SENTACCEPT"

Dropped(p) ==
    /\ \A q \in Peer \ {p} : ep'[q] = ep[q]
    /\ \A r \in Sid : ep'[p].state[r] \in {"NONE", "INIT"}
    /\ sent' = sent

StepOK ==
    /\ LateAckOnly
    /\ \E p \in Peer : Dropped(p) \/ \E s \in Sid : Turned(p, s)

NoCall(q, s) == \A i \in DOMAIN q : q[i].id = "CALL" => q[i].sid # s

\* The dispatched message leaves the queue.
LEMMA TailMore ==
    ASSUME NEW q \in Seq(QueueMsg), q # <<>>
    PROVE  /\ \A i \in DOMAIN q : i = 1 \/ \E j \in DOMAIN Tail(q) : Tail(q)[j] = q[i]
           /\ OneCall(q) => OneCall(Tail(q))
           /\ OneCall(q) /\ Head(q).id = "CALL" => NoCall(Tail(q), Head(q).sid)
  <1>1. Len(q) \in Nat \ {0} /\ DOMAIN q = 1..Len(q)
    OBVIOUS
  <1>2. Head(q) = q[1] /\ 1 \in DOMAIN q
    BY <1>1
  <1>3. DOMAIN Tail(q) = 1..(Len(q) - 1)
    BY <1>1
  <1>4. \A i \in DOMAIN Tail(q) : i + 1 \in DOMAIN q /\ Tail(q)[i] = q[i + 1] /\ i \in Nat /\ i # 0
    BY <1>1
  <1>5. \A i \in DOMAIN q : i = 1 \/ \E j \in DOMAIN Tail(q) : Tail(q)[j] = q[i]
    <2>1. TAKE i \in DOMAIN q
    <2>2. i # 1 => i - 1 \in DOMAIN Tail(q) /\ i - 1 + 1 = i
      BY <1>1, <1>3
    <2> QED BY <1>4, <2>2
  <1>6. OneCall(q) => OneCall(Tail(q))
    <2>1. ASSUME OneCall(q), NEW i \in DOMAIN Tail(q), NEW j \in DOMAIN Tail(q),
                 Tail(q)[i].id = "CALL", Tail(q)[j].id = "CALL",
                 Tail(q)[i].sid = Tail(q)[j].sid
          PROVE  i = j
      <3>1. i + 1 = j + 1
        BY <1>4, <2>1 DEF OneCall
      <3> QED BY <1>4, <3>1
    <2> QED BY <2>1 DEF OneCall
  <1>7. OneCall(q) /\ Head(q).id = "CALL" => NoCall(Tail(q), Head(q).sid)
    <2>1. ASSUME OneCall(q), q[1].id = "CALL", NEW i \in DOMAIN Tail(q),
                 Tail(q)[i].id = "CALL", Tail(q)[i].sid = q[1].sid
          PROVE  FALSE
      <3>1. i + 1 = 1
        BY <1>2, <1>4, <2>1 DEF OneCall
      <3> QED BY <1>4, <3>1
    <2> QED BY <1>2, <2>1 DEF NoCall
  <1> QED BY <1>5, <1>6, <1>7

LEMMA RestResumes ==
    ASSUME IInv, DInv, NEW p \in Peer, ep[p].queue # <<>>
    PROVE  /\ Front(p) \in QueueMsg
           /\ Resumes(p, Rest(p), Front(p).sid)
           /\ Front(p).id # "MSG_STATE" => StateDue(Rest(p), Front(p).sid)
           /\ Front(p).id # "MSG_CHECKAUTODESTROY" => CheckDue(Rest(p), Front(p).sid)
           /\ Front(p).id = "CALL" => NoCall(Rest(p).queue, Front(p).sid)
           /\ \E i \in DOMAIN ep[p].queue : Front(p) = ep[p].queue[i]
           /\ MsgRouted(p, Front(p), sent)
  <1>1. ep[p] \in Endpoint /\ ep[p].out = {} /\ ep[p].queue \in Seq(QueueMsg)
    BY EndpointFields DEF IInv
  <1>2. /\ Front(p) \in QueueMsg
        /\ Rest(p).queue \in Seq(QueueMsg)
        /\ \E i \in DOMAIN ep[p].queue : Front(p) = ep[p].queue[i]
        /\ \A i \in DOMAIN Rest(p).queue : \E j \in DOMAIN ep[p].queue :
               Rest(p).queue[i] = ep[p].queue[j]
        /\ Rest(p).queue = Tail(ep[p].queue)
    BY <1>1, TailFacts DEF Rest, Front, Endpoint
  <1>3. /\ Rest(p) \in Endpoint
        /\ Rest(p).state = ep[p].state /\ Rest(p).calls = ep[p].calls
        /\ Rest(p).media = ep[p].media /\ Rest(p).out = {}
        /\ Rest(p).waiting = ep[p].waiting /\ Rest(p).acked = ep[p].acked
    BY <1>1, <1>2 DEF Rest, Endpoint
  <1>4. \A i \in DOMAIN ep[p].queue :
           i = 1 \/ \E j \in DOMAIN Rest(p).queue : Rest(p).queue[j] = ep[p].queue[i]
    BY <1>1, <1>2, TailMore
  <1>5. Front(p) = ep[p].queue[1]
    BY <1>1 DEF Front
  <1>6. \A id, r : Pending(ep[p], id, r) /\ (Front(p).id # id \/ Front(p).sid # r)
                     => Pending(Rest(p), id, r)
    BY <1>4, <1>5 DEF Pending
  <1>7. \A r \in Sid : StateDue(ep[p], r) /\ CheckDue(ep[p], r)
    BY DEF DInv, DoomedIsQueued, StateDue, CheckDue
  <1>8. \A r \in Sid :
           /\ Front(p).id # "MSG_STATE" \/ Front(p).sid # r => StateDue(Rest(p), r)
           /\ Front(p).id # "MSG_CHECKAUTODESTROY" \/ Front(p).sid # r
                  => CheckDue(Rest(p), r)
    BY <1>3, <1>6, <1>7 DEF StateDue, CheckDue
  <1>9. /\ OneCall(Rest(p).queue)
        /\ Front(p).id = "CALL" => NoCall(Rest(p).queue, Front(p).sid)
    BY <1>1, <1>2, TailMore DEF DInv, Placed, Front
  <1>10. MsgRouted(p, Front(p), sent)
    BY <1>2 DEF IInv, Good, Decent, Routed
  <1>11. Front(p).sid \in Sid
    BY <1>2 DEF QueueMsg
  <1> QED BY <1>2, <1>3, <1>8, <1>9, <1>10, <1>11 DEF Resumes

\* A timer fires, a send fails or a transport changes: the queue stays.
LEMMA SameResumes ==
    ASSUME IInv, DInv, NEW p \in Peer, NEW s \in Sid, NEW e \in Endpoint,
           e.state = ep[p].state, e.calls = ep[p].calls, e.media = ep[p].media,
           e.out = ep[p].out, e.waiting = ep[p].waiting, e.acked = ep[p].acked,
           e.queue = ep[p].queue
    PROVE  Resumes(p, e, s) /\ StateDue(e, s) /\ CheckDue(e, s)
  <1>1. \A r \in Sid : StateDue(e, r) /\ CheckDue(e, r)
    BY DEF DInv, DoomedIsQueued, StateDue, CheckDue, Pending
  <1>2. OneCall(e.queue) /\ e.out = {}
    BY DEF DInv, Placed, IInv
  <1> QED BY <1>1, <1>2 DEF Resumes

LEMMA BecomeDuty ==
    ASSUME IInv, DInv, NEW p \in Peer, NEW s \in Sid, NEW e, NEW f, NEW A, NEW N,
           Resumes(p, e, s), Touches(p, e, f, s, A, N),
           StateDue(e, s) \/ StateDue(f, s), CheckDue(e, s) \/ CheckDue(f, s),
           \/ Used(s)
           \/ p = Initiator[s] /\ NoCall(e.queue, s) /\ \E m \in f.out : m.sid = s
           \/ f = e,
           A \subseteq {s}, s \in A => Acknowledged(s),
           e.state[s] \in Terminal =>
               \A new \in N : p = Initiator[s] /\ new = "RECEIVEDINITIATE_ACK",
           Turns(p, e, f, s), Become(p, f)
    PROVE  DInv' /\ StepOK
  <1>1. /\ ep'[p] = [f EXCEPT !.out = {}]
        /\ \A q \in Peer \ {p} : ep'[q] = ep[q]
        /\ sent' = sent \cup f.out
    BY DEF Become, IInv
  <1>2. f \in Endpoint
    BY DEF Touches
  <1>3. /\ ep'[p].state = f.state /\ ep'[p].calls = f.calls /\ ep'[p].media = f.media
        /\ ep'[p].queue = f.queue /\ ep'[p].waiting = f.waiting /\ ep'[p].acked = f.acked
    BY <1>1, <1>2 DEF Endpoint
  <1>4. /\ \A r : Used(r) => Used(r)'
        /\ \A r : Acknowledged(r) => Acknowledged(r)'
        /\ f # e => Used(s)'
    BY <1>1 DEF Used, Acknowledged, Acknowledges
  <1>5. \A m \in f.out : m.sid = s /\ (m = SetStanza(Responder[s], s, "info") => s \in A)
    BY DEF Touches, Sends, Resumes
  <1>6. \A r : r # s /\ Used(r)' => Used(r)
    BY <1>1, <1>5 DEF Used
  <1>7. \A i \in DOMAIN f.queue :
           \/ \E j \in DOMAIN ep[p].queue : f.queue[i] = ep[p].queue[j]
           \/ f # e /\ f.queue[i].sid = s /\ f.queue[i].id \notin Kind \cup {"CALL"}
    BY DEF Touches, Queues, Resumes
  <1>0. ASSUME NEW q \in Peer, NEW i \in DOMAIN ep'[q].queue
        PROVE  \/ \E j \in DOMAIN ep[q].queue : ep'[q].queue[i] = ep[q].queue[j]
               \/ /\ q = p /\ f # e
                  /\ ep'[q].queue[i].sid = s
                  /\ ep'[q].queue[i].id \notin Kind \cup {"CALL"}
    <2>1. CASE q = p
      BY <1>0, <1>3, <1>7, <2>1
    <2>2. CASE q # p
      BY <1>0, <1>1, <2>2
    <2> QED BY <2>1, <2>2
  <1>8. DoomedIsQueued'
    <2>1. \A r \in Sid : StateDue(f, r) /\ CheckDue(f, r)
      BY DEF Touches, Duties, Resumes
    <2>2. \A r \in Sid : StateDue(ep'[p], r) /\ CheckDue(ep'[p], r)
      BY <1>3, <2>1 DEF StateDue, CheckDue, Pending
    <2>3. \A q \in Peer \ {p}, r \in Sid : StateDue(ep'[q], r) /\ CheckDue(ep'[q], r)
      BY <1>1 DEF StateDue, CheckDue, DInv, DoomedIsQueued
    <2>4. \A q \in Peer, r \in Sid : StateDue(ep'[q], r) /\ CheckDue(ep'[q], r)
      BY <2>2, <2>3
    <2> QED BY <2>4 DEF StateDue, CheckDue, DoomedIsQueued, Pending
  <1>9. CandidatesFollowInitiate'
    <2>1. ASSUME NEW r \in Sid, SetStanza(Responder[r], r, "info") \in sent'
          PROVE  Acknowledged(r)'
      <3>1. CASE SetStanza(Responder[r], r, "info") \in sent
        <4>1. Acknowledged(r)
          BY <3>1 DEF DInv, CandidatesFollowInitiate, Acknowledged, Acknowledges
        <4> QED BY <1>4, <4>1
      <3>2. CASE SetStanza(Responder[r], r, "info") \in f.out
        <4>1. r = s
          BY <1>5, <3>2 DEF SetStanza
        <4> QED BY <1>4, <1>5, <3>2, <4>1
      <3> QED BY <1>1, <2>1, <3>1, <3>2
    <2> QED BY <2>1 DEF CandidatesFollowInitiate, Acknowledged, Acknowledges
  <1>10. Acks'
    <2>1. ASSUME NEW r \in Sid, r \in ep'[Initiator[r]].acked
          PROVE  Acknowledged(r)'
      <3>1. Initiator[r] \in Peer
        BY RouteAssumption
      <3>2. r \in ep[Initiator[r]].acked \/ Acknowledged(r)
        <4>1. CASE Initiator[r] = p
          <5>1. r \in ep[p].acked \/ r \in A
            BY <1>3, <2>1, <4>1 DEF Touches, Resumes
          <5> QED BY <4>1, <5>1
        <4>2. CASE Initiator[r] # p
          BY <1>1, <2>1, <3>1, <4>2
        <4> QED BY <4>1, <4>2
      <3> QED BY <1>4, <3>2 DEF DInv, Acks
    <2> QED BY <2>1 DEF Acks
  <1>11. Carried'
    <2>1. ASSUME NEW q \in Peer, NEW i \in DOMAIN ep'[q].queue, ep'[q].queue[i].id \in Kind
          PROVE  [to |-> q, sid |-> ep'[q].queue[i].sid, kind |-> ep'[q].queue[i].id,
                  act |-> ep'[q].queue[i].act] \in sent
      <3>1. \E j \in DOMAIN ep[q].queue : ep'[q].queue[i] = ep[q].queue[j]
        BY <1>0, <2>1
      <3> QED BY <2>1, <3>1 DEF DInv, Carried
    <2> QED BY <1>1, <2>1 DEF Carried
  <1>12. Begun'
    <2>1. ASSUME NEW q \in Peer, NEW r \in Sid, Keeps(ep'[q], r)
          PROVE  Used(r)'
      <3>1. (r = s /\ f # e) \/ Keeps(ep[q], r)
        <4>1. CASE q # p
          BY <1>1, <2>1, <4>1
        <4>2. CASE q = p /\ r # s
          <5>1. /\ f.state[r] = ep[p].state[r]
                /\ r \in f.calls => r \in ep[p].calls
                /\ \A act \in Act : <<r, act>> \in f.waiting => <<r, act>> \in ep[p].waiting
            BY <4>2 DEF Touches, Moves, Waits, Resumes
          <5> QED BY <1>3, <2>1, <4>2, <5>1 DEF Keeps
        <4>3. CASE q = p /\ f = e
          BY <1>3, <2>1, <4>3 DEF Keeps, Resumes
        <4> QED BY <4>1, <4>2, <4>3
      <3> QED BY <1>4, <3>1 DEF DInv, Begun
    <2>2. ASSUME NEW q \in Peer, NEW i \in DOMAIN ep'[q].queue, ~Idle(ep'[q].queue[i]),
                 NEW r, r = ep'[q].queue[i].sid
          PROVE  Used(r)'
      <3>1. \/ \E j \in DOMAIN ep[q].queue : ep'[q].queue[i] = ep[q].queue[j]
            \/ r = s /\ f # e
        BY <1>0, <2>2
      <3>2. (r = s /\ f # e) \/ Used(r)
        BY <2>2, <3>1 DEF DInv, Begun
      <3> QED BY <1>4, <3>2
    <2> QED BY <2>1, <2>2 DEF Begun, Keeps, Idle, Used
  <1>13. Placed'
    <2>1. OneCall(f.queue)
      <3>1. \A i \in DOMAIN f.queue : f.queue[i].id = "CALL" =>
               i \in DOMAIN e.queue /\ f.queue[i] = e.queue[i]
        BY DEF Touches, Queues
      <3> QED BY <3>1 DEF OneCall, Resumes
    <2>2. ASSUME NEW q \in Peer
          PROVE  OneCall(ep'[q].queue)
      BY <1>1, <1>3, <2>1 DEF DInv, Placed
    <2>3. ASSUME NEW q \in Peer, NEW i \in DOMAIN ep'[q].queue, ep'[q].queue[i].id = "CALL",
                 NEW r, r = ep'[q].queue[i].sid, Used(r)'
          PROVE  FALSE
      <3>1. PICK j \in DOMAIN ep[q].queue : ep'[q].queue[i] = ep[q].queue[j]
        BY <1>0, <2>3
      <3>2. ~Used(r)
        BY <2>3, <3>1 DEF DInv, Placed
      <3>3. r = s /\ f # e
        <4>1. r = s
          BY <1>6, <2>3, <3>2
        <4>2. f.out = {} => Used(r)
          BY <1>1, <2>3 DEF Used
        <4> QED BY <3>2, <4>1, <4>2 DEF Resumes
      <3>4. MsgRouted(q, ep[q].queue[j], sent)
        BY DEF IInv, Good, Decent, Routed
      <3>5. q = Initiator[s] /\ p = Initiator[s] /\ NoCall(e.queue, s)
        BY <2>3, <3>1, <3>2, <3>3, <3>4 DEF MsgRouted
      <3>6. i \in DOMAIN e.queue /\ f.queue[i] = e.queue[i]
        BY <1>3, <2>3, <3>5 DEF Touches, Queues
      <3> QED BY <1>3, <2>3, <3>3, <3>5, <3>6 DEF NoCall
    <2>4. \A q \in Peer : \A i \in DOMAIN ep'[q].queue :
             ep'[q].queue[i].id = "CALL" => ep'[q].queue[i].act = "-"
      BY <1>0 DEF DInv, Placed
    <2> QED BY <2>2, <2>3, <2>4 DEF Placed, OneCall, Used
  <1>14. Asked'
    <2>1. ASSUME NEW q \in Peer, NEW r \in Sid, <<r, "initiate">> \in ep'[q].waiting
          PROVE  q = Initiator[r]
      <3>1. CASE <<r, "initiate">> \in ep[q].waiting
        BY <3>1 DEF DInv, Asked
      <3>2. CASE q = p /\ <<r, "initiate">> \in f.waiting
        BY <3>1, <3>2 DEF Touches, Waits, Resumes
      <3> QED BY <1>1, <1>3, <2>1, <3>1, <3>2
    <2> QED BY <2>1 DEF Asked
  <1>15. LateAckOnly
    <2>1. ASSUME NEW q \in Peer, NEW r \in Sid, ep[q].state[r] \in Terminal
          PROVE  \/ ep'[q].state[r] \in Terminal \cup {"NONE"}
                 \/ q = Initiator[r] /\ ep'[q].state[r] = "RECEIVEDINITIATE_ACK"
      <3>1. CASE q # p
        BY <1>1, <2>1, <3>1
      <3>2. CASE q = p /\ r # s
        BY <1>3, <2>1, <3>2 DEF Touches, Moves, Resumes
      <3>3. CASE q = p /\ r = s
        <4>1. f.state[s] \in {e.state[s], "NONE"} \cup Terminal \cup N
          BY DEF Touches, Moves
        <4> QED BY <1>3, <2>1, <3>3, <4>1 DEF Resumes
      <3> QED BY <3>1, <3>2, <3>3
    <2> QED BY <2>1 DEF LateAckOnly
  <1>16. \A q \in Peer, r \in Sid : q # p \/ r # s => ep'[q].state[r] = ep[q].state[r]
    <2>1. \A q \in Peer \ {p}, r \in Sid : ep'[q].state[r] = ep[q].state[r]
      BY <1>1
    <2>2. \A r \in Sid \ {s} : ep'[p].state[r] = ep[p].state[r]
      BY <1>3 DEF Touches, Moves, Resumes
    <2> QED BY <2>1, <2>2
  <1>17. ep[p].state[s] = e.state[s] /\ ep'[p].state[s] = f.state[s]
    BY <1>3 DEF Resumes
  <1>18. Turned(p, s)
    <2>1. \A r \in Sid \ {s} : AcceptOf(r) \in sent' <=> AcceptOf(r) \in sent
      BY <1>1, <1>5 DEF AcceptOf, SetStanza
    <2>2. AcceptOf(s) \in sent' <=> AcceptOf(s) \in sent \/ AcceptOf(s) \in f.out
      BY <1>1
    <2> QED BY <1>16, <1>17, <2>1, <2>2 DEF Turned, Turns
  <1>19. Roles'
    <2>1. ASSUME NEW q \in Peer, NEW r \in Sid, ep'[q].state[r] = "RECEIVEDACCEPT"
          PROVE  q = Initiator[r]
      <3>1. CASE q # p \/ r # s
        BY <1>16, <2>1, <3>1 DEF DInv, Roles
      <3>2. CASE q = p /\ r = s
        <4>1. Turn(p, s, ep[p].state[s], ep'[p].state[s])
          BY <1>18, <2>1, <3>2 DEF Turned
        <4> QED BY <2>1, <3>2, <4>1 DEF Turn, DInv, Roles, Terminal
      <3> QED BY <3>1, <3>2
    <2> QED BY <2>1 DEF Roles
  <1> QED BY <1>8, <1>9, <1>10, <1>11, <1>12, <1>13, <1>14, <1>15, <1>18, <1>19
          DEF DInv, StepOK

\* The handler of a message about a session that was used.
LEMMA HandlerDuty ==
    ASSUME IInv, DInv, NEW p \in Peer, ep[p].queue # <<>>, ~Idle(Front(p)),
           NEW s, s = Front(p).sid, NEW e, e = Rest(p), NEW f, NEW A, NEW N,
           Touches(p, e, f, s, A, N),
           Front(p).id = "MSG_STATE" => StateDue(f, s),
           Front(p).id = "MSG_CHECKAUTODESTROY" => CheckDue(f, s),
           A \subseteq {s}, s \in A => Acknowledged(s),
           e.state[s] \in Terminal =>
               \A new \in N : p = Initiator[s] /\ new = "RECEIVEDINITIATE_ACK",
           Turns(p, e, f, s), Become(p, f)
    PROVE  DInv' /\ StepOK
  <1>1. /\ Resumes(p, e, s) /\ s \in Sid
        /\ StateDue(e, s) \/ StateDue(f, s)
        /\ CheckDue(e, s) \/ CheckDue(f, s)
        /\ \E i \in DOMAIN ep[p].queue : Front(p) = ep[p].queue[i]
    BY RestResumes DEF QueueMsg
  <1>2. Used(s)
    BY <1>1 DEF DInv, Begun
  <1> QED BY <1>1, <1>2, BecomeDuty

LEMMA DisconnectDuty ==
    ASSUME IInv, DInv, NEW p \in Peer, Become(p, DisconnectS(ep[p]))
    PROVE  DInv' /\ StepOK
  <1> DEFINE f == DisconnectS(ep[p])
  <1>1. /\ f.calls = {} /\ f.media = {} /\ f.queue = <<>> /\ f.waiting = {}
        /\ f.acked = {} /\ f.out = {}
        /\ f.state = [s \in Sid |-> IF s \in ep[p].media THEN "NONE" ELSE ep[p].state[s]]
    BY DEF DisconnectS, IdleEndpoint
  <1>2. /\ DOMAIN f = DOMAIN IdleEndpoint
        /\ ep'[p] = [f EXCEPT !.out = {}]
        /\ \A q \in Peer \ {p} : ep'[q] = ep[q]
        /\ sent' = sent \cup f.out
    BY DEF Become, IInv, DisconnectS, IdleEndpoint
  <1>3. /\ ep'[p].calls = {} /\ ep'[p].queue = <<>> /\ ep'[p].waiting = {}
        /\ ep'[p].acked = {} /\ ep'[p].state = f.state /\ sent' = sent
    BY <1>1, <1>2 DEF IdleEndpoint
  <1>4. \A s \in Sid : \/ f.state[s] = "NONE"
                       \/ f.state[s] = "INIT" /\ ep[p].state[s] = "INIT"
    BY <1>1 DEF IInv, Good, Registered, Found
  <1> HIDE DEF f
  <1>5. ASSUME NEW q \in Peer
        PROVE  \/ ep'[q] = ep[q]
               \/ /\ q = p
                  /\ ep'[q].calls = {} /\ ep'[q].queue = <<>> /\ ep'[q].waiting = {}
                  /\ \A s \in Sid : \/ ep'[q].state[s] = "NONE"
                                    \/ /\ ep'[q].state[s] = "INIT"
                                       /\ ep[q].state[s] = "INIT"
    <2>1. CASE q = p
      BY <1>3, <1>4, <2>1
    <2>2. CASE q # p
      BY <1>2, <2>2
    <2> QED BY <2>1, <2>2
  <1>6. DoomedIsQueued'
    <2>1. \A q \in Peer, s \in Sid : StateDue(ep[q], s) /\ CheckDue(ep[q], s)
      BY DEF DInv, DoomedIsQueued, StateDue, CheckDue
    <2>2. ASSUME NEW q \in Peer, NEW s \in Sid
          PROVE  StateDue(ep'[q], s) /\ CheckDue(ep'[q], s)
      BY <1>5, <2>1 DEF StateDue, CheckDue, Terminal
    <2> QED BY <2>2 DEF DoomedIsQueued, StateDue, CheckDue, Pending
  <1>7. CandidatesFollowInitiate'
    BY <1>3 DEF DInv, CandidatesFollowInitiate
  <1>8. Acks'
    BY <1>2, <1>3, RouteAssumption DEF DInv, Acks, Acknowledged
  <1>9. Carried'
    <2>1. ASSUME NEW q \in Peer, NEW i \in DOMAIN ep'[q].queue
          PROVE  i \in DOMAIN ep[q].queue /\ ep'[q].queue[i] = ep[q].queue[i]
      BY <1>5, <2>1
    <2> QED BY <1>3, <2>1 DEF DInv, Carried
  <1>10. Begun'
    <2>1. ASSUME NEW q \in Peer, NEW i \in DOMAIN ep'[q].queue
          PROVE  i \in DOMAIN ep[q].queue /\ ep'[q].queue[i] = ep[q].queue[i]
      BY <1>5, <2>1
    <2>2. ASSUME NEW q \in Peer, NEW s \in Sid, Keeps(ep'[q], s)
          PROVE  Keeps(ep[q], s)
      BY <1>5, <2>2 DEF Keeps
    <2>3. \A q \in Peer, s \in Sid : Keeps(ep'[q], s) => Used(s)
      BY <2>2 DEF DInv, Begun
    <2>4. \A q \in Peer : \A i \in DOMAIN ep'[q].queue :
             ~Idle(ep'[q].queue[i]) => Used(ep'[q].queue[i].sid)
      BY <2>1 DEF DInv, Begun
    <2> QED BY <1>3, <2>3, <2>4 DEF Begun, Keeps, Used, Idle
  <1>11. Placed'
    <2>1. ASSUME NEW q \in Peer
          PROVE  ep'[q].queue = ep[q].queue \/ ep'[q].queue = <<>>
      BY <1>5
    <2>2. ASSUME NEW q \in Peer
          PROVE  /\ OneCall(ep'[q].queue)
                 /\ \A i \in DOMAIN ep'[q].queue :
                       /\ i \in DOMAIN ep[q].queue
                       /\ ep'[q].queue[i] = ep[q].queue[i]
      BY <2>1 DEF DInv, Placed, OneCall
    <2> QED BY <1>3, <2>2 DEF DInv, Placed, OneCall, Used
  <1>12. Asked'
    BY <1>5 DEF DInv, Asked
  <1>13. LateAckOnly
    BY <1>5 DEF LateAckOnly, Terminal
  <1>14. Dropped(p)
    BY <1>2, <1>3, <1>4 DEF Dropped
  <1>15. Roles'
    BY <1>5 DEF DInv, Roles
  <1> QED BY <1>6, <1>7, <1>8, <1>9, <1>10, <1>11, <1>12, <1>13, <1>14, <1>15
          DEF DInv, StepOK

LEMMA DispatchDuty ==
    ASSUME IInv, DInv, NEW p \in Peer, Dispatch(p)
    PROVE  DInv' /\ StepOK
  <1> DEFINE e == Rest(p)
             s == Front(p).sid
             N == Onward(e, s)
  <1>1. ep[p].queue # <<>>
    BY DEF Dispatch, MsgState, MsgError, MsgCheckAutoDestroy, MsgCleared, MsgCall,
           MsgAcceptCall, MsgDeclineCall, MsgEndCall, MsgHoldCall, MsgDisconnect,
           MsgIncomingSet, MsgIncomingResponse, Dispatching
  <1>2. /\ Front(p) \in QueueMsg /\ s \in Sid
        /\ Resumes(p, e, s) /\ e \in Endpoint
        /\ Front(p).id # "MSG_STATE" => StateDue(e, s)
        /\ Front(p).id # "MSG_CHECKAUTODESTROY" => CheckDue(e, s)
        /\ Front(p).id = "CALL" => NoCall(e.queue, s)
        /\ MsgRouted(p, Front(p), sent)
        /\ \E i \in DOMAIN ep[p].queue : Front(p) = ep[p].queue[i]
    BY <1>1, RestResumes DEF Resumes, QueueMsg
  <1>3. Touches(p, e, e, s, {}, {})
    BY <1>2, TouchSame
  <1>19. e = Rest(p) /\ s = Front(p).sid
    OBVIOUS
  <1> HIDE DEF e, s
  <1>4. e.state[s] \in Terminal => N = {}
    BY DEF Onward
  <1> HIDE DEF N
  <1>21. /\ \A busy : /\ Turns(p, e, e, s)
                      /\ Turns(p, e, TerminateWithReason(p, e, s), s)
                      /\ Turns(p, e, DeclineCallS(p, e, s, busy), s)
                      /\ Turns(p, e, EndCallS(p, e, s), s)
                      /\ Turns(p, e, HoldCallS(e, s, busy), s)
                      /\ Turns(p, e, OnMsgCheckAutoDestroy(e, s), s)
         /\ Turns(p, e, OnMsgState(e, s), s)
         /\ Turns(p, e, AcceptCallS(p, e, s), s)
    <2>1. e.out = {}
      BY <1>2 DEF Resumes
    <2>2. e.state[s] = "RECEIVEDINITIATE" => p = Responder[s]
      BY <1>2 DEF Resumes, IInv, Good, Decent, Timed
    <2> QED BY <1>2, <2>1, <2>2, EndTurn, AcceptTurn, MsgStateTurn
  <1>20. ASSUME NEW f, ~Idle(Front(p)), Touches(p, e, f, s, {}, N), Turns(p, e, f, s),
                Front(p).id = "MSG_STATE" => StateDue(f, s),
                Front(p).id = "MSG_CHECKAUTODESTROY" => CheckDue(f, s),
                Become(p, f)
         PROVE  DInv' /\ StepOK
    <2> DEFINE A == {}
    <2>1. /\ A \subseteq {s} /\ (s \in A => Acknowledged(s))
          /\ Touches(p, e, f, s, A, N)
          /\ e.state[s] \in Terminal =>
                 \A new \in N : p = Initiator[s] /\ new = "RECEIVEDINITIATE_ACK"
      BY <1>4, <1>20
    <2> HIDE DEF A
    <2> QED BY <1>1, <1>19, <1>20, <2>1, HandlerDuty
  <1>5. CASE MsgState(p)
    <2>1. Front(p).id = "MSG_STATE" /\ Become(p, OnMsgState(e, s))
      BY <1>5 DEF MsgState, Dispatching, e, s
    <2>2. Touches(p, e, OnMsgState(e, s), s, {}, N) /\ StateDue(OnMsgState(e, s), s)
      BY <1>2, MsgStateTouch DEF N
    <2> QED BY <1>20, <1>21, <2>1, <2>2 DEF Idle
  <1>6. CASE MsgError(p)
    <2>1. Front(p).id = "MSG_ERROR" /\ Become(p, TerminateWithReason(p, e, s))
      BY <1>6 DEF MsgError, Dispatching, e, s
    <2>2. Touches(p, e, TerminateWithReason(p, e, s), s, {}, N)
      BY <1>2, EndTouch
    <2> QED BY <1>20, <1>21, <2>1, <2>2 DEF Idle
  <1>7. CASE MsgCheckAutoDestroy(p)
    <2>1. /\ Front(p).id = "MSG_CHECKAUTODESTROY"
          /\ Become(p, OnMsgCheckAutoDestroy(e, s))
      BY <1>7 DEF MsgCheckAutoDestroy, Dispatching, e, s
    <2>2. /\ Touches(p, e, OnMsgCheckAutoDestroy(e, s), s, {}, N)
          /\ CheckDue(OnMsgCheckAutoDestroy(e, s), s)
      BY <1>2, CheckAutoDestroyTouch, TouchMore
    <2> QED BY <1>20, <1>21, <2>1, <2>2 DEF Idle
  <1>8. ASSUME Front(p).id \in {"CLEARED", "CALL"}, Become(p, e)
        PROVE  DInv' /\ StepOK
    BY <1>2, <1>3, <1>8, <1>21, BecomeDuty
  <1>9. CASE MsgCleared(p)
    BY <1>8, <1>9 DEF MsgCleared, Dispatching, e
  <1>10. CASE MsgCall(p)
    <2>1. PICK found \in BOOLEAN : Become(p, CallS(p, e, s, found))
      BY <1>10 DEF MsgCall, e, s
    <2>2. Front(p).id = "CALL"
      BY <1>10 DEF MsgCall, Dispatching
    <2>3. CASE ~found
      BY <1>8, <2>1, <2>2, <2>3 DEF CallS
    <2>4. CASE found
      <3>1. p = Initiator[s]
        BY <1>2, <2>2 DEF MsgRouted, s
      <3>2. ~Used(s) /\ ep[p].state[s] = "NONE"
        BY <1>2, <2>2 DEF DInv, Placed, Begun, Keeps, s
      <3>3. e.state[s] \notin Terminal
        BY <1>2, <3>2 DEF Resumes, Terminal
      <3>4. /\ Touches(p, e, CallS(p, e, s, TRUE), s, {}, State)
            /\ \E m \in CallS(p, e, s, TRUE).out : m.sid = s
        BY <1>2, <3>1, CallTouch
      <3>5. Become(p, CallS(p, e, s, TRUE))
        BY <2>1, <2>4
      <3>6. StateDue(e, s) /\ CheckDue(e, s) /\ NoCall(e.queue, s)
        BY <1>2, <2>2
      <3> DEFINE f == CallS(p, e, s, TRUE)
                 A == {}
      <3>7. /\ A \subseteq {s} /\ (s \in A => Acknowledged(s))
            /\ Touches(p, e, f, s, A, State)
            /\ \E m \in f.out : m.sid = s
            /\ Become(p, f) /\ Turns(p, e, f, s)
        <4>1. e.out = {} /\ ~Found(e, s)
          BY <1>2, <3>2 DEF Resumes, Found
        <4> QED BY <1>2, <3>1, <3>4, <3>5, <4>1, CallTurn
      <3> HIDE DEF f, A
      <3> QED BY <1>2, <3>1, <3>3, <3>6, <3>7, BecomeDuty
    <2> QED BY <2>3, <2>4
  <1>11. ASSUME NEW f, Front(p).id \in {"ACCEPT", "DECLINE", "BUSY", "END", "HOLD", "UNHOLD"},
                Touches(p, e, f, s, {}, N), Turns(p, e, f, s), Become(p, f)
         PROVE  DInv' /\ StepOK
    BY <1>11, <1>20 DEF Idle
  <1>12. CASE MsgAcceptCall(p)
    BY <1>2, <1>11, <1>12, <1>21, UserHandlersTouch DEF MsgAcceptCall, Dispatching, N, e, s
  <1>13. CASE MsgDeclineCall(p)
    BY <1>2, <1>11, <1>13, <1>21, UserHandlersTouch DEF MsgDeclineCall, Dispatching, N, e, s
  <1>14. CASE MsgEndCall(p)
    BY <1>2, <1>11, <1>14, <1>21, UserHandlersTouch DEF MsgEndCall, Dispatching, N, e, s
  <1>15. CASE MsgHoldCall(p)
    BY <1>2, <1>11, <1>15, <1>21, UserHandlersTouch DEF MsgHoldCall, Dispatching, N, e, s
  <1>16. CASE MsgDisconnect(p)
    BY <1>16, DisconnectDuty DEF MsgDisconnect
  <1>17. CASE MsgIncomingSet(p)
    <2> DEFINE act == Front(p).act
    <2>1. Front(p).id = "set" /\ Become(p, OnIncomingMessage(p, e, s, act))
      BY <1>17 DEF MsgIncomingSet, Dispatching, e, s
    <2>2. act \in Act
      BY <1>2, <2>1 DEF MsgRouted, Kind
    <2>3. Touches(p, e, OnIncomingMessage(p, e, s, act), s, AckBy(act, s), N)
      BY <1>2, <2>2, IncomingMessageTouch DEF N
    <2>4. s \in AckBy(act, s) => Acknowledged(s)
      <3>1. s \in AckBy(act, s) => AcceptOf(s) \in sent
        BY <1>2, <2>1 DEF MsgRouted, AckBy, s
      <3> QED BY <3>1 DEF AcceptOf, SetStanza, Acknowledged, Acknowledges
    <2>5. AckBy(act, s) \subseteq {s}
      BY DEF AckBy
    <2>6. Turns(p, e, OnIncomingMessage(p, e, s, act), s)
      <3>1. e.out = {}
        BY <1>2 DEF Resumes
      <3>2. act = "accept" => AcceptOf(s) \in sent /\ Front(p).sid = s
        BY <1>2, <1>19, <2>1 DEF MsgRouted
      <3>3. act = "accept" => p = Initiator[s]
        <4>1. act = "accept" =>
                 [to |-> p, sid |-> s, kind |-> "set", act |-> "accept"] \in sent
          BY <1>2, <1>19, <2>1 DEF DInv, Carried, Kind
        <4>2. \A m \in sent : StanzaRouted(m)
          BY DEF IInv
        <4> QED BY <4>1, <4>2 DEF StanzaRouted
      <3> QED BY <1>2, <2>2, <3>1, <3>3, IncomingMessageTurn
    <2> HIDE DEF act
    <2> QED BY <1>1, <1>4, <2>1, <2>3, <2>4, <2>5, <2>6, <1>19, HandlerDuty DEF Idle
  <1>18. CASE MsgIncomingResponse(p)
    <2> DEFINE act == Front(p).act
               kind == Front(p).id
               A == AckOf(e, s, kind, act)
               M == N \cup IF A = {} THEN {} ELSE {"RECEIVEDINITIATE_ACK"}
    <2>1. /\ kind \in {"result", "error", "wait"}
          /\ Become(p, OnResponse(p, e, s, kind, act))
      BY <1>18 DEF MsgIncomingResponse, Dispatching, e, s
    <2>2. act \in Act
      BY <1>2, <2>1 DEF MsgRouted, Kind
    <2>3. Touches(p, e, OnResponse(p, e, s, kind, act), s, A, M)
      BY <1>2, <2>2, ResponseTouch DEF N
    <2>4. A # {} => /\ p = Initiator[s] /\ A = {s}
                    /\ kind = "result" /\ act = "initiate"
      BY <1>2 DEF AckOf, Resumes, DInv, Asked
    <2>5. s \in A => Acknowledged(s)
      <3>1. [to |-> p, sid |-> s, kind |-> kind, act |-> act] \in sent
        BY <1>2, <2>1 DEF DInv, Carried, Kind, s
      <3> QED BY <2>4, <3>1 DEF Acknowledged, Acknowledges
    <2>6. A \subseteq {s}
      BY <2>4
    <2>7. ~Idle(Front(p)) /\ Front(p).id \notin {"MSG_STATE", "MSG_CHECKAUTODESTROY"}
      BY <2>1 DEF Idle
    <2>8. e.state[s] \in Terminal =>
              \A new \in M : p = Initiator[s] /\ new = "RECEIVEDINITIATE_ACK"
      BY <1>4, <2>4
    <2>9. Turns(p, e, OnResponse(p, e, s, kind, act), s)
      <3>1. e.out = {}
        BY <1>2 DEF Resumes
      <3> QED BY <1>2, <2>2, <2>4, <3>1, ResponseTurn
    <2> HIDE DEF act, kind, A, M
    <2> QED BY <1>1, <2>9, <2>1, <2>3, <2>5, <2>6, <2>7, <2>8, <1>19, HandlerDuty
  <1> QED BY <1>5, <1>6, <1>7, <1>9, <1>10, <1>12, <1>13, <1>14, <1>15, <1>16, <1>17,
             <1>18 DEF Dispatch

\* A timer of a session, a failed send or a change of its transport.
LEMMA TimerDuty ==
    ASSUME IInv, DInv, NEW p \in Peer, NEW s \in Sid, Keeps(ep[p], s),
           NEW e \in Endpoint,
           e.state = ep[p].state, e.calls = ep[p].calls, e.media = ep[p].media,
           e.out = ep[p].out, e.waiting = ep[p].waiting, e.acked = ep[p].acked,
           e.queue = ep[p].queue,
           NEW f, NEW A, Touches(p, e, f, s, A, Onward(e, s)),
           A \subseteq {s}, s \in A => Acknowledged(s), Turns(p, e, f, s), Become(p, f)
    PROVE  DInv' /\ StepOK
  <1> DEFINE N == Onward(e, s)
  <1>1. Resumes(p, e, s) /\ StateDue(e, s) /\ CheckDue(e, s)
    BY SameResumes
  <1>2. Used(s)
    BY DEF DInv, Begun
  <1>3. e.state[s] \in Terminal => N = {}
    BY DEF Onward
  <1> HIDE DEF N
  <1>4. Touches(p, e, f, s, A, N)
    BY DEF N
  <1> QED BY <1>1, <1>2, <1>3, <1>4, BecomeDuty

LEMMA TimersOf ==
    ASSUME IInv, NEW p \in Peer, NEW T, T \subseteq Timer \X Sid
    PROVE  LET e == [ep[p] EXCEPT !.timers = T]
           IN  /\ e \in Endpoint
               /\ e.state = ep[p].state /\ e.calls = ep[p].calls
               /\ e.media = ep[p].media /\ e.out = ep[p].out
               /\ e.waiting = ep[p].waiting /\ e.acked = ep[p].acked
               /\ e.queue = ep[p].queue
  <1>1. ep[p] \in Endpoint
    BY DEF IInv
  <1> QED BY <1>1 DEF Endpoint

LEMMA TimeoutsDuty ==
    ASSUME IInv, DInv, NEW p \in Peer, NEW s \in Sid, Timeouts(p, s)
    PROVE  DInv' /\ StepOK
  <1>1. /\ ep[p] \in Endpoint /\ ep[p].timers \subseteq Timer \X Sid
        /\ Owned(ep[p]) /\ Timed(p, ep[p]) /\ ep[p].out = {}
    BY EndpointFields DEF IInv, Good, Decent
  <1>2. ASSUME NEW t \in SessionTimer, <<t, s>> \in ep[p].timers, NEW err \in Error,
               Become(p, SetError([ep[p] EXCEPT !.timers = @ \ {<<t, s>>}], s, err))
        PROVE  DInv' /\ StepOK
    <2> DEFINE T == ep[p].timers \ {<<t, s>>}
               e == [ep[p] EXCEPT !.timers = T]
               f == SetError(e, s, err)
               A == {}
    <2>1. Keeps(ep[p], s)
      BY <1>1, <1>2 DEF Owned, Keeps
    <2>2. /\ e \in Endpoint
          /\ e.state = ep[p].state /\ e.calls = ep[p].calls
          /\ e.media = ep[p].media /\ e.out = ep[p].out
          /\ e.waiting = ep[p].waiting /\ e.acked = ep[p].acked
          /\ e.queue = ep[p].queue
      BY <1>1, TimersOf
    <2>3. Become(p, f)
      BY <1>2
    <2> HIDE DEF e
    <2>4. Touches(p, e, f, s, A, Onward(e, s))
      BY <2>2, SetErrorTouch
    <2>6. Turns(p, e, f, s)
      <3>1. f.state = e.state /\ f.out = e.out /\ e.out = {}
        BY <1>1, <2>2 DEF SetError, Post, Endpoint
      <3> QED BY <3>1 DEF Turns, Turn
    <2>5. A \subseteq {s} /\ (s \in A => Acknowledged(s))
      OBVIOUS
    <2> HIDE DEF f, A
    <2> QED BY <2>1, <2>2, <2>3, <2>4, <2>5, <2>6, TimerDuty
  <1>3. CASE SessionTimeout(p, s)
    BY <1>2, <1>3 DEF SessionTimeout, SessionTimer, Error
  <1>4. CASE InitAckTimeout(p, s)
    BY <1>2, <1>4 DEF InitAckTimeout, SessionTimer, Error
  <1>5. CASE NoAnswerTimeout(p, s)
    <2> DEFINE T == ep[p].timers \ {<<"MSG_TERMINATECALL", s>>}
               e == [ep[p] EXCEPT !.timers = T]
               f == CallTerminate(p, e, s)
               A == {}
    <2>1. Keeps(ep[p], s)
      BY <1>1, <1>5 DEF NoAnswerTimeout, Timed, Keeps
    <2>2. /\ e \in Endpoint
          /\ e.state = ep[p].state /\ e.calls = ep[p].calls
          /\ e.media = ep[p].media /\ e.out = ep[p].out
          /\ e.waiting = ep[p].waiting /\ e.acked = ep[p].acked
          /\ e.queue = ep[p].queue
      BY <1>1, TimersOf
    <2>3. Become(p, f)
      BY <1>5 DEF NoAnswerTimeout
    <2> HIDE DEF e
    <2>4. Touches(p, e, f, s, A, Onward(e, s))
      BY <2>2, UserHandlersTouch
    <2>6. Turns(p, e, f, s)
      BY <1>1, <2>2, EndTurn
    <2>5. A \subseteq {s} /\ (s \in A => Acknowledged(s))
      OBVIOUS
    <2> HIDE DEF f, A
    <2> QED BY <2>1, <2>2, <2>3, <2>4, <2>5, <2>6, TimerDuty
  <1>6. ASSUME NEW act \in Act, SendTimeout(p, s, act)
        PROVE  DInv' /\ StepOK
    <2> DEFINE e == ep[p]
               f == OnResponse(p, e, s, "error", act)
               A == {}
    <2>1. Keeps(ep[p], s)
      BY <1>6 DEF SendTimeout, Keeps
    <2>2. Become(p, f)
      BY <1>6 DEF SendTimeout
    <2>3. AckOf(e, s, "error", act) = {}
      BY DEF AckOf
    <2>4. Touches(p, e, f, s, A, Onward(e, s))
      BY <1>1, <2>3, ResponseTouch
    <2>5. A \subseteq {s} /\ (s \in A => Acknowledged(s))
      OBVIOUS
    <2>6. e \in Endpoint /\ e = ep[p]
      BY <1>1
    <2>7. Turns(p, e, f, s)
      BY <1>1, <2>3, ResponseTurn
    <2> HIDE DEF e, f, A
    <2> QED BY <2>1, <2>2, <2>4, <2>5, <2>6, <2>7, TimerDuty
  <1> QED BY <1>3, <1>4, <1>5, <1>6 DEF Timeouts

LEMMA TransportDuty ==
    ASSUME IInv, DInv, NEW p \in Peer, NEW s \in Sid, Transport(p, s)
    PROVE  DInv' /\ StepOK
  <1>1. /\ ep[p] \in Endpoint /\ ep[p].timers \subseteq Timer \X Sid
        /\ ep[p].cands \in [Sid -> {"none", "unsent", "sent"}]
        /\ ep[p].media \subseteq ep[p].calls /\ ep[p].out = {}
    BY EndpointFields DEF IInv, Good, Decent, Owned
  <1>2. Keeps(ep[p], s)
    BY <1>1 DEF Transport, OnTransportWritable, OnCandidatesReady, Keeps
  <1>3. CASE \E writable \in BOOLEAN : OnTransportWritable(p, s, writable)
    <2> DEFINE e == [ep[p] EXCEPT !.timers = ep[p].timers \ {<<"MSG_TIMEOUT", s>>}]
               g == [ep[p] EXCEPT !.timers = ep[p].timers \cup {<<"MSG_TIMEOUT", s>>}]
    <2>1. Become(p, e) \/ Become(p, g)
      BY <1>3 DEF OnTransportWritable
    <2>2. "MSG_TIMEOUT" \in Timer
      BY DEF Timer, SessionTimer
    <2>3. ASSUME NEW T, T \subseteq Timer \X Sid, Become(p, [ep[p] EXCEPT !.timers = T])
          PROVE  DInv' /\ StepOK
      <3> DEFINE f == [ep[p] EXCEPT !.timers = T]
                 A == {}
      <3>1. /\ f \in Endpoint
            /\ f.state = ep[p].state /\ f.calls = ep[p].calls
            /\ f.media = ep[p].media /\ f.out = ep[p].out
            /\ f.waiting = ep[p].waiting /\ f.acked = ep[p].acked
            /\ f.queue = ep[p].queue
        BY <2>3, TimersOf
      <3>2. Become(p, f)
        BY <2>3
      <3> HIDE DEF f
      <3>3. Touches(p, f, f, s, A, Onward(f, s))
        BY <3>1, TouchSame
      <3>4. A \subseteq {s} /\ (s \in A => Acknowledged(s))
        OBVIOUS
      <3>5. Turns(p, f, f, s)
        BY <1>1, <3>1 DEF Turns, Turn
      <3> HIDE DEF A
      <3> QED BY <1>2, <3>1, <3>2, <3>3, <3>4, <3>5, TimerDuty
    <2>4. /\ ep[p].timers \ {<<"MSG_TIMEOUT", s>>} \subseteq Timer \X Sid
          /\ ep[p].timers \cup {<<"MSG_TIMEOUT", s>>} \subseteq Timer \X Sid
      BY <1>1, <2>2
    <2> QED BY <2>1, <2>3, <2>4
  <1>4. CASE OnCandidatesReady(p, s)
    <2>1. ASSUME NEW c \in {"unsent", "sent"}, NEW e, e = [ep[p] EXCEPT !.cands[s] = c]
          PROVE  /\ e \in Endpoint
                 /\ e.state = ep[p].state /\ e.calls = ep[p].calls
                 /\ e.media = ep[p].media /\ e.out = ep[p].out
                 /\ e.waiting = ep[p].waiting /\ e.acked = ep[p].acked
                 /\ e.queue = ep[p].queue
      BY <1>1, <2>1 DEF Endpoint
    <2>2. CASE p = Initiator[s] /\ s \notin ep[p].acked
      <3> DEFINE e == [ep[p] EXCEPT !.cands[s] = "unsent"]
                 A == {}
      <3>1. Become(p, e)
        BY <1>4, <2>2 DEF OnCandidatesReady
      <3>2. /\ e \in Endpoint
            /\ e.state = ep[p].state /\ e.calls = ep[p].calls
            /\ e.media = ep[p].media /\ e.out = ep[p].out
            /\ e.waiting = ep[p].waiting /\ e.acked = ep[p].acked
            /\ e.queue = ep[p].queue
        BY <2>1
      <3> HIDE DEF e
      <3>3. Touches(p, e, e, s, A, Onward(e, s))
        BY <3>2, TouchSame
      <3>4. A \subseteq {s} /\ (s \in A => Acknowledged(s))
        OBVIOUS
      <3>5. Turns(p, e, e, s)
        BY <1>1, <3>2 DEF Turns, Turn
      <3> HIDE DEF A
      <3> QED BY <1>2, <3>1, <3>2, <3>3, <3>4, <3>5, TimerDuty
    <2>3. CASE ~(p = Initiator[s] /\ s \notin ep[p].acked)
      <3> DEFINE e == [ep[p] EXCEPT !.cands[s] = "sent"]
                 f == Put(p, e, s, "set", "info")
                 A == IF p = Initiator[s] THEN {s} ELSE {}
      <3>1. Become(p, f)
        BY <1>4, <2>3 DEF OnCandidatesReady
      <3>2. /\ e \in Endpoint
            /\ e.state = ep[p].state /\ e.calls = ep[p].calls
            /\ e.media = ep[p].media /\ e.out = ep[p].out
            /\ e.waiting = ep[p].waiting /\ e.acked = ep[p].acked
            /\ e.queue = ep[p].queue
        BY <2>1
      <3> HIDE DEF e
      <3>3. Touches(p, e, f, s, A, Onward(e, s))
        BY <3>2, PutTouch DEF Kind, Act
      <3>4. A \subseteq {s} /\ (s \in A => Acknowledged(s))
        BY <2>3 DEF DInv, Acks
      <3>5. Turns(p, e, f, s)
        <4>1. AcceptOf(s) \notin e.out /\ "set" \in Kind /\ "info" \in Act
          BY <1>1, <3>2 DEF Kind, Act
        <4>2. f.state = e.state /\ AcceptOf(s) \notin f.out
          BY <3>2, <4>1, PutEffect
        <4> QED BY <4>2 DEF Turns, Turn
      <3> HIDE DEF A, f
      <3> QED BY <1>2, <3>1, <3>2, <3>3, <3>4, <3>5, TimerDuty
    <2> QED BY <2>2, <2>3
  <1> QED BY <1>3, <1>4 DEF Transport

\* A message from outside comes into the queue.
LEMMA AppendDuty ==
    ASSUME IInv, DInv, NEW p \in Peer, NEW m \in QueueMsg,
           m.id \in Kind =>
               [to |-> p, sid |-> m.sid, kind |-> m.id, act |-> m.act] \in sent,
           Idle(m) \/ Used(m.sid),
           m.id = "CALL" => ~Used(m.sid) /\ m.act = "-" /\ NoCall(ep[p].queue, m.sid),
           ep' = [ep EXCEPT ![p].queue = Append(@, m)], sent' = sent
    PROVE  DInv' /\ StepOK
  <1>1. ep[p] \in Endpoint /\ ep[p].queue \in Seq(QueueMsg)
    BY EndpointFields DEF IInv
  <1>2. /\ \A q \in Peer \ {p} : ep'[q] = ep[q]
        /\ ep'[p] = [ep[p] EXCEPT !.queue = Append(ep[p].queue, m)]
    BY DEF IInv
  <1>3. ASSUME NEW q \in Peer
        PROVE  /\ ep'[q].state = ep[q].state /\ ep'[q].calls = ep[q].calls
               /\ ep'[q].media = ep[q].media /\ ep'[q].waiting = ep[q].waiting
               /\ ep'[q].acked = ep[q].acked
    <2>1. CASE q = p
      BY <1>1, <1>2, <2>1 DEF Endpoint
    <2> QED BY <1>2, <2>1
  <1>4. /\ ep'[p].queue = Append(ep[p].queue, m)
        /\ DOMAIN ep[p].queue \subseteq DOMAIN ep'[p].queue
        /\ \A i \in DOMAIN ep[p].queue : ep'[p].queue[i] = ep[p].queue[i]
        /\ \A i \in DOMAIN ep'[p].queue :
              \/ i \in DOMAIN ep[p].queue
              \/ i = Len(ep[p].queue) + 1 /\ ep'[p].queue[i] = m
    BY <1>1, <1>2 DEF Endpoint
  <1>5. ASSUME NEW q \in Peer, NEW i \in DOMAIN ep'[q].queue
        PROVE  \/ i \in DOMAIN ep[q].queue /\ ep'[q].queue[i] = ep[q].queue[i]
               \/ q = p /\ ep'[q].queue[i] = m
    <2>1. CASE q = p
      BY <1>4, <1>5, <2>1
    <2> QED BY <1>2, <1>5, <2>1
  <1>6. DoomedIsQueued'
    <2>1. ASSUME NEW q \in Peer, NEW id, NEW s, Pending(ep[q], id, s)
          PROVE  Pending(ep'[q], id, s)
      <3>1. CASE q = p
        BY <1>4, <2>1, <3>1 DEF Pending
      <3> QED BY <1>2, <2>1, <3>1
    <2>2. \A q \in Peer, s \in Sid :
             /\ ep'[q].state[s] \in Terminal => Pending(ep'[q], "MSG_STATE", s)
             /\ s \in ep'[q].calls \ ep'[q].media =>
                    Pending(ep'[q], "MSG_CHECKAUTODESTROY", s)
      BY <1>3, <2>1 DEF DInv, DoomedIsQueued
    <2> QED BY <2>2 DEF DoomedIsQueued, Pending
  <1>7. CandidatesFollowInitiate'
    BY DEF DInv, CandidatesFollowInitiate
  <1>8. Acks'
    BY <1>3, RouteAssumption DEF DInv, Acks, Acknowledged
  <1>9. Carried'
    <2>1. ASSUME NEW q \in Peer, NEW i \in DOMAIN ep'[q].queue, ep'[q].queue[i].id \in Kind
          PROVE  [to |-> q, sid |-> ep'[q].queue[i].sid, kind |-> ep'[q].queue[i].id,
                  act |-> ep'[q].queue[i].act] \in sent
      <3>1. CASE i \in DOMAIN ep[q].queue /\ ep'[q].queue[i] = ep[q].queue[i]
        BY <2>1, <3>1 DEF DInv, Carried
      <3> QED BY <1>5, <2>1, <3>1
    <2> QED BY <2>1 DEF Carried
  <1>10. Begun'
    <2>1. \A q \in Peer, s \in Sid : Keeps(ep'[q], s) => Used(s)
      BY <1>3 DEF DInv, Begun, Keeps
    <2>2. \A q \in Peer : \A i \in DOMAIN ep'[q].queue :
             ~Idle(ep'[q].queue[i]) => Used(ep'[q].queue[i].sid)
      BY <1>5 DEF DInv, Begun
    <2> QED BY <2>1, <2>2 DEF Begun, Keeps, Used, Idle
  <1>11. Placed'
    <2>1. OneCall(ep'[p].queue)
      <3>1. \A i, j \in DOMAIN ep[p].queue :
               /\ ep[p].queue[i].id = "CALL" /\ ep[p].queue[j].id = "CALL"
               /\ ep[p].queue[i].sid = ep[p].queue[j].sid
               => i = j
        BY DEF DInv, Placed, OneCall
      <3>2. m.id = "CALL" => \A i \in DOMAIN ep[p].queue :
                                ep[p].queue[i].id = "CALL" => ep[p].queue[i].sid # m.sid
        BY DEF NoCall
      <3> QED BY <1>4, <3>1, <3>2 DEF OneCall
    <2>2. \A q \in Peer : OneCall(ep'[q].queue)
      BY <1>2, <2>1 DEF DInv, Placed
    <2>3. \A q \in Peer : \A i \in DOMAIN ep'[q].queue :
             ep'[q].queue[i].id = "CALL" => /\ ep'[q].queue[i].act = "-"
                                            /\ ~Used(ep'[q].queue[i].sid)
      BY <1>5 DEF DInv, Placed
    <2> QED BY <2>2, <2>3 DEF Placed, OneCall, Used
  <1>12. Asked'
    BY <1>3 DEF DInv, Asked
  <1>13. LateAckOnly
    BY <1>3 DEF LateAckOnly
  <1>14. Turned(p, m.sid) /\ m.sid \in Sid
    BY <1>3 DEF Turned, Turn, QueueMsg
  <1>15. Roles'
    BY <1>3 DEF DInv, Roles
  <1> QED BY <1>6, <1>7, <1>8, <1>9, <1>10, <1>11, <1>12, <1>13, <1>14, <1>15
          DEF DInv, StepOK

LEMMA UserCommandDuty ==
    ASSUME IInv, DInv, NEW p \in Peer, NEW s \in Sid, NEW c \in Command,
           UserCommand(p, c, s)
    PROVE  DInv' /\ StepOK
  <1> DEFINE m == Posted(c, s)
  <1>1. m \in QueueMsg /\ m.id = c /\ m.sid = s /\ m.act = "-"
    BY PostedType DEF Posted
  <1>2. ep[p] \in Endpoint /\ ep[p].out = {} /\ ep[p].queue \in Seq(QueueMsg)
    BY EndpointFields DEF IInv
  <1>3. /\ ep' = [ep EXCEPT ![p].queue = Append(@, m)]
        /\ sent' = sent
    <2>1. Become(p, [ep[p] EXCEPT !.queue = Append(@, m)])
      BY DEF UserCommand, Post, m
    <2>2. [[ep[p] EXCEPT !.queue = Append(@, m)] EXCEPT !.out = {}]
             = [ep[p] EXCEPT !.queue = Append(@, m)]
      BY <1>2 DEF Endpoint
    <2>3. [ep[p] EXCEPT !.queue = Append(@, m)].out = {}
      BY <1>2 DEF Endpoint
    <2> QED BY <2>1, <2>2, <2>3 DEF Become
  <1>4. c \notin Kind
    BY DEF Command, Kind
  <1>5. Idle(m) \/ Used(m.sid)
    <2>1. c \in {"CALL", "DISCONNECT"} \/ Keeps(ep[p], s)
      BY DEF UserCommand, Command, Keeps
    <2> QED BY <1>1, <2>1 DEF Idle, DInv, Begun
  <1>6. c = "CALL" => ~Used(s) /\ NoCall(ep[p].queue, s)
    <2>1. ASSUME c = "CALL", NEW i \in DOMAIN ep[p].queue, ep[p].queue[i].id = "CALL",
                 ep[p].queue[i].sid = s
          PROVE  FALSE
      <3>1. ep[p].queue[i] \in QueueMsg
        BY <1>2
      <3>2. ep[p].queue[i].act = "-"
        BY <2>1 DEF DInv, Placed
      <3>3. ep[p].queue[i] = Posted("CALL", s)
        BY <2>1, <3>1, <3>2 DEF QueueMsg, Posted
      <3> QED BY <2>1, <3>3 DEF UserCommand
    <2>2. c = "CALL" => ~Used(s)
      BY DEF UserCommand, Used
    <2> QED BY <2>1, <2>2 DEF NoCall
  <1> HIDE DEF m
  <1> QED BY <1>1, <1>3, <1>4, <1>5, <1>6, AppendDuty

LEMMA ServerDuty ==
    ASSUME IInv, DInv, NEW m \in sent, Server(m)
    PROVE  DInv' /\ StepOK
  <1>1. m \in Stanza /\ net \subseteq sent
    BY DEF IInv
  <1>2. CASE Arrive(m)
    <2> DEFINE n == [id |-> m.kind, sid |-> m.sid, act |-> m.act]
               p == m.to
    <2>1. p \in Peer /\ n \in QueueMsg /\ n.id = m.kind /\ n.sid = m.sid /\ n.act = m.act
      BY <1>1 DEF Stanza, QueueMsg
    <2>2. ep' = [ep EXCEPT ![p].queue = Append(@, n)] /\ sent' = sent
      BY <1>2 DEF Arrive
    <2>3. [to |-> p, sid |-> n.sid, kind |-> n.id, act |-> n.act] \in sent
      BY <1>1 DEF Stanza
    <2>4. Used(n.sid)
      BY DEF Used
    <2>5. n.id # "CALL"
      BY <1>1 DEF Stanza, Kind
    <2> HIDE DEF n, p
    <2> QED BY <2>1, <2>2, <2>3, <2>4, <2>5, AppendDuty
  <1>3. ASSUME ep' = ep, sent \subseteq sent',
               \A r \in sent' \ sent : /\ r.kind # "set"
                                       /\ \E k \in sent : k.sid = r.sid
        PROVE  DInv' /\ StepOK
    <2>1. \A s : (Used(s) => Used(s)') /\ (Used(s)' => Used(s))
      BY <1>3 DEF Used
    <2>2. \A s : Acknowledged(s) => Acknowledged(s)'
      BY <1>3 DEF Acknowledged, Acknowledges
    <2>3. DoomedIsQueued'
      BY <1>3 DEF DInv, DoomedIsQueued, Pending
    <2>4. CandidatesFollowInitiate'
      <3>1. ASSUME NEW s \in Sid, SetStanza(Responder[s], s, "info") \in sent'
            PROVE  Acknowledged(s)'
        <4>1. SetStanza(Responder[s], s, "info") \in sent
          BY <1>3, <3>1 DEF SetStanza
        <4>2. Acknowledged(s)
          BY <4>1 DEF DInv, CandidatesFollowInitiate, Acknowledged, Acknowledges
        <4> QED BY <2>2, <4>2
      <3> QED BY <3>1 DEF CandidatesFollowInitiate, Acknowledged, Acknowledges
    <2>5. Acks'
      BY <1>3, <2>2 DEF DInv, Acks
    <2>6. Carried'
      BY <1>3 DEF DInv, Carried
    <2>7. Begun'
      BY <1>3, <2>1 DEF DInv, Begun, Keeps, Idle
    <2>8. Placed'
      BY <1>3, <2>1 DEF DInv, Placed, OneCall
    <2>9. Asked'
      BY <1>3 DEF DInv, Asked
    <2>10. LateAckOnly
      BY <1>3 DEF LateAckOnly
    <2>11. Turned(m.to, m.sid) /\ m.to \in Peer /\ m.sid \in Sid
      <3>1. \A r : AcceptOf(r) \in sent' <=> AcceptOf(r) \in sent
        BY <1>3 DEF AcceptOf, SetStanza
      <3> QED BY <1>1, <1>3, <3>1 DEF Turned, Turn, Stanza
    <2>12. Roles'
      BY <1>3 DEF DInv, Roles
    <2> QED BY <2>3, <2>4, <2>5, <2>6, <2>7, <2>8, <2>9, <2>10, <2>11, <2>12
            DEF DInv, StepOK
  <1>4. CASE \E kind \in {"error", "wait"} : Bounce(m, kind)
    <2>1. PICK kind \in {"error", "wait"} : Bounce(m, kind)
      BY <1>4
    <2> DEFINE r == [m EXCEPT !.to = Remote(m.to, m.sid), !.kind = kind]
    <2>2. r.kind = kind /\ r.sid = m.sid
      BY <1>1 DEF Stanza
    <2>3. ep' = ep /\ sent \subseteq sent' /\ sent' \subseteq sent \cup {r}
      BY <2>1 DEF Bounce
    <2> HIDE DEF r
    <2> QED BY <1>3, <2>2, <2>3
  <1>5. CASE Lose(m)
    BY <1>3, <1>5 DEF Lose
  <1> QED BY <1>2, <1>4, <1>5 DEF Server

-----------------------------------------------------------------------------
(* The theorems *)

LEMMA InitDuty ==
    Init => DInv
  <1> SUFFICES ASSUME Init
               PROVE  DInv
    OBVIOUS
  <1>1. \A p \in Peer : /\ ep[p].queue = <<>> /\ ep[p].calls = {} /\ ep[p].acked = {}
                        /\ ep[p].waiting = {} /\ \A s \in Sid : ep[p].state[s] = "NONE"
    BY DEF Init, IdleEndpoint
  <1>2. sent = {}
    BY DEF Init
  <1>3. DoomedIsQueued
    BY <1>1 DEF DoomedIsQueued, Terminal
  <1>4. CandidatesFollowInitiate /\ Acks
    BY <1>1, <1>2, RouteAssumption DEF CandidatesFollowInitiate, Acks
  <1>5. Carried /\ Asked
    BY <1>1 DEF Carried, Asked
  <1>6. Begun /\ Placed
    <2>1. \A p \in Peer : DOMAIN ep[p].queue = {}
      <3>1. DOMAIN <<>> = {}
        OBVIOUS
      <3> QED BY <1>1, <3>1
    <2>2. \A p \in Peer, s \in Sid : ~Keeps(ep[p], s)
      BY <1>1 DEF Keeps
    <2>3. \A p \in Peer : OneCall(ep[p].queue)
      BY <2>1 DEF OneCall
    <2> QED BY <2>1, <2>2, <2>3 DEF Begun, Placed
  <1>7. Roles
    BY <1>1 DEF Roles
  <1> QED BY <1>3, <1>4, <1>5, <1>6, <1>7 DEF DInv

LEMMA NextDuty ==
    ASSUME IInv, DInv, [Next]_vars
    PROVE  DInv' /\ (StepOK \/ UNCHANGED vars)
  <1>1. CASE UNCHANGED vars
    <2>1. ep' = ep /\ sent' = sent
      BY <1>1 DEF vars
    <2>2. DoomedIsQueued' /\ CandidatesFollowInitiate'
      BY <2>1 DEF DInv, DoomedIsQueued, CandidatesFollowInitiate, Pending
    <2>3. Acks' /\ Carried' /\ Asked' /\ Roles'
      BY <2>1 DEF DInv, Acks, Carried, Asked, Roles, Acknowledged, Acknowledges
    <2>4. Begun' /\ Placed'
      BY <2>1 DEF DInv, Begun, Placed, Keeps, Used, Idle, OneCall
    <2> QED BY <1>1, <2>2, <2>3, <2>4 DEF DInv
  <1>2. CASE \E p \in Peer : Dispatch(p)
    BY <1>2, DispatchDuty
  <1>3. CASE \E p \in Peer, s \in Sid :
                \/ Timeouts(p, s)
                \/ Transport(p, s)
                \/ \E c \in Command : UserCommand(p, c, s)
    BY <1>3, TimeoutsDuty, TransportDuty, UserCommandDuty
  <1>4. CASE \E m \in sent : Server(m)
    BY <1>4, ServerDuty
  <1> QED BY <1>1, <1>2, <1>3, <1>4 DEF Next

LEMMA DutyInvariance == Spec => []DInv
  <1>1. IInv /\ DInv /\ [Next]_vars => DInv'
    BY NextDuty
  <1> QED BY <1>1, InitDuty, Invariance, PTL DEF Spec

\* Whatever is over is destroyed by a message that is already in the queue:
\* MSG_STATE destroys a session in a terminal state (Session::OnMessage), and
\* MSG_CHECKAUTODESTROY a call without sessions (Call::OnMessage), however the
\* handlers clear and append in between.
THEOREM DoomedIsDestroyed == Spec => []DoomedIsQueued
  <1>1. DInv => DoomedIsQueued
    BY DEF DInv
  <1> QED BY <1>1, DutyInvariance, PTL

\* The caller's candidates (Session::AddUnsentCandidates) never leave before the
\* callee has acknowledged the initiate or accepted it.
THEOREM CandidatesWait == Spec => []CandidatesFollowInitiate
  <1>1. DInv => CandidatesFollowInitiate
    BY DEF DInv
  <1> QED BY <1>1, DutyInvariance, PTL

\* Only OnInitiateAcked, at the caller, ever takes a session out of a terminal
\* state.
THEOREM RevivedByAckOnly == Spec => OnlyLateAckRevives
  <1>1. IInv /\ DInv /\ [Next]_vars =>
           [\A p \in Peer, s \in Sid :
              ep[p].state[s] \in Terminal =>
                  \/ ep'[p].state[s] \in Terminal \cup {"NONE"}
                  \/ /\ p = Initiator[s]
                     /\ ep'[p].state[s] = "RECEIVEDINITIATE_ACK"]_vars
    BY NextDuty DEF StepOK, LateAckOnly
  <1> QED BY <1>1, DutyInvariance, Invariance, PTL DEF Spec, OnlyLateAckRevives

-----------------------------------------------------------------------------
(* The sessions implement CallPromise *)

\* The variables of CallPromise.
Phase(st) ==
    CASE st \in Terminal -> "over"
      [] st = "RECEIVEDINITIATE" -> "ringing"
      [] st \in {"SENTACCEPT", "INPROGRESS"} -> "talking"
      [] OTHER -> "idle"

Callee == [s \in Sid |-> Phase(ep[Responder[s]].state[s])]
Answered == {s \in Sid : AcceptOf(s) \in sent}
Talking == {s \in Sid : ep[Initiator[s]].state[s] \in {"RECEIVEDACCEPT", "INPROGRESS"}}

LEMMA PhaseOf ==
    ASSUME NEW st
    PROVE  /\ st \in Terminal => Phase(st) = "over"
           /\ st = "RECEIVEDINITIATE" => Phase(st) = "ringing"
           /\ st \in {"SENTACCEPT", "INPROGRESS"} => Phase(st) = "talking"
           /\ st \notin Terminal \cup {"RECEIVEDINITIATE", "SENTACCEPT", "INPROGRESS"}
                  => Phase(st) = "idle"
  BY DEF Phase, Terminal

\* A step that changes nothing the users see.
LEMMA SamePromise ==
    ASSUME Callee' = Callee, Answered' = Answered, Talking' = Talking
    PROVE  UNCHANGED Promise!vars
  BY DEF Promise!vars, Callee, Answered, Talking, Phase, AcceptOf

\* A step that changes the phase of one call of a callee.
LEMMA CalleePromise ==
    ASSUME NEW s \in Sid, NEW new, Talking' = Talking,
           Callee' = [Callee EXCEPT ![s] = new],
           \/ Answered' = Answered /\ <<Callee[s], new>> \in
                  {<<"idle", "ringing">>, <<"idle", "over">>, <<"ringing", "over">>,
                   <<"talking", "over">>, <<"over", "idle">>}
           \/ /\ Answered' = Answered \cup {s}
              /\ Callee[s] = "ringing" /\ new = "talking"
    PROVE  Promise!Next
  <1>1. CASE Answered' = Answered /\ Callee[s] = "idle" /\ new = "ringing"
    BY <1>1 DEF Promise!Next, Promise!Ring, Callee, Answered, Talking, Phase, AcceptOf
  <1>2. CASE Answered' = Answered /\ Callee[s] = "idle" /\ new = "over"
    BY <1>2 DEF Promise!Next, Promise!Refuse, Callee, Answered, Talking, Phase, AcceptOf
  <1>3. CASE Answered' = Answered /\ Callee[s] \in {"ringing", "talking"} /\ new = "over"
    BY <1>3 DEF Promise!Next, Promise!HangUp, Callee, Answered, Talking, Phase, AcceptOf
  <1>4. CASE Answered' = Answered /\ Callee[s] = "over" /\ new = "idle"
    BY <1>4 DEF Promise!Next, Promise!Forget, Callee, Answered, Talking, Phase, AcceptOf
  <1>5. CASE Answered' = Answered \cup {s} /\ Callee[s] = "ringing" /\ new = "talking"
    BY <1>5 DEF Promise!Next, Promise!Answer, Callee, Answered, Talking, Phase, AcceptOf
  <1> QED BY <1>1, <1>2, <1>3, <1>4, <1>5

\* The caller of one call starts or stops talking.
LEMMA CallerPromise ==
    ASSUME NEW s \in Sid, Callee' = Callee, Answered' = Answered,
           \/ Talking' = Talking \cup {s} /\ s \in Answered
           \/ Talking' = Talking \ {s} /\ s \in Talking
    PROVE  Promise!Next
  BY DEF Promise!Next, Promise!CallerTalks, Promise!CallerStops, Callee, Answered, Talking,
         Phase, AcceptOf

\* A client disconnects.
LEMMA DropPromise ==
    ASSUME NEW p \in Peer, Dropped(p)
    PROVE  Promise!Next
  <1> DEFINE S == {s \in Sid : Responder[s] = p}
             T == {s \in Sid : Initiator[s] = p}
  <1>1. \A s \in Sid : Initiator[s] \in Peer /\ Responder[s] \in Peer
    BY RouteAssumption
  <1>2. Callee' = [s \in Sid |-> IF s \in S THEN "idle" ELSE Callee[s]]
    <2>1. ASSUME NEW s \in Sid
          PROVE  Phase(ep'[Responder[s]].state[s]) =
                     IF s \in S THEN "idle" ELSE Phase(ep[Responder[s]].state[s])
      <3>1. CASE s \in S
        BY <3>1, PhaseOf DEF Dropped, Terminal
      <3>2. CASE s \notin S
        BY <1>1, <3>2 DEF Dropped
      <3> QED BY <3>1, <3>2
    <2> QED BY <2>1 DEF Callee
  <1>3. Answered' = Answered
    BY DEF Dropped, Answered, AcceptOf
  <1>4. Talking' = Talking \ T
    BY <1>1 DEF Dropped, Talking
  <1>5. S \in SUBSET Sid /\ T \in SUBSET Sid
    OBVIOUS
  <1> HIDE DEF S, T
  <1> QED BY <1>2, <1>3, <1>4, <1>5 DEF Promise!Next, Promise!Drop, Callee, Answered, Talking,
             Phase, AcceptOf

LEMMA TurnPromise ==
    ASSUME IInv, IInv', DInv, NEW p \in Peer, NEW s \in Sid, Turned(p, s)
    PROVE  [Promise!Next]_(Promise!vars)
  <1>1. \A r \in Sid : /\ Initiator[r] \in Peer /\ Responder[r] \in Peer
                       /\ Initiator[r] # Responder[r]
    BY RouteAssumption
  <1>2. \A r \in Sid \ {s} : /\ Phase(ep'[Responder[r]].state[r]) =
                                   Phase(ep[Responder[r]].state[r])
                             /\ ep'[Initiator[r]].state[r] = ep[Initiator[r]].state[r]
                             /\ AcceptOf(r) \in sent' <=> AcceptOf(r) \in sent
    BY <1>1 DEF Turned
  <1>3. CASE p = Responder[s]
    <2> DEFINE old == ep[p].state[s]
               new == ep'[p].state[s]
    <2>1. ep'[Initiator[s]].state[s] = ep[Initiator[s]].state[s]
      BY <1>1, <1>3 DEF Turned
    <2>2. Talking' = Talking
      BY <1>2, <2>1 DEF Talking
    <2>3. Callee[s] = Phase(old)
      BY <1>3 DEF Callee
    <2>4. Callee' = [Callee EXCEPT ![s] = Phase(new)]
      <3>1. \A r \in Sid : Phase(ep'[Responder[r]].state[r]) =
                              IF r = s THEN Phase(new) ELSE Phase(ep[Responder[r]].state[r])
        BY <1>2, <1>3
      <3> HIDE DEF new
      <3> QED BY <3>1 DEF Callee
    <2>5. Phase(new) = Phase(old) => Callee' = Callee
      BY <2>3, <2>4 DEF Callee
    <2>6. CASE AcceptOf(s) \in sent' <=> AcceptOf(s) \in sent
      <3>1. Answered' = Answered
        BY <1>2, <2>6 DEF Answered
      <3>2. ASSUME <<Phase(old), Phase(new)>> \in
                     {<<"idle", "ringing">>, <<"idle", "over">>, <<"ringing", "over">>,
                      <<"talking", "over">>, <<"over", "idle">>}
            PROVE  Promise!Next
        BY <2>2, <2>3, <2>4, <3>1, <3>2, CalleePromise
      <3>3. Phase(new) = Phase(old) => UNCHANGED Promise!vars
        BY <2>2, <2>5, <3>1, SamePromise
      <3>4. CASE Turn(p, s, old, new)
        <4>1. p # Initiator[s] /\ old # "RECEIVEDACCEPT"
          BY <1>1, <1>3 DEF DInv, Roles
        <4>2. CASE new \in Terminal
          <5>1. Phase(old) \in {"idle", "ringing", "talking", "over"} /\ Phase(new) = "over"
            BY <4>2, PhaseOf
          <5> QED BY <3>2, <3>3, <5>1
        <4>3. CASE old \in Terminal /\ new = "NONE"
          <5>1. Phase(old) = "over" /\ Phase(new) = "idle"
            BY <4>3, PhaseOf DEF Terminal
          <5> QED BY <3>2, <5>1
        <4>4. CASE old \in {"NONE", "INIT"} /\
                   new \in {"INIT", "RECEIVEDINITIATE", "SENTINITIATE"}
          <5>1. Phase(old) = "idle" /\ Phase(new) \in {"idle", "ringing"}
            BY <4>4, PhaseOf DEF Terminal
          <5> QED BY <3>2, <3>3, <5>1
        <4>5. CASE old = "SENTACCEPT" /\ new = "INPROGRESS"
          BY <3>3, <4>5, PhaseOf
        <4> QED BY <3>3, <3>4, <4>1, <4>2, <4>3, <4>4, <4>5 DEF Turn
      <3>5. CASE /\ AcceptOf(s) \in sent'
                 /\ old = "RECEIVEDINITIATE" /\ new = "SENTACCEPT"
        <4>1. Answered' = Answered \cup {s}
          BY <3>1, <3>5 DEF Answered
        <4>2. Phase(old) = "ringing" /\ Phase(new) = "talking"
          BY <3>5, PhaseOf
        <4> QED BY <2>2, <2>3, <2>4, <4>1, <4>2, CalleePromise
      <3> QED BY <3>4, <3>5 DEF Turned
    <2>7. CASE ~(AcceptOf(s) \in sent' <=> AcceptOf(s) \in sent)
      <3>1. AcceptOf(s) \in sent' /\ old = "RECEIVEDINITIATE" /\ new = "SENTACCEPT"
        BY <2>7 DEF Turned
      <3>2. Answered' = Answered \cup {s}
        BY <1>2, <3>1 DEF Answered
      <3>3. Phase(old) = "ringing" /\ Phase(new) = "talking"
        BY <3>1, PhaseOf
      <3> QED BY <2>2, <2>3, <2>4, <3>2, <3>3, CalleePromise
    <2> QED BY <2>6, <2>7
  <1>4. CASE p # Responder[s]
    <2>1. Phase(ep'[Responder[s]].state[s]) = Phase(ep[Responder[s]].state[s])
      BY <1>1, <1>4 DEF Turned
    <2>2. Callee' = Callee
      BY <1>2, <2>1 DEF Callee
    <2>3. Answered' = Answered
      BY <1>2, <1>4 DEF Turned, Answered
    <2>4. s \in Talking' => s \in Answered'
      <3>1. Good(Initiator[s], ep[Initiator[s]], sent)'  /\ (ep[Initiator[s]].out = {})'
        BY <1>1 DEF IInv
      <3> QED BY <3>1 DEF Good, Decent, Backed, Talking, Answered
    <2>5. Talking' \in {Talking, Talking \cup {s}, Talking \ {s}}
      BY <1>2 DEF Talking
    <2>6. CASE s \in Talking /\ s \notin Talking'
      <3>1. Talking' = Talking \ {s}
        BY <2>5, <2>6
      <3> QED BY <2>2, <2>3, <2>6, <3>1, CallerPromise
    <2>7. CASE s \notin Talking /\ s \in Talking'
      <3>1. Talking' = Talking \cup {s}
        BY <2>5, <2>7
      <3> QED BY <2>2, <2>3, <2>4, <2>7, <3>1, CallerPromise
    <2>8. CASE s \in Talking <=> s \in Talking'
      <3>1. Talking' = Talking
        BY <2>5, <2>8
      <3> QED BY <2>2, <2>3, <3>1, SamePromise
    <2> QED BY <2>6, <2>7, <2>8
  <1> QED BY <1>3, <1>4

\* The sessions of the two clients implement CallPromise: the callee's phone
\* rings before it talks (Session::Accept only from STATE_RECEIVEDINITIATE), and
\* the caller talks only to somebody who answered (OnAcceptMessage), whatever
\* is lost, repeated or overtaken.
THEOREM ImplementsPromise == Spec => KeepsPromise
  <1>1. Init => Promise!Init
    <2> SUFFICES ASSUME Init
                 PROVE  Promise!Init
      OBVIOUS
    <2>1. \A s \in Sid : /\ Phase(ep[Responder[s]].state[s]) = "idle"
                         /\ ep[Initiator[s]].state[s] = "NONE"
                         /\ AcceptOf(s) \notin sent
      BY RouteAssumption DEF Init, IdleEndpoint, Phase, Terminal
    <2>2. Callee = [s \in Sid |-> "idle"] /\ Answered = {} /\ Talking = {}
      BY <2>1 DEF Callee, Answered, Talking
    <2> QED BY <2>2 DEF Promise!Init, Callee, Answered, Talking, Phase, AcceptOf
  <1>2. IInv /\ IInv' /\ DInv /\ [Next]_vars => [Promise!Next]_(Promise!vars)
    <2> SUFFICES ASSUME IInv, IInv', DInv, [Next]_vars
                 PROVE  [Promise!Next]_(Promise!vars)
      OBVIOUS
    <2>1. CASE UNCHANGED vars
      BY <2>1 DEF vars, Promise!vars
    <2>2. CASE StepOK
      BY <2>2, DropPromise, TurnPromise DEF StepOK
    <2> QED BY <2>1, <2>2, NextDuty
  <1> QED BY <1>1, <1>2, Invariance, DutyInvariance, PTL DEF Spec, KeepsPromise, Promise!Spec

-----------------------------------------------------------------------------
(* RingingWillEnd: what is invariant besides IInv and DInv.                  *)

Invite(s) == SetStanza(Responder[s], s, "initiate")
Hangup(s) == SetStanza(Responder[s], s, "terminate")

Brings(m, s, act) == m.id = "set" /\ m.sid = s /\ m.act = act

\* Of a queue: an initiate is in it, at most one is, and a terminate is behind
\* all of them.
Invited(q, s) == \E i \in DOMAIN q : Brings(q[i], s, "initiate")
Single(q, s) ==
    \A i, j \in DOMAIN q :
        Brings(q[i], s, "initiate") /\ Brings(q[j], s, "initiate") => i = j
Behind(q, s) ==
    \E k \in DOMAIN q :
        /\ Brings(q[k], s, "terminate")
        /\ \A i \in DOMAIN q : Brings(q[i], s, "initiate") => i < k

Coming(s) == Invite(s) \in net \/ Invited(ep[Responder[s]].queue, s)
Ringing(s) == ep[Responder[s]].state[s] = "RECEIVEDINITIATE"
HungUp(s) == \/ Hangup(s) \in net
             \/ Invite(s) \notin net /\ Behind(ep[Responder[s]].queue, s)

\* What a responder sends once it has answered, refused or ended the call.
Answer(m, s) == /\ m.to = Initiator[s] /\ m.sid = s /\ m.kind = "set"
                /\ m.act \notin {"info", "initiate"}

\* Only the two ends of a session have it in a call.
Parties == \A p \in Peer : \A s \in ep[p].media : p \in {Initiator[s], Responder[s]}

\* An initiate comes once, to a responder that has no call for it yet ...
Once ==
    \A s \in Sid :
        /\ Invite(s) \in net => ~Invited(ep[Responder[s]].queue, s)
        /\ Single(ep[Responder[s]].queue, s)
        /\ Coming(s) => s \notin ep[Responder[s]].media

\* ... and never again after the responder's answer.
Settled == \A s \in Sid : \A m \in sent : Answer(m, s) => ~Coming(s) /\ ~Ringing(s)

\* Whoever rings, or will, is going to be hung up.
Guarded ==
    \A s \in Sid :
        /\ ep[Initiator[s]].online
        /\ Ringing(s) \/ (Coming(s) /\ ep[Responder[s]].online)
        => HungUp(s) \/ WillHangUp(ep[Initiator[s]], s)

\* A client that disconnected has nothing left to do.
Offline ==
    \A p \in Peer : ~ep[p].online =>
        ep[p].queue = <<>> /\ ep[p].calls = {} /\ ep[p].waiting = {}

RInv == Parties /\ Once /\ Settled /\ Guarded /\ Offline

-----------------------------------------------------------------------------
(* Queues *)

LEMMA TailOrder ==
    ASSUME NEW q \in Seq(QueueMsg), q # <<>>, NEW s
    PROVE  /\ Invited(Tail(q), s) => Invited(q, s)
           /\ Single(q, s) => Single(Tail(q), s)
           /\ Single(q, s) /\ Brings(Head(q), s, "initiate") => ~Invited(Tail(q), s)
           /\ Behind(q, s) => \/ Behind(Tail(q), s)
                              \/ Brings(Head(q), s, "terminate") /\ ~Invited(Tail(q), s)
  <1>1. Len(q) \in Nat \ {0} /\ DOMAIN q = 1..Len(q)
    OBVIOUS
  <1>2. Head(q) = q[1] /\ 1 \in DOMAIN q
    BY <1>1
  <1>3. DOMAIN Tail(q) = 1..(Len(q) - 1)
    BY <1>1
  <1>4. \A i \in DOMAIN Tail(q) : i \in Nat \ {0} /\ i + 1 \in DOMAIN q /\ Tail(q)[i] = q[i + 1]
    BY <1>1, <1>3
  <1>5. Invited(Tail(q), s) => Invited(q, s)
    BY <1>4 DEF Invited
  <1>6. Single(q, s) => Single(Tail(q), s)
    <2>1. ASSUME Single(q, s), NEW i \in DOMAIN Tail(q), NEW j \in DOMAIN Tail(q),
                 Brings(Tail(q)[i], s, "initiate"), Brings(Tail(q)[j], s, "initiate")
          PROVE  i = j
      <3>1. i + 1 = j + 1
        BY <1>4, <2>1 DEF Single
      <3> QED BY <1>4, <3>1
    <2> QED BY <2>1 DEF Single
  <1>7. Single(q, s) /\ Brings(Head(q), s, "initiate") => ~Invited(Tail(q), s)
    <2>1. ASSUME Single(q, s), Brings(q[1], s, "initiate"), NEW i \in DOMAIN Tail(q),
                 Brings(Tail(q)[i], s, "initiate")
          PROVE  FALSE
      <3>1. i + 1 = 1
        BY <1>2, <1>4, <2>1 DEF Single
      <3> QED BY <1>4, <3>1
    <2> QED BY <1>2, <2>1 DEF Invited
  <1>8. ASSUME Behind(q, s)
        PROVE  \/ Behind(Tail(q), s)
               \/ Brings(Head(q), s, "terminate") /\ ~Invited(Tail(q), s)
    <2>1. PICK k \in DOMAIN q : /\ Brings(q[k], s, "terminate")
                                /\ \A i \in DOMAIN q : Brings(q[i], s, "initiate") => i < k
      BY <1>8 DEF Behind
    <2>2. k \in 1..Len(q)
      BY <1>1
    <2>3. CASE k = 1
      <3>1. ASSUME NEW i \in DOMAIN Tail(q), Brings(Tail(q)[i], s, "initiate")
            PROVE  FALSE
        <4>1. i + 1 < 1
          BY <1>4, <2>1, <2>3, <3>1
        <4> QED BY <1>4, <4>1
      <3> QED BY <1>2, <2>1, <2>3, <3>1 DEF Invited
    <2>4. CASE k # 1
      <3>1. k - 1 \in DOMAIN Tail(q) /\ k - 1 + 1 = k
        BY <1>1, <1>3, <2>2, <2>4
      <3>2. Brings(Tail(q)[k - 1], s, "terminate")
        BY <1>4, <2>1, <3>1
      <3>3. ASSUME NEW i \in DOMAIN Tail(q), Brings(Tail(q)[i], s, "initiate")
            PROVE  i < k - 1
        <4>1. i + 1 < k
          BY <1>4, <2>1, <3>3
        <4> QED BY <1>4, <2>2, <4>1
      <3> QED BY <3>1, <3>2, <3>3 DEF Behind
    <2> QED BY <2>3, <2>4
  <1> QED BY <1>5, <1>6, <1>7, <1>8

LEMMA AppendOrder ==
    ASSUME NEW q \in Seq(QueueMsg), NEW m \in QueueMsg, NEW s
    PROVE  LET r == Append(q, m)
           IN  /\ ~Brings(m, s, "initiate") =>
                      /\ Invited(r, s) => Invited(q, s)
                      /\ Single(q, s) => Single(r, s)
                      /\ Behind(q, s) => Behind(r, s)
               /\ ~Invited(q, s) => Single(r, s)
               /\ Brings(m, s, "terminate") => Behind(r, s)
  <1> DEFINE r == Append(q, m)
             n == Len(q) + 1
  <1>1. Len(q) \in Nat /\ DOMAIN q = 1..Len(q)
    OBVIOUS
  <1>2. /\ DOMAIN r = 1..n /\ r[n] = m
        /\ \A i \in DOMAIN q : i \in DOMAIN r /\ r[i] = q[i] /\ i < n
        /\ \A i \in DOMAIN r : i = n \/ i \in DOMAIN q
        /\ n \in DOMAIN r
    BY <1>1
  <1> HIDE DEF r, n
  <1>3. ~Brings(m, s, "initiate") => (Invited(r, s) => Invited(q, s))
    BY <1>2 DEF Invited
  <1>4. ~Brings(m, s, "initiate") => (Single(q, s) => Single(r, s))
    BY <1>2 DEF Single
  <1>5. ~Brings(m, s, "initiate") => (Behind(q, s) => Behind(r, s))
    <2>1. ASSUME ~Brings(m, s, "initiate"), NEW k \in DOMAIN q,
                 Brings(q[k], s, "terminate"),
                 \A i \in DOMAIN q : Brings(q[i], s, "initiate") => i < k
          PROVE  Behind(r, s)
      <3>1. k \in DOMAIN r /\ Brings(r[k], s, "terminate")
        BY <1>2, <2>1
      <3>2. \A i \in DOMAIN r : Brings(r[i], s, "initiate") => i < k
        BY <1>2, <2>1
      <3> QED BY <3>1, <3>2 DEF Behind
    <2> QED BY <2>1 DEF Behind
  <1>6. ~Invited(q, s) => Single(r, s)
    BY <1>2 DEF Invited, Single
  <1>7. Brings(m, s, "terminate") => Behind(r, s)
    <2>1. ~(Brings(m, s, "terminate") /\ Brings(m, s, "initiate"))
      BY DEF Brings
    <2>2. ASSUME Brings(m, s, "terminate")
          PROVE  \A i \in DOMAIN r : Brings(r[i], s, "initiate") => i < n
      BY <1>2, <2>1, <2>2
    <2> QED BY <1>2, <2>2 DEF Behind
  <1> QED BY <1>3, <1>4, <1>5, <1>6, <1>7 DEF r

\* A handler keeps the stanzas of the queue in their places and adds none.
Orderly(e, f) ==
    \A i \in DOMAIN e.queue :
        e.queue[i].id = "set" => i \in DOMAIN f.queue /\ f.queue[i] = e.queue[i]

LEMMA KeptOrder ==
    ASSUME NEW e, NEW f, NEW s, NEW t, Orderly(e, f), Queues(e, f, t)
    PROVE  /\ Invited(f.queue, s) => Invited(e.queue, s)
           /\ Single(e.queue, s) => Single(f.queue, s)
           /\ Behind(e.queue, s) => Behind(f.queue, s)
  <1>1. \A i \in DOMAIN f.queue : f.queue[i].id = "set" =>
            i \in DOMAIN e.queue /\ f.queue[i] = e.queue[i]
    BY DEF Queues, Kind
  <1>2. /\ Invited(f.queue, s) => Invited(e.queue, s)
        /\ Single(e.queue, s) => Single(f.queue, s)
    BY <1>1 DEF Invited, Single, Brings
  <1>3. ASSUME NEW k \in DOMAIN e.queue, Brings(e.queue[k], s, "terminate"),
               \A i \in DOMAIN e.queue : Brings(e.queue[i], s, "initiate") => i < k
        PROVE  Behind(f.queue, s)
    <2>1. k \in DOMAIN f.queue /\ Brings(f.queue[k], s, "terminate")
      BY <1>3 DEF Orderly, Brings
    <2>2. \A i \in DOMAIN f.queue : Brings(f.queue[i], s, "initiate") => i < k
      BY <1>1, <1>3 DEF Brings
    <2> QED BY <2>1, <2>2 DEF Behind
  <1> QED BY <1>2, <1>3 DEF Behind

-----------------------------------------------------------------------------
(* What a handler of p about the session s may do to the endpoint e.  M are  *)
(* the sessions that may join a call, X those whose hang-up it may drop.     *)

Stays(e, f, M) ==
    /\ f.online = e.online
    /\ f.media \subseteq e.media \cup M
    /\ \A r \in Sid : f.state[r] = "RECEIVEDINITIATE" =>
           e.state[r] = "RECEIVEDINITIATE" \/ r \in M

Cares(p, e, f, X) ==
    /\ e.out \subseteq f.out
    /\ \A r \in Sid : WillHangUp(e, r) =>
           \/ r \in X
           \/ WillHangUp(f, r)
           \/ SetStanza(Remote(p, r), r, "terminate") \in f.out

Speaks(p, e, f, s, M) ==
    \A m \in f.out :
        \/ m \in e.out
        \/ m.kind # "set"
        \/ m.act = "info"
        \/ /\ m.to = Remote(p, s) /\ m.sid = s /\ m.act # "initiate"
           /\ s \in e.media \cup M
           /\ f.state[s] # "RECEIVEDINITIATE"

Minds(p, e, f, s, M, X) ==
    Orderly(e, f) /\ Stays(e, f, M) /\ Cares(p, e, f, X) /\ Speaks(p, e, f, s, M)

LEMMA MindsTrans ==
    ASSUME NEW p, NEW e, NEW f, NEW g, NEW s \in Sid, NEW M, NEW X,
           Minds(p, e, f, s, M, X), Minds(p, f, g, s, {}, X)
    PROVE  Minds(p, e, g, s, M, X)
  <1>1. Orderly(e, g)
    BY DEF Minds, Orderly
  <1>2. Stays(e, g, M)
    BY DEF Minds, Stays
  <1>3. Cares(p, e, g, X)
    BY DEF Minds, Cares
  <1>4. Speaks(p, e, g, s, M)
    <2>1. ASSUME NEW m \in g.out, m \notin e.out, m.kind = "set", m.act # "info"
          PROVE  /\ m.to = Remote(p, s) /\ m.sid = s /\ m.act # "initiate"
                 /\ s \in e.media \cup M
                 /\ g.state[s] # "RECEIVEDINITIATE"
      <3>1. CASE m \in f.out
        BY <2>1, <3>1 DEF Minds, Speaks, Stays
      <3>2. CASE m \notin f.out
        BY <2>1, <3>2 DEF Minds, Speaks, Stays
      <3> QED BY <3>1, <3>2
    <2> QED BY <2>1 DEF Speaks
  <1> QED BY <1>1, <1>2, <1>3, <1>4 DEF Minds

LEMMA MindsMore ==
    ASSUME NEW p, NEW e, NEW f, NEW s, NEW M, NEW X, NEW O, NEW Y,
           Minds(p, e, f, s, M, X), M \subseteq O, X \subseteq Y
    PROVE  Minds(p, e, f, s, O, Y)
  BY DEF Minds, Stays, Cares, Speaks

\* The queue and what is sent stay, and no timer of a call is stopped.
LEMMA MindsSame ==
    ASSUME NEW p, NEW e, NEW f, NEW s, NEW M, NEW X,
           f.state = e.state, f.online = e.online, f.media \subseteq e.media \cup M,
           f.queue = e.queue, f.out = e.out,
           \A r \in Sid : <<"MSG_TERMINATECALL", r>> \in e.timers =>
               <<"MSG_TERMINATECALL", r>> \in f.timers
    PROVE  Minds(p, e, f, s, M, X)
  BY DEF Minds, Orderly, Stays, Cares, Speaks, WillHangUp, Pending

-----------------------------------------------------------------------------
(* The building blocks of the handlers *)

LEMMA SetStateFields ==
    ASSUME NEW e \in Endpoint, NEW s \in Sid, NEW new \in State, e.state[s] # new
    PROVE  LET g == SetState(e, s, new)
           IN  /\ g \in Endpoint
               /\ g.state = [e.state EXCEPT ![s] = new]
               /\ g.calls = e.calls /\ g.media = e.media
               /\ g.out = e.out /\ g.online = e.online
               /\ g.queue = Append(e.queue, Posted("MSG_STATE", s))
               /\ g.timers = e.timers \/
                      /\ new \in {"RECEIVEDACCEPT", "RECEIVEDTERMINATE"}
                      /\ g.timers = e.timers \ {<<"MSG_TERMINATECALL", s>>}
  <1> DEFINE a == [e EXCEPT !.state[s] = new]
             b == CallOnSessionState(a, s, new)
             c == ClientOnSessionState(b, s, new)
             m == Posted("MSG_STATE", s)
             g == SetState(e, s, new)
  <1>1. /\ a \in Endpoint
        /\ a.state = [e.state EXCEPT ![s] = new]
        /\ a.calls = e.calls /\ a.media = e.media /\ a.out = e.out
        /\ a.online = e.online /\ a.queue = e.queue /\ a.timers = e.timers
    BY DEF Endpoint
  <1>2. g = [c EXCEPT !.queue = Append(@, m)]
    BY DEF SetState, Post
  <1> HIDE DEF a
  <1>3. a.timers \ {<<"MSG_TERMINATECALL", s>>} \in SUBSET (Timer \X Sid)
    BY <1>1, EndpointFields
  <1>4. /\ b \in Endpoint
        /\ b.state = a.state
        /\ b.calls = a.calls /\ b.media = a.media /\ b.out = a.out
        /\ b.online = a.online /\ b.queue = a.queue
        /\ b.timers = a.timers \/
               /\ new \in {"RECEIVEDACCEPT", "RECEIVEDTERMINATE"}
               /\ b.timers = a.timers \ {<<"MSG_TERMINATECALL", s>>}
    BY <1>1, <1>3 DEF CallOnSessionState, Endpoint
  <1> HIDE DEF b
  <1>5. /\ c \in Endpoint
        /\ c.state = b.state
        /\ c.calls = b.calls /\ c.media = b.media /\ c.out = b.out
        /\ c.online = b.online /\ c.queue = b.queue /\ c.timers = b.timers
    BY <1>4 DEF ClientOnSessionState, Endpoint
  <1> HIDE DEF c
  <1>6. m \in QueueMsg
    BY PostedType DEF SessionMsg
  <1> HIDE DEF m
  <1>7. Append(c.queue, m) \in Seq(QueueMsg)
    BY <1>5, <1>6, EndpointFields, AppendFacts
  <1> HIDE DEF g
  <1>8. /\ g \in Endpoint
        /\ g.state = c.state
        /\ g.calls = c.calls /\ g.media = c.media /\ g.out = c.out
        /\ g.online = c.online /\ g.queue = Append(c.queue, m) /\ g.timers = c.timers
    BY <1>2, <1>5, <1>7 DEF Endpoint
  <1> QED BY <1>1, <1>4, <1>5, <1>8 DEF g, m

\* One more message in the queue.
LEMMA AppendMinds ==
    ASSUME NEW e \in Endpoint, NEW f, NEW m \in QueueMsg, f.queue = Append(e.queue, m)
    PROVE  Orderly(e, f) /\ \A id, r : Pending(e, id, r) => Pending(f, id, r)
  <1>1. e.queue \in Seq(QueueMsg)
    BY EndpointFields
  <1>2. \A i \in DOMAIN e.queue : i \in DOMAIN f.queue /\ f.queue[i] = e.queue[i]
    BY <1>1
  <1> QED BY <1>2, AppendPending DEF Orderly

LEMMA SetStateMinds ==
    ASSUME NEW p, NEW e \in Endpoint, NEW s \in Sid, NEW new \in State, NEW M, NEW X,
           s \in X \/ new \in Initiating \/ e.state[s] \notin Initiating,
           new = "RECEIVEDINITIATE" => s \in M
    PROVE  Minds(p, e, SetState(e, s, new), s, M, X)
  <1> DEFINE g == SetState(e, s, new)
             m == Posted("MSG_STATE", s)
  <1>1. CASE e.state[s] = new
    <2>1. g = e
      BY <1>1 DEF SetState
    <2> HIDE DEF g
    <2> QED BY <2>1, MindsSame DEF g
  <1>2. CASE e.state[s] # new
    <2>1. /\ g.state = [e.state EXCEPT ![s] = new]
          /\ g.media = e.media /\ g.out = e.out /\ g.online = e.online
          /\ g.queue = Append(e.queue, m)
          /\ g.timers = e.timers \/
                 /\ new \in {"RECEIVEDACCEPT", "RECEIVEDTERMINATE"}
                 /\ g.timers = e.timers \ {<<"MSG_TERMINATECALL", s>>}
      BY <1>2, SetStateFields
    <2>2. m \in QueueMsg
      BY PostedType DEF SessionMsg
    <2> HIDE DEF g, m
    <2>3. e.state \in [Sid -> State]
      BY EndpointFields
    <2>4. Orderly(e, g) /\ \A id, r : Pending(e, id, r) => Pending(g, id, r)
      BY <2>1, <2>2, AppendMinds
    <2>5. Stays(e, g, M)
      BY <2>1, <2>3 DEF Stays
    <2>6. Cares(p, e, g, X)
      <3>1. ASSUME NEW r \in Sid, r \notin X, WillHangUp(e, r)
            PROVE  WillHangUp(g, r)
        <4>1. CASE r = s
          <5>1. new \in Initiating
            BY <3>1, <4>1 DEF WillHangUp
          <5>2. g.timers = e.timers
            BY <2>1, <5>1 DEF Initiating
          <5> QED BY <2>1, <2>3, <2>4, <3>1, <4>1, <5>1, <5>2 DEF WillHangUp
        <4>2. CASE r # s
          <5>1. <<"MSG_TERMINATECALL", r>> \in e.timers => <<"MSG_TERMINATECALL", r>> \in g.timers
            BY <2>1, <4>2
          <5> QED BY <2>1, <2>3, <2>4, <3>1, <4>2, <5>1 DEF WillHangUp
        <4> QED BY <4>1, <4>2
      <3> QED BY <2>1, <3>1 DEF Cares
    <2>7. Speaks(p, e, g, s, M)
      BY <2>1 DEF Speaks
    <2> QED BY <2>4, <2>5, <2>6, <2>7 DEF Minds, g
  <1> QED BY <1>1, <1>2

LEMMA PutFields ==
    ASSUME NEW p \in Peer, NEW e \in Endpoint, NEW s \in Sid, NEW kind \in Kind,
           NEW act \in Act
    PROVE  LET g == Put(p, e, s, kind, act)
           IN  /\ g \in Endpoint
               /\ g.state = e.state /\ g.media = e.media /\ g.timers = e.timers
               /\ g.calls = e.calls /\ g.queue = e.queue /\ g.online = e.online
               /\ g.out = e.out \cup {[to |-> Remote(p, s), sid |-> s,
                                       kind |-> kind, act |-> act]}
  <1> DEFINE m == [to |-> Remote(p, s), sid |-> s, kind |-> kind, act |-> act]
             g == Put(p, e, s, kind, act)
  <1>1. m \in Stanza
    BY PutStanza
  <1>2. g = [e EXCEPT !.out = @ \cup {m}]
    BY DEF Put
  <1> HIDE DEF m, g
  <1>3. e.out \cup {m} \in SUBSET Stanza
    BY <1>1, EndpointFields
  <1>4. /\ g \in Endpoint
        /\ g.state = e.state /\ g.media = e.media /\ g.timers = e.timers
        /\ g.calls = e.calls /\ g.queue = e.queue /\ g.online = e.online
        /\ g.out = e.out \cup {m}
    BY <1>2, <1>3 DEF Endpoint
  <1> QED BY <1>4 DEF g, m

\* A response, or candidates.
LEMMA PutMinds ==
    ASSUME NEW p \in Peer, NEW e \in Endpoint, NEW s \in Sid, NEW kind \in Kind,
           NEW act \in Act, kind # "set" \/ act = "info", NEW M, NEW X
    PROVE  /\ Minds(p, e, Put(p, e, s, kind, act), s, M, X)
           /\ Put(p, e, s, kind, act) \in Endpoint
  <1> DEFINE m == [to |-> Remote(p, s), sid |-> s, kind |-> kind, act |-> act]
             g == Put(p, e, s, kind, act)
  <1>1. /\ g \in Endpoint
        /\ g.state = e.state /\ g.media = e.media /\ g.timers = e.timers
        /\ g.queue = e.queue /\ g.online = e.online /\ g.out = e.out \cup {m}
    BY PutFields
  <1>2. m.kind # "set" \/ m.act = "info"
    OBVIOUS
  <1> HIDE DEF g, m
  <1>3. Orderly(e, g) /\ Stays(e, g, M)
    BY <1>1 DEF Orderly, Stays
  <1>4. Cares(p, e, g, X)
    BY <1>1 DEF Cares, WillHangUp, Pending
  <1>5. Speaks(p, e, g, s, M)
    BY <1>1, <1>2 DEF Speaks
  <1> QED BY <1>1, <1>3, <1>4, <1>5 DEF Minds, g

\* The pattern of Accept, Reject and TerminateWithReason.
LEMMA SendSetMinds ==
    ASSUME NEW p \in Peer, NEW e \in Endpoint, NEW s \in Sid, s \in e.media,
           NEW act \in Act, act \notin {"info", "initiate"},
           NEW new \in State, new # "RECEIVEDINITIATE", new # e.state[s],
           act = "terminate" \/ e.state[s] \notin Initiating
    PROVE  LET g == SetState(SendMessage(p, e, s, act), s, new)
           IN  /\ Minds(p, e, g, s, {}, {})
               /\ g \in Endpoint
               /\ SetStanza(Remote(p, s), s, act) \in g.out
  <1> DEFINE d == [e EXCEPT !.waiting = @ \cup {<<s, act>>}]
             f == Put(p, d, s, "set", act)
             m == [to |-> Remote(p, s), sid |-> s, kind |-> "set", act |-> act]
             g == SetState(SendMessage(p, e, s, act), s, new)
             n == Posted("MSG_STATE", s)
  <1>1. e.waiting \cup {<<s, act>>} \in SUBSET (Sid \X Act)
    BY EndpointFields
  <1>2. /\ d \in Endpoint
        /\ d.state = e.state /\ d.media = e.media /\ d.timers = e.timers
        /\ d.queue = e.queue /\ d.online = e.online /\ d.out = e.out
    BY <1>1 DEF Endpoint
  <1>3. g = SetState(f, s, new)
    BY DEF SendMessage
  <1>4. m = SetStanza(Remote(p, s), s, act)
    BY DEF SetStanza
  <1>5. m.to = Remote(p, s) /\ m.sid = s /\ m.kind = "set" /\ m.act = act
    OBVIOUS
  <1>6. "set" \in Kind
    BY DEF Kind
  <1> HIDE DEF d
  <1>7. /\ f \in Endpoint
        /\ f.state = e.state /\ f.media = e.media /\ f.timers = e.timers
        /\ f.queue = e.queue /\ f.online = e.online /\ f.out = e.out \cup {m}
    BY <1>2, <1>6, PutFields
  <1> HIDE DEF f, g, m
  <1>8. /\ g \in Endpoint
        /\ g.state = [e.state EXCEPT ![s] = new]
        /\ g.media = e.media /\ g.out = e.out \cup {m} /\ g.online = e.online
        /\ g.queue = Append(e.queue, n)
        /\ g.timers = e.timers \/ g.timers = e.timers \ {<<"MSG_TERMINATECALL", s>>}
    BY <1>3, <1>7, SetStateFields
  <1>9. n \in QueueMsg
    BY PostedType DEF SessionMsg
  <1> HIDE DEF n
  <1>10. e.state \in [Sid -> State]
    BY EndpointFields
  <1>11. Orderly(e, g) /\ \A id, r : Pending(e, id, r) => Pending(g, id, r)
    BY <1>8, <1>9, AppendMinds
  <1>12. Stays(e, g, {})
    BY <1>8, <1>10 DEF Stays
  <1>13. Cares(p, e, g, {})
    <2>1. ASSUME NEW r \in Sid, WillHangUp(e, r)
          PROVE  WillHangUp(g, r) \/ SetStanza(Remote(p, r), r, "terminate") \in g.out
      <3>1. CASE r = s
        <4>1. act = "terminate"
          BY <2>1, <3>1 DEF WillHangUp
        <4> QED BY <1>4, <1>8, <3>1, <4>1
      <3>2. CASE r # s
        <4>1. <<"MSG_TERMINATECALL", r>> \in e.timers => <<"MSG_TERMINATECALL", r>> \in g.timers
          BY <1>8, <3>2
        <4> QED BY <1>8, <1>10, <1>11, <2>1, <3>2, <4>1 DEF WillHangUp
      <3> QED BY <3>1, <3>2
    <2> QED BY <1>8, <2>1 DEF Cares
  <1>14. Speaks(p, e, g, s, {})
    BY <1>5, <1>8, <1>10 DEF Speaks
  <1> QED BY <1>4, <1>8, <1>11, <1>12, <1>13, <1>14 DEF Minds, g

LEMMA EndMinds ==
    ASSUME NEW p \in Peer, NEW e \in Endpoint, NEW s \in Sid, NEW busy,
           s \in e.media
    PROVE  /\ Minds(p, e, TerminateWithReason(p, e, s), s, {}, {})
           /\ Minds(p, e, Reject(p, e, s, busy), s, {}, {})
           /\ Minds(p, e, Accept(p, e, s), s, {}, {})
           /\ TerminateWithReason(p, e, s) \in Endpoint
           /\ Reject(p, e, s, busy) \in Endpoint
           /\ e.state[s] \notin Terminal =>
                  SetStanza(Remote(p, s), s, "terminate") \in TerminateWithReason(p, e, s).out
  <1>1. Minds(p, e, e, s, {}, {})
    BY MindsSame
  <1>2. /\ {"terminate", "reject", "busy", "accept"} \subseteq Act \ {"info", "initiate"}
        /\ {"SENTTERMINATE", "SENTBUSY", "SENTREJECT", "SENTACCEPT"} \subseteq State
        /\ "SENTTERMINATE" \in Terminal
    BY DEF Act, Terminal, State
  <1>3. ASSUME e.state[s] \notin Terminal
        PROVE  LET g == TerminateWithReason(p, e, s)
               IN  /\ Minds(p, e, g, s, {}, {}) /\ g \in Endpoint
                   /\ SetStanza(Remote(p, s), s, "terminate") \in g.out
    <2>1. TerminateWithReason(p, e, s)
              = SetState(SendMessage(p, e, s, "terminate"), s, "SENTTERMINATE")
      BY <1>3 DEF TerminateWithReason
    <2> QED BY <1>2, <1>3, <2>1, SendSetMinds
  <1>4. e.state[s] \in Terminal => TerminateWithReason(p, e, s) = e
    BY DEF TerminateWithReason
  <1>5. Minds(p, e, Reject(p, e, s, busy), s, {}, {}) /\ Reject(p, e, s, busy) \in Endpoint
    <2> DEFINE act == IF s \in GingleSids THEN "reject"
                      ELSE IF busy THEN "busy" ELSE "terminate"
               new == IF busy THEN "SENTBUSY" ELSE "SENTREJECT"
    <2>1. act \in Act /\ act \notin {"info", "initiate"} /\ new \in State
          /\ new \in {"SENTBUSY", "SENTREJECT"}
      BY <1>2
    <2>2. Reject(p, e, s, busy) = IF e.state[s] # "RECEIVEDINITIATE" THEN e
                                  ELSE SetState(SendMessage(p, e, s, act), s, new)
      BY DEF Reject
    <2> HIDE DEF act, new
    <2>3. CASE e.state[s] = "RECEIVEDINITIATE"
      <3>1. e.state[s] \notin Initiating /\ new # "RECEIVEDINITIATE" /\ new # e.state[s]
        BY <2>1, <2>3 DEF Initiating
      <3> QED BY <2>1, <2>2, <2>3, <3>1, SendSetMinds
    <2> QED BY <1>1, <2>2, <2>3
  <1>6. Minds(p, e, Accept(p, e, s), s, {}, {})
    <2>1. CASE e.state[s] = "RECEIVEDINITIATE"
      <3>1. e.state[s] \notin Initiating /\ "SENTACCEPT" # e.state[s]
        BY <2>1 DEF Initiating
      <3>2. Accept(p, e, s) = SetState(SendMessage(p, e, s, "accept"), s, "SENTACCEPT")
        BY <2>1 DEF Accept
      <3> QED BY <1>2, <3>1, <3>2, SendSetMinds
    <2> QED BY <1>1, <2>1 DEF Accept
  <1> QED BY <1>1, <1>3, <1>4, <1>5, <1>6

\* Session::SetError stops the no-answer timer, but posts the error.
LEMMA SetErrorMinds ==
    ASSUME NEW p, NEW e \in Endpoint, NEW s \in Sid, NEW err \in Error, NEW M, NEW X
    PROVE  Minds(p, e, SetError(e, s, err), s, M, X)
  <1> DEFINE m == Posted("MSG_ERROR", s)
             T == IF e.error[s] = err THEN e.timers
                  ELSE e.timers \ {<<"MSG_TERMINATECALL", s>>}
             g == SetError(e, s, err)
  <1>1. m \in QueueMsg /\ m.id = "MSG_ERROR" /\ m.sid = s
    BY PostedType DEF SessionMsg, Posted
  <1>2. Append(e.queue, m) \in Seq(QueueMsg)
    BY <1>1, EndpointFields, AppendFacts
  <1>3. T \in SUBSET (Timer \X Sid)
    BY EndpointFields
  <1>4. g = [[e EXCEPT !.error[s] = err, !.timers = T]
                EXCEPT !.queue = Append(@, m)]
    BY DEF SetError, Post
  <1>5. \A r \in Sid : r # s /\ <<"MSG_TERMINATECALL", r>> \in e.timers =>
            <<"MSG_TERMINATECALL", r>> \in T
    OBVIOUS
  <1> HIDE DEF T, m, g
  <1>6. /\ g.state = e.state /\ g.media = e.media /\ g.online = e.online
        /\ g.queue = Append(e.queue, m) /\ g.out = e.out /\ g.timers = T
    BY <1>2, <1>3, <1>4 DEF Endpoint
  <1>7. /\ Orderly(e, g) /\ \A id, r : Pending(e, id, r) => Pending(g, id, r)
        /\ Pending(g, "MSG_ERROR", s)
    BY <1>1, <1>6, AppendMinds, AppendPending
  <1>8. Stays(e, g, M) /\ Speaks(p, e, g, s, M)
    BY <1>6 DEF Stays, Speaks
  <1>9. Cares(p, e, g, X)
    <2>1. ASSUME NEW r \in Sid, WillHangUp(e, r)
          PROVE  WillHangUp(g, r)
      <3>1. CASE r = s
        BY <1>6, <1>7, <2>1, <3>1 DEF WillHangUp
      <3>2. CASE r # s
        BY <1>5, <1>6, <1>7, <2>1, <3>2 DEF WillHangUp
      <3> QED BY <3>1, <3>2
    <2> QED BY <1>6, <2>1 DEF Cares
  <1> QED BY <1>7, <1>8, <1>9 DEF Minds, g

\* Session::OnInitiateAcked stops only the timer of the ack.
LEMMA InitiateAckedMinds ==
    ASSUME NEW p \in Peer, NEW e \in Endpoint, NEW s \in Sid
    PROVE  /\ Minds(p, e, OnInitiateAcked(p, e, s), s, {}, {})
           /\ OnInitiateAcked(p, e, s) \in Endpoint
           /\ OnInitiateAcked(p, e, s).state[s] = "RECEIVEDINITIATE_ACK"
  <1> DEFINE d == [e EXCEPT !.timers = @ \ {<<"MSG_INIT_ACK_TIMEOUT", s>>}]
             f == SetState(d, s, "RECEIVEDINITIATE_ACK")
             g == [f EXCEPT !.acked = @ \cup {s}]
             h == [g EXCEPT !.cands[s] = "sent"]
             k == Put(p, h, s, "set", "info")
  <1>1. e.timers \ {<<"MSG_INIT_ACK_TIMEOUT", s>>} \in SUBSET (Timer \X Sid)
    BY EndpointFields
  <1>2. /\ d \in Endpoint
        /\ d.state = e.state /\ d.media = e.media /\ d.online = e.online
        /\ d.queue = e.queue /\ d.out = e.out
        /\ d.timers = e.timers \ {<<"MSG_INIT_ACK_TIMEOUT", s>>}
    BY <1>1 DEF Endpoint
  <1>3. OnInitiateAcked(p, e, s) =
            IF s \in f.acked THEN f
            ELSE IF g.cands[s] # "unsent" THEN g ELSE k
    BY DEF OnInitiateAcked, SendAllUnsentTransportInfoMessages
  <1> HIDE DEF d
  <1>4. Minds(p, e, d, s, {}, {})
    <2>1. \A r \in Sid : <<"MSG_TERMINATECALL", r>> \in e.timers =>
              <<"MSG_TERMINATECALL", r>> \in d.timers
      BY <1>2
    <2> QED BY <1>2, <2>1, MindsSame
  <1>5. "RECEIVEDINITIATE_ACK" \in State /\ "RECEIVEDINITIATE_ACK" \in Initiating
    BY DEF State, Initiating
  <1>6. Minds(p, d, f, s, {}, {})
    BY <1>2, <1>5, SetStateMinds
  <1>7. f \in Endpoint /\ f.state[s] = "RECEIVEDINITIATE_ACK"
    BY <1>2, <1>5, SetStateEffect
  <1> HIDE DEF f
  <1>8. f.acked \cup {s} \in SUBSET Sid
    BY <1>7, EndpointFields
  <1>9. /\ g \in Endpoint
        /\ g.state = f.state /\ g.media = f.media /\ g.online = f.online
        /\ g.queue = f.queue /\ g.out = f.out /\ g.timers = f.timers
    BY <1>7, <1>8 DEF Endpoint
  <1> HIDE DEF g
  <1>10. /\ h \in Endpoint
         /\ h.state = g.state /\ h.media = g.media /\ h.online = g.online
         /\ h.queue = g.queue /\ h.out = g.out /\ h.timers = g.timers
    BY <1>9 DEF Endpoint
  <1> HIDE DEF h
  <1>11. Minds(p, f, g, s, {}, {}) /\ Minds(p, g, h, s, {}, {})
    BY <1>9, <1>10, MindsSame
  <1>12. Minds(p, h, k, s, {}, {}) /\ k \in Endpoint /\ k.state = h.state
    BY <1>10, PutMinds, PutFields DEF Kind, Act
  <1> HIDE DEF k
  <1>13. Minds(p, e, f, s, {}, {})
    BY <1>4, <1>6, MindsTrans
  <1>14. Minds(p, e, g, s, {}, {})
    BY <1>11, <1>13, MindsTrans
  <1>15. Minds(p, e, k, s, {}, {})
    BY <1>11, <1>12, <1>14, MindsTrans
  <1> QED BY <1>3, <1>7, <1>9, <1>10, <1>12, <1>13, <1>14, <1>15

\* A message that is cleared keeps its place, stanzas and the errors of other
\* sessions stay.
LEMMA ClearMinds ==
    ASSUME NEW e \in Endpoint, NEW s \in Sid, NEW f, NEW ids, NEW q,
           q = Clear(e.queue, ids, s), "set" \notin ids,
           \A i \in DOMAIN q : i \in DOMAIN f.queue /\ f.queue[i] = q[i]
    PROVE  Orderly(e, f)
  <1>1. e.queue \in Seq(QueueMsg)
    BY EndpointFields
  <1>2. DOMAIN q = DOMAIN e.queue
    BY <1>1, ClearFacts
  <1>3. \A i \in DOMAIN e.queue : e.queue[i].id \notin ids => q[i] = e.queue[i]
    BY <1>1 DEF Clear
  <1> QED BY <1>2, <1>3 DEF Orderly

LEMMA DestroySessionMinds ==
    ASSUME NEW p, NEW e \in Endpoint, NEW s \in Sid, e.state[s] \in Terminal
    PROVE  Minds(p, e, DestroySession(e, s), s, {}, {})
  <1> DEFINE m == Posted("MSG_CHECKAUTODESTROY", s)
             T == e.timers \ (SessionTimer \X {s})
             Q == Clear(e.queue, SessionMsg, s)
             g == DestroySession(e, s)
  <1>1. e.queue \in Seq(QueueMsg) /\ e.state \in [Sid -> State]
        /\ e.media \in SUBSET Sid /\ e.acked \in SUBSET Sid
    BY EndpointFields
  <1>2. m \in QueueMsg
    BY PostedType
  <1>3. Q \in Seq(QueueMsg) /\ DOMAIN Q = DOMAIN e.queue
    BY <1>1, ClearFacts
  <1>4. T \in SUBSET (Timer \X Sid)
    BY EndpointFields
  <1>5. e.media \ {s} \in SUBSET Sid /\ e.acked \ {s} \in SUBSET Sid
    BY <1>1
  <1>6. g = [e EXCEPT !.state[s] = "NONE", !.error[s] = "NONE",
                      !.cands[s] = "none", !.acked = @ \ {s},
                      !.media = @ \ {s}, !.timers = T,
                      !.queue = Append(Q, m)]
    BY DEF DestroySession
  <1>7. "NONE" \in State /\ "NONE" \in Error
    BY DEF State, Error
  <1>8. "MSG_TERMINATECALL" \notin SessionTimer
    BY DEF SessionTimer
  <1>9. \A r \in Sid : <<"MSG_TERMINATECALL", r>> \in e.timers =>
            <<"MSG_TERMINATECALL", r>> \in T
    BY <1>8
  <1>10. Q = Clear(e.queue, SessionMsg, s)
    OBVIOUS
  <1> HIDE DEF m, Q, T, g
  <1>11. Append(Q, m) \in Seq(QueueMsg)
    BY <1>2, <1>3, AppendFacts
  <1>12. /\ g.state = [e.state EXCEPT ![s] = "NONE"]
         /\ g.media = e.media \ {s} /\ g.online = e.online
         /\ g.queue = Append(Q, m) /\ g.out = e.out /\ g.timers = T
    BY <1>4, <1>5, <1>6, <1>7, <1>11 DEF Endpoint
  <1>13. \A i \in DOMAIN Q : i \in DOMAIN g.queue /\ g.queue[i] = Q[i]
    BY <1>3, <1>12
  <1>14. "set" \notin SessionMsg
    BY DEF SessionMsg
  <1>15. Orderly(e, g)
    BY <1>10, <1>13, <1>14, ClearMinds
  <1>16. \A id, r : Pending(e, id, r) /\ (id \notin SessionMsg \/ r # s) => Pending(g, id, r)
    BY <1>10, <1>13, ClearPending
  <1>17. Stays(e, g, {})
    BY <1>1, <1>12 DEF Stays
  <1>18. Cares(p, e, g, {})
    <2>1. ASSUME NEW r \in Sid, WillHangUp(e, r)
          PROVE  WillHangUp(g, r)
      <3>1. r # s
        BY <2>1 DEF WillHangUp, Initiating, Terminal
      <3> QED BY <1>1, <1>9, <1>12, <1>16, <2>1, <3>1 DEF WillHangUp
    <2> QED BY <1>12, <2>1 DEF Cares
  <1>19. Speaks(p, e, g, s, {})
    BY <1>12 DEF Speaks
  <1> QED BY <1>15, <1>17, <1>18, <1>19 DEF Minds, g

\* The no-answer timer of a call without a session would not end it.
LEMMA DestroyCallMinds ==
    ASSUME NEW p, NEW e \in Endpoint, NEW s \in Sid, ~Found(e, s)
    PROVE  Minds(p, e, DestroyCall(e, s), s, {}, {})
  <1> DEFINE T == e.timers \ {<<"MSG_TERMINATECALL", s>>}
             Q == Clear(e.queue, {"MSG_CHECKAUTODESTROY"}, s)
             c == IF e.call = s THEN Null ELSE e.call
             f == IF e.focus = s THEN Null ELSE e.focus
             g == DestroyCall(e, s)
  <1>1. e.queue \in Seq(QueueMsg) /\ e.calls \ {s} \in SUBSET Sid
        /\ c \in Sid \cup {Null} /\ f \in Sid \cup {Null}
    BY EndpointFields
  <1>2. Q \in Seq(QueueMsg) /\ DOMAIN Q = DOMAIN e.queue
    BY <1>1, ClearFacts
  <1>3. T \in SUBSET (Timer \X Sid)
    BY EndpointFields
  <1>4. g = [[e EXCEPT !.call = c] EXCEPT
                !.focus = f, !.calls = @ \ {s}, !.timers = T, !.queue = Q]
    BY DEF DestroyCall, OnCallDestroy, Endpoint
  <1>5. \A r \in Sid : r # s /\ <<"MSG_TERMINATECALL", r>> \in e.timers =>
            <<"MSG_TERMINATECALL", r>> \in T
    OBVIOUS
  <1>6. Q = Clear(e.queue, {"MSG_CHECKAUTODESTROY"}, s)
    OBVIOUS
  <1> HIDE DEF Q, T, c, f, g
  <1>7. /\ g.state = e.state /\ g.media = e.media /\ g.online = e.online
        /\ g.queue = Q /\ g.out = e.out /\ g.timers = T
    BY <1>1, <1>2, <1>3, <1>4 DEF Endpoint
  <1>8. Orderly(e, g)
    BY <1>6, <1>7, ClearMinds
  <1>9. \A id, r : Pending(e, id, r) /\ (id \notin {"MSG_CHECKAUTODESTROY"} \/ r # s)
                     => Pending(g, id, r)
    <2>1. \A i \in DOMAIN Q : i \in DOMAIN g.queue /\ g.queue[i] = Q[i]
      BY <1>7
    <2> DEFINE ids == {"MSG_CHECKAUTODESTROY"}
    <2>2. Q = Clear(e.queue, ids, s)
      BY <1>6
    <2> HIDE DEF ids
    <2>3. \A id, r : Pending(e, id, r) /\ (id \notin ids \/ r # s) => Pending(g, id, r)
      BY <2>1, <2>2, ClearPending
    <2> QED BY <2>3 DEF ids
  <1>10. Stays(e, g, {}) /\ Speaks(p, e, g, s, {})
    BY <1>7 DEF Stays, Speaks
  <1>11. Cares(p, e, g, {})
    <2>1. ASSUME NEW r \in Sid, WillHangUp(e, r)
          PROVE  WillHangUp(g, r)
      <3>1. r # s
        BY <2>1 DEF WillHangUp, Initiating, Found
      <3> QED BY <1>5, <1>7, <1>9, <2>1, <3>1 DEF WillHangUp
    <2> QED BY <1>7, <2>1 DEF Cares
  <1> QED BY <1>8, <1>10, <1>11 DEF Minds, g

\* Nothing was sent in between.
LEMMA MindsQuiet ==
    ASSUME NEW p, NEW e, NEW f, NEW g, NEW s, NEW M, NEW X, f.out = e.out,
           Minds(p, e, f, s, M, X), Minds(p, f, g, s, M, X)
    PROVE  Minds(p, e, g, s, M, X)
  <1>1. Orderly(e, g)
    BY DEF Minds, Orderly
  <1>2. Stays(e, g, M)
    BY DEF Minds, Stays
  <1>3. Cares(p, e, g, X)
    BY DEF Minds, Cares
  <1>4. Speaks(p, e, g, s, M)
    BY DEF Minds, Speaks, Stays
  <1> QED BY <1>1, <1>2, <1>3, <1>4 DEF Minds

-----------------------------------------------------------------------------
(* The handlers *)

LEMMA MsgStateMinds ==
    ASSUME NEW p, NEW e \in Endpoint, NEW s \in Sid
    PROVE  Minds(p, e, OnMsgState(e, s), s, {}, {})
  <1>1. CASE e.state[s] \in {"SENTACCEPT", "RECEIVEDACCEPT"}
    <2>1. /\ "INPROGRESS" \in State /\ e.state[s] \notin Initiating
          /\ OnMsgState(e, s) = SetState(e, s, "INPROGRESS")
      BY <1>1 DEF State, Terminal, OnMsgState, Initiating
    <2> QED BY <2>1, SetStateMinds
  <1>2. CASE e.state[s] \in Terminal
    <2>1. OnMsgState(e, s) = DestroySession(e, s)
      BY <1>2 DEF OnMsgState, Terminal
    <2> QED BY <1>2, <2>1, DestroySessionMinds
  <1>3. CASE e.state[s] \notin {"SENTACCEPT", "RECEIVEDACCEPT"} \cup Terminal
    <2>1. OnMsgState(e, s) = e
      BY <1>3 DEF OnMsgState
    <2> QED BY <2>1, MindsSame
  <1> QED BY <1>1, <1>2, <1>3

LEMMA CheckAutoDestroyMinds ==
    ASSUME NEW p, NEW e \in Endpoint, NEW s \in Sid, Registered(e, s)
    PROVE  Minds(p, e, OnMsgCheckAutoDestroy(e, s), s, {}, {})
  BY DestroyCallMinds, MindsSame DEF OnMsgCheckAutoDestroy, Registered

\* AcceptCallS, DeclineCallS, EndCallS, Call::Terminate and HoldCallS.
LEMMA UserHandlersMinds ==
    ASSUME NEW p \in Peer, NEW e \in Endpoint, NEW s \in Sid, NEW busy
    PROVE  /\ Minds(p, e, AcceptCallS(p, e, s), s, {}, {})
           /\ Minds(p, e, DeclineCallS(p, e, s, busy), s, {}, {})
           /\ Minds(p, e, CallTerminate(p, e, s), s, {}, {})
           /\ Minds(p, e, EndCallS(p, e, s), s, {}, {})
           /\ Minds(p, e, HoldCallS(e, s, busy), s, {}, {})
  <1>1. Minds(p, e, e, s, {}, {})
    BY MindsSame
  <1>2. s \in e.media => /\ Minds(p, e, TerminateWithReason(p, e, s), s, {}, {})
                         /\ Minds(p, e, Reject(p, e, s, busy), s, {}, {})
                         /\ Minds(p, e, Accept(p, e, s), s, {}, {})
    BY EndMinds
  <1>3. Minds(p, e, AcceptCallS(p, e, s), s, {}, {})
    BY <1>1, <1>2 DEF AcceptCallS
  <1>4. Minds(p, e, DeclineCallS(p, e, s, busy), s, {}, {})
    BY <1>1, <1>2 DEF DeclineCallS
  <1>5. Minds(p, e, CallTerminate(p, e, s), s, {}, {})
    BY <1>1, <1>2 DEF CallTerminate
  <1>6. Minds(p, e, EndCallS(p, e, s), s, {}, {})
    BY <1>1, <1>5 DEF EndCallS
  <1>7. Minds(p, e, HoldCallS(e, s, busy), s, {}, {})
    <2>1. ASSUME NEW c
          PROVE  Minds(p, e, [e EXCEPT !.focus = c, !.call = c], s, {}, {})
      <3> DEFINE f == [e EXCEPT !.focus = c, !.call = c]
      <3>1. /\ f.state = e.state /\ f.media = e.media /\ f.online = e.online
            /\ f.queue = e.queue /\ f.out = e.out /\ f.timers = e.timers
        BY DEF Endpoint
      <3> HIDE DEF f
      <3> QED BY <3>1, MindsSame DEF f
    <2> QED BY <1>1, <2>1 DEF HoldCallS
  <1> QED BY <1>3, <1>4, <1>5, <1>6, <1>7

\* An initiate for a session that cannot be found.
LEMMA IncomingMinds ==
    ASSUME NEW p \in Peer, NEW e \in Endpoint, NEW s \in Sid, ~Found(e, s)
    PROVE  Minds(p, e, Incoming(p, e, s), s, {s}, {})
  <1>1. /\ {"INIT", "RECEIVEDINITIATE"} \subseteq State
        /\ "initiate" \in Act /\ {"error", "result"} \subseteq Kind \ {"set"}
        /\ e.state[s] \notin Initiating
    BY DEF State, Act, Kind, Found, Initiating
  <1>2. CASE Offer[s] = "unusable"
    <2> DEFINE a == CreateSession(e, s)
    <2>1. /\ a \in Endpoint
          /\ a.state = [e.state EXCEPT ![s] = "INIT"]
          /\ a.media = e.media /\ a.online = e.online /\ a.queue = e.queue
          /\ a.out = e.out /\ a.timers = e.timers
      BY <1>1 DEF CreateSession, Endpoint
    <2>2. Incoming(p, e, s) = Put(p, a, s, "error", "initiate")
      BY <1>2 DEF Incoming
    <2> HIDE DEF a
    <2>3. e.state \in [Sid -> State]
      BY EndpointFields
    <2>4. Orderly(e, a) /\ Stays(e, a, {s}) /\ Speaks(p, e, a, s, {s})
      BY <2>1, <2>3 DEF Orderly, Stays, Speaks
    <2>5. Cares(p, e, a, {})
      BY <1>1, <2>1, <2>3 DEF Cares, WillHangUp, Pending
    <2>6. Minds(p, a, Put(p, a, s, "error", "initiate"), s, {}, {})
      BY <1>1, <2>1, PutMinds
    <2> QED BY <2>2, <2>4, <2>5, <2>6, MindsTrans DEF Minds
  <1>3. CASE Offer[s] # "unusable"
    <2> DEFINE b == AddSession(e, s)
               f == SetState(b, s, "RECEIVEDINITIATE")
               busy == FALSE
               r == Reject(p, f, s, busy)
               g == IF Offer[s] = "nocodec" THEN r ELSE f
    <2>1. e.calls \cup {s} \in SUBSET Sid /\ e.media \cup {s} \in SUBSET Sid
      BY EndpointFields
    <2>2. /\ b \in Endpoint
          /\ b.state = e.state /\ b.media = e.media \cup {s} /\ b.online = e.online
          /\ b.queue = e.queue /\ b.out = e.out /\ b.timers = e.timers
      BY <2>1 DEF AddSession, Endpoint
    <2>3. Incoming(p, e, s) = Put(p, g, s, "result", "initiate")
      BY <1>3 DEF Incoming
    <2> HIDE DEF b, busy
    <2>4. Minds(p, e, b, s, {s}, {})
      BY <2>2, MindsSame
    <2>5. b.state[s] # "RECEIVEDINITIATE"
      BY <2>2 DEF Found
    <2>6. f \in Endpoint /\ f.media = b.media
      BY <1>1, <2>2, <2>5, SetStateFields
    <2>7. Minds(p, b, f, s, {s}, {})
      BY <1>1, <2>2, SetStateMinds
    <2> HIDE DEF f
    <2>8. Minds(p, e, f, s, {s}, {})
      BY <2>2, <2>4, <2>7, MindsQuiet
    <2>9. Minds(p, f, r, s, {}, {}) /\ r \in Endpoint
      BY <2>2, <2>6, EndMinds
    <2>10. Minds(p, e, r, s, {s}, {})
      BY <2>8, <2>9, MindsTrans
    <2> HIDE DEF r
    <2>11. Minds(p, e, g, s, {s}, {}) /\ g \in Endpoint
      BY <2>6, <2>8, <2>9, <2>10
    <2> HIDE DEF g
    <2>12. Minds(p, g, Put(p, g, s, "result", "initiate"), s, {}, {})
      BY <1>1, <2>11, PutMinds
    <2> QED BY <2>3, <2>11, <2>12, MindsTrans
  <1> QED BY <1>2, <1>3

\* A stanza of type set: an initiate may make the session join a call, the
\* responder's answer ends what the caller would have to end.
JoinBy(act, s) == IF act = "initiate" THEN {s} ELSE {}
EndBy(act, s) == IF act \in {"accept", "terminate", "busy"} THEN {s} ELSE {}

LEMMA IncomingMessageMinds ==
    ASSUME NEW p \in Peer, NEW e \in Endpoint, NEW s \in Sid, NEW act \in Act
    PROVE  /\ Minds(p, e, OnIncomingMessage(p, e, s, act), s, JoinBy(act, s), EndBy(act, s))
           /\ act = "terminate" =>
                  OnIncomingMessage(p, e, s, act).state[s] # "RECEIVEDINITIATE"
  <1> DEFINE M == JoinBy(act, s)
             X == EndBy(act, s)
             g == OnIncomingMessage(p, e, s, act)
  <1>1. {"error", "result"} \subseteq Kind \ {"set"}
    BY DEF Kind
  <1>2. Minds(p, e, e, s, M, X)
    BY MindsSame
  <1>3. ASSUME NEW f \in Endpoint, Minds(p, e, f, s, M, X), NEW kind \in {"error", "result"}
        PROVE  /\ Minds(p, e, Put(p, f, s, kind, act), s, M, X)
               /\ Put(p, f, s, kind, act).state = f.state
    <2>1. Minds(p, f, Put(p, f, s, kind, act), s, {}, X)
      BY <1>1, <1>3, PutMinds
    <2> QED BY <1>1, <1>3, <2>1, MindsTrans, PutFields
  <1>4. CASE ~Found(e, s) /\ act = "initiate"
    <2>1. M = {s} /\ g = Incoming(p, e, s)
      BY <1>4 DEF JoinBy, OnIncomingMessage
    <2>2. Minds(p, e, g, s, {s}, {})
      BY <1>4, <2>1, IncomingMinds
    <2> QED BY <1>4, <2>1, <2>2, MindsMore
  <1>5. CASE act = "info"
    <2>1. g = e
      BY <1>5 DEF OnIncomingMessage
    <2> QED BY <1>2, <1>5, <2>1
  <1>6. CASE /\ (act # "info" /\ act # "initiate") \/ Found(e, s)
             /\ ~Found(e, s) \/ act \in {"initiate", "reject"}
    <2>1. g = Put(p, e, s, "error", act) \/ g = Put(p, e, s, "result", act) \/ g = e
      BY <1>6 DEF OnIncomingMessage, OnRejectMessage
    <2>2. Minds(p, e, g, s, M, X) /\ g.state = e.state
      BY <1>2, <1>3, <2>1
    <2>3. act = "terminate" => e.state[s] # "RECEIVEDINITIATE"
      BY <1>6 DEF Found
    <2> QED BY <2>2, <2>3
  <1>7. CASE Found(e, s) /\ act = "accept"
    <2>1. g = OnAcceptMessage(p, e, s)
      BY <1>7 DEF OnIncomingMessage
    <2>2. CASE e.state[s] \notin Initiating
      BY <1>2, <1>3, <1>7, <2>1, <2>2 DEF OnAcceptMessage
    <2>3. CASE e.state[s] \in Initiating
      <3> DEFINE a == OnInitiateAcked(p, e, s)
                 f == SetState(a, s, "RECEIVEDACCEPT")
      <3>1. s \in X /\ "RECEIVEDACCEPT" \in State
        BY <1>7 DEF State, EndBy
      <3>2. Minds(p, e, a, s, {}, {}) /\ a \in Endpoint
        BY InitiateAckedMinds
      <3>3. Minds(p, e, a, s, M, X)
        BY <3>2, MindsMore
      <3>4. g = Put(p, f, s, "result", act)
        BY <1>7, <2>1, <2>3 DEF OnAcceptMessage
      <3> HIDE DEF a
      <3>5. Minds(p, a, f, s, {}, X) /\ f \in Endpoint
        BY <3>1, <3>2, SetStateMinds, SetStateEffect
      <3> HIDE DEF f
      <3>6. Minds(p, e, f, s, M, X)
        BY <3>3, <3>5, MindsTrans
      <3> QED BY <1>3, <1>7, <3>4, <3>5, <3>6
    <2> QED BY <2>2, <2>3
  <1>8. CASE Found(e, s) /\ act \in {"terminate", "busy"}
    <2> DEFINE new == IF act = "busy" THEN "RECEIVEDBUSY" ELSE "RECEIVEDTERMINATE"
               f == SetState(e, s, new)
    <2>1. g = Put(p, f, s, "result", act)
      BY <1>8 DEF OnIncomingMessage, OnTerminateMessage
    <2>2. new \in State /\ new # "RECEIVEDINITIATE" /\ s \in X
      BY <1>8 DEF State, Terminal, EndBy
    <2> HIDE DEF new
    <2>3. Minds(p, e, f, s, M, X) /\ f \in Endpoint /\ f.state[s] = new
      BY <2>2, SetStateMinds, SetStateEffect
    <2> HIDE DEF f
    <2> QED BY <1>3, <2>1, <2>2, <2>3
  <1> QED BY <1>4, <1>5, <1>6, <1>7, <1>8 DEF Act

LEMMA ResponseMinds ==
    ASSUME NEW p \in Peer, NEW e \in Endpoint, NEW s \in Sid, NEW kind, NEW act \in Act
    PROVE  Minds(p, e, OnResponse(p, e, s, kind, act), s, {}, {})
  <1> DEFINE f == [e EXCEPT !.waiting = @ \ {<<s, act>>}]
             g == OnResponse(p, e, s, kind, act)
  <1>1. e.waiting \ {<<s, act>>} \in SUBSET (Sid \X Act)
    BY EndpointFields
  <1>2. /\ f \in Endpoint
        /\ f.state = e.state /\ f.media = e.media /\ f.online = e.online
        /\ f.queue = e.queue /\ f.out = e.out /\ f.timers = e.timers
    BY <1>1 DEF Endpoint
  <1>3. g \in {f, SetError(f, s, "RESPONSE"), OnInitiateAcked(p, f, s)}
    BY DEF OnResponse
  <1> HIDE DEF f, g
  <1>4. Minds(p, e, f, s, {}, {})
    BY <1>2, MindsSame
  <1>5. Minds(p, f, SetError(f, s, "RESPONSE"), s, {}, {})
    BY <1>2, SetErrorMinds DEF Error
  <1>6. Minds(p, f, OnInitiateAcked(p, f, s), s, {}, {})
    BY <1>2, InitiateAckedMinds
  <1> QED BY <1>3, <1>4, <1>5, <1>6, MindsTrans DEF g

-----------------------------------------------------------------------------
(* The step of a handler *)

\* The handler started with e, p's endpoint without the message it handles.
Resumed(p, e, f, s) ==
    /\ e \in Endpoint
    /\ e.state = ep[p].state /\ e.media = ep[p].media
    /\ e.online = ep[p].online /\ e.out = {}
    /\ \A r \in Sid :
           /\ Invited(e.queue, r) => Invited(ep[p].queue, r)
           /\ Single(ep[p].queue, r) => Single(e.queue, r)
           /\ Behind(ep[p].queue, r) =>
                  \/ Behind(e.queue, r)
                  \/ r = s /\ ~Invited(e.queue, s) /\ f.state[s] # "RECEIVEDINITIATE"
           /\ WillHangUp(ep[p], r) =>
                  \/ WillHangUp(e, r)
                  \/ SetStanza(Remote(p, r), r, "terminate") \in f.out

\* The session may join a call because its only initiate was just taken.
Joins(p, e, s) ==
    /\ p = Responder[s]
    /\ Coming(s) /\ Invite(s) \notin net /\ ~Invited(e.queue, s)

LEMMA BecomeRing ==
    ASSUME IInv, RInv, NEW p \in Peer, NEW s \in Sid, NEW e, NEW f \in Endpoint,
           NEW M, NEW X, ep[p].online, Resumed(p, e, f, s),
           Minds(p, e, f, s, M, X), Queues(e, f, s),
           \A r \in M : r = s /\ Joins(p, e, s),
           \A r \in X : p = Initiator[r] => ~Coming(r) /\ ~Ringing(r),
           Become(p, f)
    PROVE  RInv'
  <1>1. /\ ep'[p] = [f EXCEPT !.out = {}]
        /\ \A q \in Peer \ {p} : ep'[q] = ep[q]
        /\ net' = net \cup f.out
        /\ sent' = sent \cup f.out
    BY DEF Become, IInv
  <1>2. /\ ep'[p].state = f.state /\ ep'[p].media = f.media
        /\ ep'[p].queue = f.queue /\ ep'[p].timers = f.timers
        /\ ep'[p].online = f.online
    BY <1>1 DEF Endpoint
  <1>3. \A r \in Sid : Initiator[r] \in Peer /\ Responder[r] \in Peer /\ Initiator[r] # Responder[r]
    BY RouteAssumption
  <1>4. /\ f.online
        /\ f.media \subseteq ep[p].media \cup M
        /\ \A r \in Sid : f.state[r] = "RECEIVEDINITIATE" =>
               ep[p].state[r] = "RECEIVEDINITIATE" \/ r \in M
    BY DEF Minds, Stays, Resumed
  <1>5. \A m \in f.out : m.kind # "set" \/ m.act # "initiate"
    BY DEF Minds, Speaks, Resumed
  <1>6. ASSUME NEW r \in Sid
        PROVE  Invite(r) \in net' <=> Invite(r) \in net
    <2>1. Invite(r).kind = "set" /\ Invite(r).act = "initiate"
      BY DEF Invite, SetStanza
    <2> QED BY <1>1, <1>5, <2>1
  <1>7. ASSUME NEW r \in Sid
        PROVE  /\ Invited(f.queue, r) => Invited(e.queue, r) /\ Invited(ep[p].queue, r)
               /\ Single(ep[p].queue, r) => Single(f.queue, r)
               /\ Behind(ep[p].queue, r) =>
                      \/ Behind(f.queue, r)
                      \/ /\ r = s /\ ~Invited(f.queue, s)
                         /\ f.state[s] # "RECEIVEDINITIATE"
    BY KeptOrder DEF Minds, Resumed
  <1>8. ASSUME NEW r \in Sid
        PROVE  Invited(ep'[Responder[r]].queue, r) => Invited(ep[Responder[r]].queue, r)
    BY <1>1, <1>2, <1>3, <1>7
  <1>9. ASSUME NEW r \in Sid, Coming(r)'
        PROVE  Coming(r)
    <2>1. Invite(r) \in net' \/ Invited(ep'[Responder[r]].queue, r)
      BY <1>9 DEF Coming, Invite, SetStanza
    <2> QED BY <1>6, <1>8, <2>1 DEF Coming
  <1>10. ASSUME NEW r \in Sid, r \in M
         PROVE  ~Coming(r)'
    <2>1. Invite(r) \notin net' /\ ~Invited(ep'[Responder[r]].queue, r)
      BY <1>2, <1>6, <1>7, <1>10 DEF Joins
    <2> QED BY <2>1 DEF Coming, Invite, SetStanza
  <1>11. ASSUME NEW r \in Sid, Ringing(r)'
         PROVE  Ringing(r) \/ (Coming(r) /\ Responder[r] = p)
    <2>1. ep'[Responder[r]].state[r] = "RECEIVEDINITIATE"
      BY <1>11 DEF Ringing
    <2>2. CASE Responder[r] = p
      <3>1. ep[p].state[r] = "RECEIVEDINITIATE" \/ r \in M
        BY <1>2, <1>4, <2>1, <2>2
      <3>2. r \in M => Coming(r)
        BY DEF Joins
      <3> QED BY <2>2, <3>1, <3>2 DEF Ringing
    <2>3. CASE Responder[r] # p
      <3>1. ep'[Responder[r]] = ep[Responder[r]]
        BY <1>1, <1>3, <2>3
      <3> QED BY <2>1, <3>1 DEF Ringing
    <2> QED BY <2>2, <2>3
  <1>12. Parties'
    <2>1. ASSUME NEW q \in Peer, NEW r \in ep'[q].media
          PROVE  q \in {Initiator[r], Responder[r]}
      <3>1. CASE q = p
        BY <1>2, <1>4, <2>1, <3>1 DEF RInv, Parties, Joins
      <3>2. CASE q # p
        BY <1>1, <2>1, <3>2 DEF RInv, Parties
      <3> QED BY <3>1, <3>2
    <2> QED BY <2>1 DEF Parties
  <1>13. Once'
    <2>1. ASSUME NEW r \in Sid
          PROVE  /\ Invite(r) \in net' => ~Invited(ep'[Responder[r]].queue, r)
                 /\ Single(ep'[Responder[r]].queue, r)
                 /\ Coming(r)' => r \notin ep'[Responder[r]].media
      <3>1. Invite(r) \in net' => ~Invited(ep'[Responder[r]].queue, r)
        BY <1>6, <1>8 DEF RInv, Once
      <3>2. Single(ep'[Responder[r]].queue, r)
        BY <1>1, <1>2, <1>3, <1>7 DEF RInv, Once
      <3>3. ASSUME Coming(r)'
            PROVE  r \notin ep'[Responder[r]].media
        <4>1. Coming(r) /\ r \notin M
          BY <1>9, <1>10, <3>3
        <4>2. r \notin ep[Responder[r]].media
          BY <4>1 DEF RInv, Once
        <4> QED BY <1>1, <1>2, <1>3, <1>4, <4>1, <4>2
      <3> QED BY <3>1, <3>2, <3>3
    <2> QED BY <2>1 DEF Once, Invite, SetStanza
  <1>14. Settled'
    <2>1. ASSUME NEW r \in Sid, NEW m \in sent', Answer(m, r)
          PROVE  ~Coming(r)' /\ ~Ringing(r)'
      <3>1. CASE m \in sent
        <4>1. ~Coming(r) /\ ~Ringing(r)
          BY <2>1, <3>1 DEF RInv, Settled
        <4> QED BY <1>9, <1>11, <4>1
      <3>2. CASE m \in f.out
        <4>1. /\ m.to = Remote(p, s) /\ m.sid = s
              /\ s \in ep[p].media \cup M /\ f.state[s] # "RECEIVEDINITIATE"
          BY <2>1, <3>2 DEF Minds, Speaks, Resumed, Answer
        <4>2. r = s /\ Remote(p, s) = Initiator[s]
          BY <2>1, <4>1 DEF Answer
        <4>3. p # Initiator[s]
          BY <1>3, <4>2 DEF Remote
        <4>4. p = Responder[s]
          BY <4>1, <4>3 DEF RInv, Parties, Joins
        <4>5. ~Coming(s)'
          <5>1. s \in ep[p].media => ~Coming(s)
            BY <4>4 DEF RInv, Once
          <5> QED BY <1>9, <1>10, <4>1, <5>1
        <4>6. ~Ringing(s)'
          BY <1>2, <4>1, <4>4 DEF Ringing
        <4> QED BY <4>2, <4>5, <4>6
      <3> QED BY <1>1, <2>1, <3>1, <3>2
    <2> QED BY <2>1 DEF Settled, Answer
  <1>15. Guarded'
    <2>1. ASSUME NEW r \in Sid, ep'[Initiator[r]].online,
                 Ringing(r)' \/ (Coming(r)' /\ ep'[Responder[r]].online)
          PROVE  HungUp(r)' \/ WillHangUp(ep'[Initiator[r]], r)
      <3>1. \A q \in Peer : ep'[q].online = ep[q].online
        BY <1>1, <1>2 DEF Minds, Stays, Resumed
      <3>2. Ringing(r) \/ (Coming(r) /\ ep[Responder[r]].online)
        BY <1>3, <1>9, <1>11, <2>1, <3>1
      <3>3. HungUp(r) \/ WillHangUp(ep[Initiator[r]], r)
        BY <1>3, <2>1, <3>1, <3>2 DEF RInv, Guarded
      <3>4. \/ Hangup(r) \in net'
            \/ Invite(r) \notin net' /\ Behind(ep'[Responder[r]].queue, r)
            => HungUp(r)'
        BY DEF HungUp, Invite, Hangup, SetStanza
      <3>5. CASE Hangup(r) \in net
        BY <1>1, <3>4, <3>5
      <3>6. CASE Invite(r) \notin net /\ Behind(ep[Responder[r]].queue, r)
        <4>1. CASE Responder[r] # p
          BY <1>1, <1>3, <1>6, <3>4, <3>6, <4>1
        <4>2. CASE Responder[r] = p
          <5>1. CASE Behind(f.queue, r)
            BY <1>2, <1>6, <3>4, <3>6, <4>2, <5>1
          <5>2. CASE r = s /\ ~Invited(f.queue, s) /\ f.state[s] # "RECEIVEDINITIATE"
            <6>1. ~Ringing(r)'
              BY <1>2, <4>2, <5>2 DEF Ringing
            <6>2. ~Coming(r)'
              BY <1>2, <1>6, <3>6, <4>2, <5>2 DEF Coming, Invite, SetStanza
            <6> QED BY <2>1, <6>1, <6>2
          <5> QED BY <1>7, <3>6, <4>2, <5>1, <5>2
        <4> QED BY <4>1, <4>2
      <3>7. CASE WillHangUp(ep[Initiator[r]], r)
        <4>1. CASE Initiator[r] # p
          BY <1>1, <1>3, <3>7, <4>1
        <4>2. CASE Initiator[r] = p
          <5>1. Remote(p, r) = Responder[r]
            BY <4>2 DEF Remote
          <5>2. WillHangUp(f, r) => WillHangUp(ep'[p], r)
            BY <1>2 DEF WillHangUp, Pending
          <5>3. Hangup(r) \in f.out => HungUp(r)'
            BY <1>1, <3>4
          <5>4. r \notin X
            BY <3>2, <4>2
          <5>5. WillHangUp(f, r) \/ Hangup(r) \in f.out
            BY <3>7, <4>2, <5>1, <5>4 DEF Resumed, Minds, Cares, Hangup
          <5> QED BY <4>2, <5>2, <5>3, <5>5
        <4> QED BY <4>1, <4>2
      <3> QED BY <3>3, <3>5, <3>6, <3>7 DEF HungUp
    <2> QED BY <2>1 DEF Guarded, WillHangUp, Pending
  <1>16. Offline'
    <2>1. ASSUME NEW q \in Peer, ~ep'[q].online
          PROVE  ep'[q] = ep[q] /\ ~ep[q].online
      BY <1>1, <1>2, <1>4, <2>1
    <2> QED BY <2>1 DEF RInv, Offline
  <1> QED BY <1>12, <1>13, <1>14, <1>15, <1>16 DEF RInv

\* What p starts with after taking the message in front off its queue.
LEMMA RestResumed ==
    ASSUME IInv, RInv, NEW p \in Peer, ep[p].queue # <<>>,
           NEW e, e = Rest(p), NEW s, s = Front(p).sid, NEW f,
           Brings(Front(p), s, "terminate") => f.state[s] # "RECEIVEDINITIATE",
           Front(p).id = "MSG_ERROR" /\ ep[p].state[s] \in Initiating =>
               SetStanza(Remote(p, s), s, "terminate") \in f.out
    PROVE  Resumed(p, e, f, s) /\ ep[p].online /\ s \in Sid
  <1>1. ep[p] \in Endpoint /\ ep[p].out = {} /\ ep[p].queue \in Seq(QueueMsg)
    BY EndpointFields DEF IInv
  <1>2. Front(p) \in QueueMsg /\ e.queue \in Seq(QueueMsg) /\ e.queue = Tail(ep[p].queue)
    BY <1>1, TailFacts DEF Rest, Front, Endpoint
  <1>3. /\ e \in Endpoint /\ e.state = ep[p].state /\ e.media = ep[p].media
        /\ e.online = ep[p].online /\ e.out = {} /\ e.timers = ep[p].timers
    BY <1>1, <1>2 DEF Rest, Endpoint
  <1>4. \A i \in DOMAIN ep[p].queue :
            i = 1 \/ \E j \in DOMAIN e.queue : e.queue[j] = ep[p].queue[i]
    <2> DEFINE q == ep[p].queue
    <2>1. q \in Seq(QueueMsg) /\ q # <<>>
      BY <1>1
    <2> HIDE DEF q
    <2>2. \A i \in DOMAIN q : i = 1 \/ \E j \in DOMAIN Tail(q) : Tail(q)[j] = q[i]
      BY <2>1, TailMore
    <2> QED BY <1>2, <2>2 DEF q
  <1>5. Front(p) = ep[p].queue[1] /\ Front(p) = Head(ep[p].queue)
    BY <1>1 DEF Front
  <1>6. \A r : Pending(ep[p], "MSG_ERROR", r) =>
            \/ Pending(e, "MSG_ERROR", r)
            \/ Front(p).id = "MSG_ERROR" /\ r = s
    BY <1>4, <1>5 DEF Pending
  <1>7. ASSUME NEW r \in Sid
        PROVE  /\ Invited(e.queue, r) => Invited(ep[p].queue, r)
               /\ Single(ep[p].queue, r) => Single(e.queue, r)
               /\ Behind(ep[p].queue, r) =>
                      \/ Behind(e.queue, r)
                      \/ r = s /\ ~Invited(e.queue, s) /\ f.state[s] # "RECEIVEDINITIATE"
    <2>1. /\ Invited(e.queue, r) => Invited(ep[p].queue, r)
          /\ Single(ep[p].queue, r) => Single(e.queue, r)
          /\ Behind(ep[p].queue, r) =>
                 \/ Behind(e.queue, r)
                 \/ Brings(Front(p), r, "terminate") /\ ~Invited(e.queue, r)
      BY <1>1, <1>2, <1>5, TailOrder
    <2>2. Brings(Front(p), r, "terminate") => r = s
      BY DEF Brings
    <2> QED BY <2>1, <2>2
  <1>8. ASSUME NEW r \in Sid, WillHangUp(ep[p], r)
        PROVE  \/ WillHangUp(e, r)
               \/ SetStanza(Remote(p, r), r, "terminate") \in f.out
    BY <1>3, <1>6, <1>8 DEF WillHangUp
  <1>9. Resumed(p, e, f, s)
    BY <1>3, <1>7, <1>8 DEF Resumed
  <1>10. ep[p].online
    BY DEF RInv, Offline
  <1>11. s \in Sid
    BY <1>2 DEF QueueMsg
  <1> QED BY <1>9, <1>10, <1>11

\* A timer, a send that fails or a transport: the queue stays.
LEMMA SameResumed ==
    ASSUME NEW p \in Peer, NEW e \in Endpoint, NEW f, NEW s,
           e.state = ep[p].state, e.media = ep[p].media, e.online = ep[p].online,
           e.out = {}, e.queue = ep[p].queue,
           \A r \in Sid : WillHangUp(ep[p], r) =>
               \/ WillHangUp(e, r)
               \/ SetStanza(Remote(p, r), r, "terminate") \in f.out
    PROVE  Resumed(p, e, f, s)
  BY DEF Resumed

\* The handler of the message in front, about its own session only.
LEMMA HandlerRing ==
    ASSUME IInv, RInv, NEW p \in Peer, ep[p].queue # <<>>,
           NEW e, e = Rest(p), NEW s, s = Front(p).sid, NEW f, NEW A, NEW N, NEW M, NEW X,
           Touches(p, e, f, s, A, N), Minds(p, e, f, s, M, X),
           Brings(Front(p), s, "terminate") => f.state[s] # "RECEIVEDINITIATE",
           Front(p).id = "MSG_ERROR" /\ ep[p].state[s] \in Initiating =>
               SetStanza(Remote(p, s), s, "terminate") \in f.out,
           \A r \in M : r = s /\ Joins(p, e, s),
           \A r \in X : p = Initiator[r] => ~Coming(r) /\ ~Ringing(r),
           Become(p, f)
    PROVE  RInv'
  <1>1. Resumed(p, e, f, s) /\ ep[p].online /\ s \in Sid
    BY RestResumed
  <1>2. f \in Endpoint /\ Queues(e, f, s)
    BY DEF Touches
  <1> QED BY <1>1, <1>2, BecomeRing

LEMMA DispatchRing ==
    ASSUME IInv, DInv, RInv, NEW p \in Peer, Dispatch(p), ~MsgCall(p), ~MsgDisconnect(p)
    PROVE  RInv'
  <1> DEFINE e == Rest(p)
             s == Front(p).sid
             act == Front(p).act
  <1>1. ep[p].queue # <<>>
    BY DEF Dispatch, MsgState, MsgError, MsgCheckAutoDestroy, MsgCleared, MsgCall,
           MsgAcceptCall, MsgDeclineCall, MsgEndCall, MsgHoldCall, MsgDisconnect,
           MsgIncomingSet, MsgIncomingResponse, Dispatching
  <1>2. /\ Front(p) \in QueueMsg /\ s \in Sid /\ e \in Endpoint
        /\ Front(p).id # "MSG_STATE" => StateDue(e, s)
        /\ Front(p).id # "MSG_CHECKAUTODESTROY" => CheckDue(e, s)
        /\ MsgRouted(p, Front(p), sent)
        /\ e.state = ep[p].state /\ e.media = ep[p].media
        /\ \E i \in DOMAIN ep[p].queue : Front(p) = ep[p].queue[i]
    BY <1>1, RestResumes DEF Resumes, QueueMsg
  <1>3. e = Rest(p) /\ s = Front(p).sid /\ act = Front(p).act
    OBVIOUS
  <1>4. Front(p).id \in SessionMsg => s \in e.media
    BY <1>1, RestGood DEF IInv
  <1>5. \A r \in Sid : Registered(e, r)
    BY <1>1, RestGood DEF IInv, Good
  <1> HIDE DEF e, s, act
  <1>6. ASSUME NEW f, NEW A, NEW N, Touches(p, e, f, s, A, N), Minds(p, e, f, s, {}, {}),
               Front(p).id # "set",
               Front(p).id = "MSG_ERROR" /\ ep[p].state[s] \in Initiating =>
                   SetStanza(Remote(p, s), s, "terminate") \in f.out,
               Become(p, f)
        PROVE  RInv'
    <2> DEFINE M == {}
    <2>1. Minds(p, e, f, s, M, M) /\ \A r \in M : FALSE
      BY <1>6
    <2> HIDE DEF M
    <2>2. ~Brings(Front(p), s, "terminate")
      BY <1>6 DEF Brings
    <2> QED BY <1>1, <1>3, <1>6, <2>1, <2>2, HandlerRing
  <1>7. CASE MsgState(p)
    <2>1. Front(p).id = "MSG_STATE" /\ Become(p, OnMsgState(e, s))
      BY <1>7 DEF MsgState, Dispatching, e, s
    <2> QED BY <1>2, <1>6, <2>1, MsgStateTouch, MsgStateMinds
  <1>8. CASE MsgError(p)
    <2>1. Front(p).id = "MSG_ERROR" /\ Become(p, TerminateWithReason(p, e, s))
      BY <1>8 DEF MsgError, Dispatching, e, s
    <2>2. s \in e.media
      BY <1>4, <2>1 DEF SessionMsg
    <2>3. /\ Minds(p, e, TerminateWithReason(p, e, s), s, {}, {})
          /\ e.state[s] \notin Terminal =>
                 SetStanza(Remote(p, s), s, "terminate") \in TerminateWithReason(p, e, s).out
      BY <1>2, <2>2, EndMinds
    <2>4. Touches(p, e, TerminateWithReason(p, e, s), s, {}, Onward(e, s))
      BY <1>2, EndTouch
    <2>5. ep[p].state[s] \in Initiating => e.state[s] \notin Terminal
      BY <1>2 DEF Initiating, Terminal
    <2> QED BY <1>6, <2>1, <2>3, <2>4, <2>5
  <1>9. CASE MsgCheckAutoDestroy(p)
    <2>1. /\ Front(p).id = "MSG_CHECKAUTODESTROY"
          /\ Become(p, OnMsgCheckAutoDestroy(e, s))
      BY <1>9 DEF MsgCheckAutoDestroy, Dispatching, e, s
    <2>2. Registered(e, s)
      BY <1>2, <1>5
    <2> QED BY <1>2, <1>6, <2>1, <2>2, CheckAutoDestroyTouch, CheckAutoDestroyMinds
  <1>10. CASE MsgCleared(p)
    <2>1. Front(p).id = "CLEARED" /\ Become(p, e)
      BY <1>10 DEF MsgCleared, Dispatching, e
    <2>2. Touches(p, e, e, s, {}, {}) /\ Minds(p, e, e, s, {}, {})
      BY <1>2, TouchSame, MindsSame
    <2> QED BY <1>6, <2>1, <2>2
  <1>11. CASE MsgAcceptCall(p)
    <2>1. Front(p).id = "ACCEPT" /\ Become(p, AcceptCallS(p, e, s))
      BY <1>11 DEF MsgAcceptCall, Dispatching, e, s
    <2> QED BY <1>2, <1>6, <2>1, UserHandlersTouch, UserHandlersMinds
  <1>12. CASE MsgDeclineCall(p)
    <2>1. /\ Front(p).id \in {"DECLINE", "BUSY"}
          /\ Become(p, DeclineCallS(p, e, s, Front(p).id = "BUSY"))
      BY <1>12 DEF MsgDeclineCall, Dispatching, e, s
    <2> QED BY <1>2, <1>6, <2>1, UserHandlersTouch, UserHandlersMinds
  <1>13. CASE MsgEndCall(p)
    <2>1. Front(p).id = "END" /\ Become(p, EndCallS(p, e, s))
      BY <1>13 DEF MsgEndCall, Dispatching, e, s
    <2> QED BY <1>2, <1>6, <2>1, UserHandlersTouch, UserHandlersMinds
  <1>14. CASE MsgHoldCall(p)
    <2>1. /\ Front(p).id \in {"HOLD", "UNHOLD"}
          /\ Become(p, HoldCallS(e, s, Front(p).id = "HOLD"))
      BY <1>14 DEF MsgHoldCall, Dispatching, e, s
    <2> QED BY <1>2, <1>6, <2>1, UserHandlersTouch, UserHandlersMinds
  <1>15. CASE MsgIncomingSet(p)
    <2> DEFINE f == OnIncomingMessage(p, e, s, act)
               M == JoinBy(act, s)
               X == EndBy(act, s)
    <2>1. Front(p).id = "set" /\ Become(p, f)
      BY <1>15 DEF MsgIncomingSet, Dispatching, e, s, act
    <2>2. act \in Act
      BY <1>2, <1>3, <2>1 DEF MsgRouted, Kind
    <2>3. Touches(p, e, f, s, AckBy(act, s), Onward(e, s))
      BY <1>2, <2>2, IncomingMessageTouch
    <2>4. /\ Minds(p, e, f, s, M, X)
          /\ act = "terminate" => f.state[s] # "RECEIVEDINITIATE"
      BY <1>2, <2>2, IncomingMessageMinds
    <2>5. [to |-> p, sid |-> s, kind |-> "set", act |-> act] \in sent
      BY <1>2, <1>3, <2>1 DEF DInv, Carried, Kind
    <2> HIDE DEF f
    <2>6. ASSUME NEW r \in M
          PROVE  r = s /\ Joins(p, e, s)
      <3>1. r = s /\ act = "initiate"
        BY <2>6 DEF JoinBy
      <3>2. p = Responder[s] /\ Brings(Front(p), s, "initiate")
        BY <1>2, <1>3, <2>1, <3>1 DEF MsgRouted, Brings
      <3>3. Invited(ep[p].queue, s)
        BY <1>2, <3>2 DEF Invited
      <3>4. Invite(s) \notin net /\ Single(ep[p].queue, s)
        BY <1>2, <3>2, <3>3 DEF RInv, Once
      <3>5. ~Invited(e.queue, s)
        <4>1. ep[p] \in Endpoint
          BY DEF IInv
        <4>2. ep[p].queue \in Seq(QueueMsg) /\ e.queue = Tail(ep[p].queue)
          BY <1>3, <4>1 DEF Rest, Endpoint
        <4> QED BY <1>1, <3>2, <3>4, <4>2, TailOrder DEF Front
      <3> QED BY <3>1, <3>2, <3>3, <3>4, <3>5 DEF Joins, Coming
    <2>7. ASSUME NEW r \in X, p = Initiator[r]
          PROVE  ~Coming(r) /\ ~Ringing(r)
      <3>1. r = s /\ act \in {"accept", "terminate", "busy"}
        BY <2>7 DEF EndBy
      <3>2. Answer([to |-> p, sid |-> s, kind |-> "set", act |-> act], s)
        BY <2>7, <3>1 DEF Answer
      <3> QED BY <1>2, <2>5, <3>1, <3>2 DEF RInv, Settled
    <2>8. Brings(Front(p), s, "terminate") => f.state[s] # "RECEIVEDINITIATE"
      BY <1>3, <2>4 DEF Brings
    <2>9. Front(p).id # "MSG_ERROR"
      BY <2>1
    <2> HIDE DEF M, X
    <2> QED BY <1>1, <1>3, <2>1, <2>3, <2>4, <2>6, <2>7, <2>8, <2>9, HandlerRing
  <1>16. CASE MsgIncomingResponse(p)
    <2> DEFINE kind == Front(p).id
    <2>1. /\ kind \in {"result", "error", "wait"}
          /\ Become(p, OnResponse(p, e, s, kind, act))
      BY <1>16 DEF MsgIncomingResponse, Dispatching, e, s, act
    <2>2. act \in Act
      BY <1>2, <1>3, <2>1 DEF MsgRouted, Kind
    <2>3. PICK A, N : Touches(p, e, OnResponse(p, e, s, kind, act), s, A, N)
      BY <1>2, <2>2, ResponseTouch
    <2>4. Minds(p, e, OnResponse(p, e, s, kind, act), s, {}, {})
      BY <1>2, <2>2, ResponseMinds
    <2> QED BY <1>6, <2>1, <2>3, <2>4
  <1> QED BY <1>7, <1>8, <1>9, <1>10, <1>11, <1>12, <1>13, <1>14, <1>15, <1>16 DEF Dispatch

\* What placing a call leaves behind (CallS, Call::InitiateSession).
LEMMA CallFields ==
    ASSUME NEW p \in Peer, NEW e \in Endpoint, NEW s \in Sid, p = Initiator[s],
           e.state[s] = "NONE"
    PROVE  LET g == CallS(p, e, s, TRUE)
           IN  /\ g.state = [e.state EXCEPT ![s] = "SENTINITIATE"]
               /\ g.media = e.media \cup {s} /\ g.online = e.online
               /\ g.queue = Append(e.queue, Posted("MSG_STATE", s))
               /\ g.out = e.out \cup {Invite(s)}
               /\ e.timers \subseteq g.timers /\ <<"MSG_TERMINATECALL", s>> \in g.timers
  <1> DEFINE a == CreateSession(e, s)
             b == AddSession(a, s)
             c == [b EXCEPT !.timers = @ \cup {<<"MSG_INIT_ACK_TIMEOUT", s>>}]
             w == [c EXCEPT !.waiting = @ \cup {<<s, "initiate">>}]
             d == Put(p, w, s, "set", "initiate")
             f == SetState(d, s, "SENTINITIATE")
             g == [f EXCEPT !.timers = @ \cup {<<"MSG_TERMINATECALL", s>>}]
             m == Posted("MSG_STATE", s)
  <1>1. /\ {"INIT", "SENTINITIATE"} \subseteq State \ Terminal
        /\ "initiate" \in Act /\ "set" \in Kind
        /\ {"MSG_INIT_ACK_TIMEOUT", "MSG_TERMINATECALL"} \subseteq Timer
    BY DEF State, Terminal, Initiating, Act, Kind, Timer, SessionTimer
  <1>2. CallS(p, e, s, TRUE) = g
    BY DEF CallS, Initiate, SendMessage
  <1>3. [to |-> Remote(p, s), sid |-> s, kind |-> "set", act |-> "initiate"] = Invite(s)
    BY DEF Invite, SetStanza, Remote
  <1>4. e.state \in [Sid -> State]
    BY EndpointFields
  <1>5. /\ a \in Endpoint
        /\ a.state = [e.state EXCEPT ![s] = "INIT"] /\ a.media = e.media
        /\ a.online = e.online /\ a.queue = e.queue /\ a.out = e.out
        /\ a.timers = e.timers
    BY <1>1 DEF CreateSession, Endpoint
  <1> HIDE DEF a
  <1>6. a.calls \cup {s} \in SUBSET Sid /\ a.media \cup {s} \in SUBSET Sid
    BY <1>5, EndpointFields
  <1>7. /\ b \in Endpoint
        /\ b.state = a.state /\ b.media = a.media \cup {s}
        /\ b.online = a.online /\ b.queue = a.queue /\ b.out = a.out
        /\ b.timers = a.timers
    BY <1>5, <1>6 DEF AddSession, Endpoint
  <1> HIDE DEF b
  <1>8. b.timers \cup {<<"MSG_INIT_ACK_TIMEOUT", s>>} \in SUBSET (Timer \X Sid)
    BY <1>1, <1>7, EndpointFields
  <1>9. /\ c \in Endpoint
        /\ c.state = b.state /\ c.media = b.media
        /\ c.online = b.online /\ c.queue = b.queue /\ c.out = b.out
        /\ c.timers = b.timers \cup {<<"MSG_INIT_ACK_TIMEOUT", s>>}
    BY <1>7, <1>8 DEF Endpoint
  <1> HIDE DEF c
  <1>10. c.waiting \cup {<<s, "initiate">>} \in SUBSET (Sid \X Act)
    BY <1>1, <1>9, EndpointFields
  <1>11. /\ w \in Endpoint
         /\ w.state = c.state /\ w.media = c.media
         /\ w.online = c.online /\ w.queue = c.queue /\ w.out = c.out
         /\ w.timers = c.timers
    BY <1>9, <1>10 DEF Endpoint
  <1> HIDE DEF w
  <1>12. /\ d \in Endpoint
         /\ d.state = w.state /\ d.media = w.media
         /\ d.online = w.online /\ d.queue = w.queue
         /\ d.timers = w.timers /\ d.out = w.out \cup {Invite(s)}
    BY <1>1, <1>3, <1>11, PutFields
  <1> HIDE DEF d
  <1>13. d.state[s] # "SENTINITIATE"
    BY <1>4, <1>5, <1>7, <1>9, <1>11, <1>12
  <1>14. /\ f \in Endpoint
         /\ f.state = [d.state EXCEPT ![s] = "SENTINITIATE"]
         /\ f.media = d.media /\ f.out = d.out /\ f.online = d.online
         /\ f.queue = Append(d.queue, m) /\ f.timers = d.timers
    BY <1>1, <1>12, <1>13, SetStateFields
  <1> HIDE DEF f, m
  <1>15. f.timers \cup {<<"MSG_TERMINATECALL", s>>} \in SUBSET (Timer \X Sid)
    BY <1>1, <1>14, EndpointFields
  <1>16. /\ g.state = f.state /\ g.media = f.media /\ g.online = f.online
         /\ g.queue = f.queue /\ g.out = f.out
         /\ g.timers = f.timers \cup {<<"MSG_TERMINATECALL", s>>}
    BY <1>14, <1>15 DEF Endpoint
  <1> HIDE DEF g
  <1>17. g.state = [e.state EXCEPT ![s] = "SENTINITIATE"]
    BY <1>4, <1>5, <1>7, <1>9, <1>11, <1>12, <1>14, <1>16
  <1>18. /\ g.media = e.media \cup {s} /\ g.online = e.online
         /\ g.queue = Append(e.queue, m) /\ g.out = e.out \cup {Invite(s)}
    BY <1>5, <1>7, <1>9, <1>11, <1>12, <1>14, <1>16
  <1>19. e.timers \subseteq g.timers /\ <<"MSG_TERMINATECALL", s>> \in g.timers
    BY <1>5, <1>7, <1>9, <1>11, <1>12, <1>14, <1>16
  <1> QED BY <1>2, <1>17, <1>18, <1>19 DEF m

\* A call is placed: its sid is new to everybody.
LEMMA CallRings ==
    ASSUME IInv, DInv, RInv, NEW p \in Peer, MsgCall(p)
    PROVE  RInv'
  <1> DEFINE e == Rest(p)
             s == Front(p).sid
  <1>1. ep[p].queue # <<>> /\ Front(p).id = "CALL"
    BY DEF MsgCall, Dispatching
  <1>2. /\ s \in Sid /\ e \in Endpoint /\ e.state = ep[p].state
        /\ MsgRouted(p, Front(p), sent)
        /\ \E i \in DOMAIN ep[p].queue : Front(p) = ep[p].queue[i]
    BY <1>1, RestResumes DEF Resumes, QueueMsg
  <1>3. e = Rest(p) /\ s = Front(p).sid
    OBVIOUS
  <1> HIDE DEF e, s
  <1>4. PICK found \in BOOLEAN : Become(p, CallS(p, e, s, found))
    BY DEF MsgCall, e, s
  <1>5. CASE ~found
    <2>1. Become(p, e)
      BY <1>4, <1>5 DEF CallS
    <2>2. Touches(p, e, e, s, {}, {}) /\ Minds(p, e, e, s, {}, {})
      BY <1>2, TouchSame, MindsSame
    <2> DEFINE M == {}
    <2>3. Minds(p, e, e, s, M, M) /\ \A r \in M : FALSE
      BY <2>2
    <2> HIDE DEF M
    <2>4. ~Brings(Front(p), s, "terminate") /\ Front(p).id # "MSG_ERROR"
      BY <1>1 DEF Brings
    <2> QED BY <1>1, <1>3, <2>1, <2>2, <2>3, <2>4, HandlerRing
  <1>6. CASE found
    <2> DEFINE f == CallS(p, e, s, TRUE)
               m == Posted("MSG_STATE", s)
    <2>1. p = Initiator[s]
      BY <1>1, <1>2, <1>3 DEF MsgRouted
    <2>2. ~Used(s)
      BY <1>1, <1>2, <1>3 DEF DInv, Placed
    <2>3. \A q \in Peer : ~Keeps(ep[q], s)
      BY <1>2, <2>2 DEF DInv, Begun
    <2>4. \A q \in Peer : ep[q].state[s] = "NONE" /\ s \notin ep[q].media
      BY <2>3 DEF Keeps, IInv, Good, Decent, Owned
    <2>5. Become(p, f)
      BY <1>4, <1>6
    <2>27. e.state[s] = "NONE"
      BY <1>2, <2>4
    <2>6. /\ f.state = [e.state EXCEPT ![s] = "SENTINITIATE"]
          /\ f.media = e.media \cup {s} /\ f.online = e.online
          /\ f.queue = Append(e.queue, m) /\ f.out = e.out \cup {Invite(s)}
          /\ e.timers \subseteq f.timers /\ <<"MSG_TERMINATECALL", s>> \in f.timers
      <3>1. LET g == CallS(p, e, s, TRUE)
            IN  /\ g.state = [e.state EXCEPT ![s] = "SENTINITIATE"]
                /\ g.media = e.media \cup {s} /\ g.online = e.online
                /\ g.queue = Append(e.queue, Posted("MSG_STATE", s))
                /\ g.out = e.out \cup {Invite(s)}
                /\ e.timers \subseteq g.timers /\ <<"MSG_TERMINATECALL", s>> \in g.timers
        BY <1>2, <2>1, <2>27, CallFields
      <3> QED BY <3>1
    <2>7. f \in Endpoint
      BY <1>2, <2>1, CallTouch DEF Touches
    <2> HIDE DEF f
    <2>8. /\ ep'[p] = [f EXCEPT !.out = {}]
          /\ \A q \in Peer \ {p} : ep'[q] = ep[q]
          /\ net' = net \cup f.out
          /\ sent' = sent \cup f.out
      BY <2>5 DEF Become, IInv
    <2>9. /\ ep'[p].state = f.state /\ ep'[p].media = f.media
          /\ ep'[p].queue = f.queue /\ ep'[p].timers = f.timers
          /\ ep'[p].online = f.online
      BY <2>7, <2>8 DEF Endpoint
    <2>10. Resumed(p, e, f, s) /\ ep[p].online
      <3>1. ~Brings(Front(p), s, "terminate") /\ Front(p).id # "MSG_ERROR"
        BY <1>1 DEF Brings
      <3> QED BY <1>1, <1>3, <3>1, RestResumed
    <2>11. e.state = ep[p].state /\ e.media = ep[p].media /\ e.online = ep[p].online
           /\ e.out = {} /\ e.queue \in Seq(QueueMsg) /\ e.state \in [Sid -> State]
      BY <2>10, EndpointFields DEF Resumed
    <2>12. m \in QueueMsg /\ \A r : ~Brings(m, r, "initiate")
      BY <1>2, PostedType DEF SessionMsg, Posted, Brings
    <2>13. \A r \in Sid : Initiator[r] \in Peer /\ Responder[r] \in Peer /\ Initiator[r] # Responder[r]
      BY RouteAssumption
    <2>14. /\ net' = net \cup {Invite(s)} /\ sent' = sent \cup {Invite(s)}
           /\ Invite(s).sid = s /\ Invite(s).act = "initiate" /\ Invite(s).kind = "set"
      BY <2>6, <2>8, <2>11 DEF Invite, SetStanza
    <2> HIDE DEF m
    \* Of another session nothing gets worse.
    <2>15. ASSUME NEW r \in Sid
           PROVE  /\ Invited(f.queue, r) => Invited(ep[p].queue, r)
                  /\ Single(ep[p].queue, r) => Single(f.queue, r)
                  /\ r # s /\ Behind(ep[p].queue, r) => Behind(f.queue, r)
      <3>1. /\ Invited(f.queue, r) => Invited(e.queue, r)
            /\ Single(e.queue, r) => Single(f.queue, r)
            /\ Behind(e.queue, r) => Behind(f.queue, r)
        BY <2>6, <2>11, <2>12, AppendOrder
      <3> QED BY <2>10, <3>1 DEF Resumed
    <2>16. \A q \in Peer : ~Invited(ep[q].queue, s)
      BY <2>2 DEF Invited, Brings, DInv, Begun, Idle
    <2>17. ASSUME NEW q \in Peer, NEW r \in Sid
           PROVE  /\ Invited(ep'[q].queue, r) => Invited(ep[q].queue, r)
                  /\ Single(ep[q].queue, r) => Single(ep'[q].queue, r)
                  /\ r # s /\ Behind(ep[q].queue, r) => Behind(ep'[q].queue, r)
                  /\ ep'[q].online = ep[q].online
      <3>1. CASE q = p
        BY <2>6, <2>9, <2>11, <2>15, <3>1
      <3>2. CASE q # p
        BY <2>8, <3>2
      <3> QED BY <3>1, <3>2
    <2>28. ASSUME NEW r \in Sid
           PROVE  ep'[Responder[r]] = ep[Responder[r]] \/ (Responder[r] = p /\ r # s)
      BY <2>1, <2>8, <2>13
    <2>29. ASSUME NEW r \in Sid
           PROVE  /\ ep'[Responder[r]].state[r] = ep[Responder[r]].state[r]
                  /\ r \in ep'[Responder[r]].media => r \in ep[Responder[r]].media
      BY <2>6, <2>9, <2>11, <2>28
    <2>18. ASSUME NEW r \in Sid
           PROVE  Invite(r) \in net' <=> Invite(r) \in net \/ r = s
      <3>1. Invite(r).sid = r
        BY DEF Invite, SetStanza
      <3> QED BY <2>14, <3>1
    <2>19. Invite(s) \notin net
      BY <2>2, <2>14 DEF Used, IInv
    <2>20. ASSUME NEW r \in Sid, r # s, Coming(r)'
           PROVE  Coming(r)
      <3>1. Invite(r) \in net' \/ Invited(ep'[Responder[r]].queue, r)
        BY <2>20 DEF Coming, Invite, SetStanza
      <3> QED BY <2>13, <2>17, <2>18, <2>20, <3>1 DEF Coming
    <2>21. \A r \in Sid : Ringing(r)' => Ringing(r) /\ r # s
      <3>1. ASSUME NEW r \in Sid, ep'[Responder[r]].state[r] = "RECEIVEDINITIATE"
            PROVE  ep[Responder[r]].state[r] = "RECEIVEDINITIATE" /\ r # s
        <4>1. ep'[Responder[r]].state[r] = ep[Responder[r]].state[r]
          BY <2>29
        <4>2. r # s
          BY <2>4, <2>13, <3>1, <4>1
        <4> QED BY <3>1, <4>1, <4>2
      <3> QED BY <3>1 DEF Ringing
    <2>22. Parties'
      <3>1. ASSUME NEW q \in Peer, NEW r \in ep'[q].media
            PROVE  q \in {Initiator[r], Responder[r]}
        <4>1. CASE q = p
          BY <2>1, <2>6, <2>9, <2>11, <3>1, <4>1 DEF RInv, Parties
        <4>2. CASE q # p
          BY <2>8, <3>1, <4>2 DEF RInv, Parties
        <4> QED BY <4>1, <4>2
      <3> QED BY <3>1 DEF Parties
    <2>23. Once'
      <3>1. ASSUME NEW r \in Sid
            PROVE  /\ Invite(r) \in net' => ~Invited(ep'[Responder[r]].queue, r)
                   /\ Single(ep'[Responder[r]].queue, r)
                   /\ Coming(r)' => r \notin ep'[Responder[r]].media
        <4>1. Invite(r) \in net' => ~Invited(ep'[Responder[r]].queue, r)
          BY <2>13, <2>16, <2>17, <2>18 DEF RInv, Once
        <4>2. Single(ep'[Responder[r]].queue, r)
          BY <2>13, <2>17 DEF RInv, Once
        <4>3. r \notin ep[Responder[r]].media => r \notin ep'[Responder[r]].media
          BY <2>29
        <4>4. Coming(r)' => r \notin ep[Responder[r]].media
          BY <2>4, <2>13, <2>20 DEF RInv, Once
        <4> QED BY <4>1, <4>2, <4>3, <4>4
      <3> QED BY <3>1 DEF Once, Invite, SetStanza
    <2>24. Settled'
      <3>1. ASSUME NEW r \in Sid, NEW n \in sent', Answer(n, r)
            PROVE  ~Coming(r)' /\ ~Ringing(r)'
        <4>1. n \in sent /\ n.sid = r
          BY <2>14, <3>1 DEF Answer
        <4>2. r # s
          BY <2>2, <4>1 DEF Used
        <4> QED BY <2>20, <2>21, <3>1, <4>1, <4>2 DEF RInv, Settled
      <3> QED BY <3>1 DEF Settled, Answer
    <2>25. Guarded'
      <3>1. WillHangUp(ep'[p], s)
        BY <1>2, <2>6, <2>9, <2>11 DEF WillHangUp, Initiating
      <3>2. ASSUME NEW r \in Sid, r # s, ep'[Initiator[r]].online,
                   Ringing(r)' \/ (Coming(r)' /\ ep'[Responder[r]].online)
            PROVE  HungUp(r)' \/ WillHangUp(ep'[Initiator[r]], r)
        <4>1. HungUp(r) \/ WillHangUp(ep[Initiator[r]], r)
          BY <2>13, <2>17, <2>20, <2>21, <3>2 DEF RInv, Guarded
        <4>2. \/ Hangup(r) \in net'
              \/ Invite(r) \notin net' /\ Behind(ep'[Responder[r]].queue, r)
              => HungUp(r)'
          BY DEF HungUp, Invite, Hangup, SetStanza
        <4>3. HungUp(r) => HungUp(r)'
          BY <2>13, <2>14, <2>17, <2>18, <3>2, <4>2 DEF HungUp
        <4>4. CASE WillHangUp(ep[Initiator[r]], r) /\ Initiator[r] = p
          <5>1. WillHangUp(e, r) \/ Hangup(r) \in f.out
            BY <2>10, <4>4 DEF Resumed, Remote, Hangup
          <5>2. Hangup(r) \in f.out => HungUp(r)'
            BY <2>8, <4>2
          <5>3. ASSUME WillHangUp(e, r)
                PROVE  WillHangUp(ep'[p], r)
            <6>1. f.state[r] = e.state[r]
              BY <2>6, <2>11, <3>2
            <6>2. Pending(e, "MSG_ERROR", r) => Pending(f, "MSG_ERROR", r)
              BY <1>2, <2>6, <2>12, AppendMinds
            <6> QED BY <2>6, <2>9, <5>3, <6>1, <6>2 DEF WillHangUp, Pending
          <5> QED BY <4>4, <5>1, <5>2, <5>3
        <4>5. CASE WillHangUp(ep[Initiator[r]], r) /\ Initiator[r] # p
          BY <2>8, <2>13, <4>5
        <4> QED BY <4>1, <4>3, <4>4, <4>5
      <3> QED BY <2>1, <3>1, <3>2 DEF Guarded, WillHangUp, Pending
    <2>26. Offline'
      <3>1. ASSUME NEW q \in Peer, ~ep'[q].online
            PROVE  ep'[q] = ep[q] /\ ~ep[q].online
        <4>1. ep'[p].online
          BY <2>6, <2>9, <2>10, <2>11
        <4> QED BY <2>8, <3>1, <4>1
      <3> QED BY <3>1 DEF RInv, Offline
    <2> QED BY <2>22, <2>23, <2>24, <2>25, <2>26 DEF RInv
  <1> QED BY <1>5, <1>6

\* The client goes: it rings no more and promises no hang-up.
LEMMA DisconnectRing ==
    ASSUME IInv, RInv, NEW p \in Peer, Become(p, DisconnectS(ep[p]))
    PROVE  RInv'
  <1> DEFINE f == DisconnectS(ep[p])
  <1>1. /\ f.calls = {} /\ f.media = {} /\ f.queue = <<>> /\ f.waiting = {}
        /\ f.out = {} /\ f.online = FALSE
        /\ f.state = [s \in Sid |-> IF s \in ep[p].media THEN "NONE" ELSE ep[p].state[s]]
    BY DEF DisconnectS, IdleEndpoint
  <1>2. /\ DOMAIN f = DOMAIN IdleEndpoint
        /\ ep'[p] = [f EXCEPT !.out = {}]
        /\ \A q \in Peer \ {p} : ep'[q] = ep[q]
        /\ sent' = sent \cup f.out /\ net' = net \cup f.out
    BY DEF Become, IInv, DisconnectS, IdleEndpoint
  <1>3. /\ ep'[p].calls = {} /\ ep'[p].queue = <<>> /\ ep'[p].waiting = {}
        /\ ep'[p].media = {} /\ ep'[p].online = FALSE /\ ep'[p].state = f.state
        /\ sent' = sent /\ net' = net
    BY <1>1, <1>2 DEF IdleEndpoint
  <1>4. \A s \in Sid : f.state[s] \in {"NONE", "INIT"}
    BY <1>1 DEF IInv, Good, Registered, Found
  <1> HIDE DEF f
  <1>5. \A s \in Sid : Initiator[s] \in Peer /\ Responder[s] \in Peer
    BY RouteAssumption
  <1>6. DOMAIN <<>> = {}
    OBVIOUS
  <1>7. ASSUME NEW q \in Peer
        PROVE  \/ ep'[q] = ep[q]
               \/ /\ ep'[q].online = FALSE /\ ep'[q].queue = <<>> /\ ep'[q].media = {}
                  /\ ep'[q].calls = {} /\ ep'[q].waiting = {}
                  /\ \A s \in Sid : /\ ~Invited(ep'[q].queue, s) /\ Single(ep'[q].queue, s)
                                    /\ ep'[q].state[s] # "RECEIVEDINITIATE"
    <2>1. CASE q = p
      BY <1>3, <1>4, <1>6, <2>1 DEF Invited, Single
    <2>2. CASE q # p
      BY <1>2, <2>2
    <2> QED BY <2>1, <2>2
  <1>8. ASSUME NEW s \in Sid
        PROVE  /\ Coming(s)' => Coming(s)
               /\ Ringing(s)' => Ringing(s)
    <2>1. Coming(s)' => Invite(s) \in net \/ Invited(ep'[Responder[s]].queue, s)
      BY <1>3 DEF Coming, Invite, SetStanza
    <2>2. Ringing(s)' => ep'[Responder[s]].state[s] = "RECEIVEDINITIATE"
      BY DEF Ringing
    <2> QED BY <1>5, <1>7, <2>1, <2>2 DEF Coming, Ringing
  <1>9. Parties'
    BY <1>7 DEF RInv, Parties
  <1>10. Once'
    <2>1. ASSUME NEW s \in Sid
          PROVE  /\ Invite(s) \in net' => ~Invited(ep'[Responder[s]].queue, s)
                 /\ Single(ep'[Responder[s]].queue, s)
                 /\ Coming(s)' => s \notin ep'[Responder[s]].media
      BY <1>3, <1>5, <1>7, <1>8 DEF RInv, Once
    <2> QED BY <2>1 DEF Once, Invite, SetStanza
  <1>11. Settled'
    BY <1>3, <1>8 DEF RInv, Settled, Answer
  <1>12. Guarded'
    <2>1. ASSUME NEW s \in Sid, ep'[Initiator[s]].online,
                 Ringing(s)' \/ (Coming(s)' /\ ep'[Responder[s]].online)
          PROVE  HungUp(s)' \/ WillHangUp(ep'[Initiator[s]], s)
      <3>1. ep'[Initiator[s]] = ep[Initiator[s]]
        BY <1>5, <1>7, <2>1
      <3>2. ep'[Responder[s]] = ep[Responder[s]]
        <4>1. Ringing(s)' => ep'[Responder[s]].state[s] = "RECEIVEDINITIATE"
          BY DEF Ringing
        <4> QED BY <1>5, <1>7, <2>1, <4>1
      <3>3. HungUp(s) \/ WillHangUp(ep[Initiator[s]], s)
        BY <1>8, <2>1, <3>1, <3>2 DEF RInv, Guarded
      <3>4. HungUp(s) => HungUp(s)'
        BY <1>3, <3>2 DEF HungUp, Invite, Hangup, SetStanza
      <3> QED BY <3>1, <3>3, <3>4
    <2> QED BY <2>1 DEF Guarded, WillHangUp, Pending
  <1>13. Offline'
    BY <1>7 DEF RInv, Offline
  <1> QED BY <1>9, <1>10, <1>11, <1>12, <1>13 DEF RInv

\* A timer of a session, a failed send or a change of its transport.
LEMMA TimerRing ==
    ASSUME IInv, RInv, NEW p \in Peer, ep[p].online, NEW s \in Sid, NEW e \in Endpoint,
           e.state = ep[p].state, e.media = ep[p].media, e.online = ep[p].online,
           e.out = {}, e.queue = ep[p].queue,
           NEW f \in Endpoint, Queues(e, f, s), Minds(p, e, f, s, {}, {}),
           \A r \in Sid : WillHangUp(ep[p], r) =>
               \/ WillHangUp(e, r)
               \/ SetStanza(Remote(p, r), r, "terminate") \in f.out,
           Become(p, f)
    PROVE  RInv'
  <1> DEFINE M == {}
  <1>1. Resumed(p, e, f, s)
    BY SameResumed
  <1>2. Minds(p, e, f, s, M, M) /\ \A r \in M : FALSE
    OBVIOUS
  <1> HIDE DEF M
  <1> QED BY <1>1, <1>2, BecomeRing

LEMMA TimersFields ==
    ASSUME IInv, NEW p \in Peer, NEW T, T \subseteq Timer \X Sid
    PROVE  LET e == [ep[p] EXCEPT !.timers = T]
           IN  /\ e \in Endpoint
               /\ e.state = ep[p].state /\ e.media = ep[p].media
               /\ e.online = ep[p].online /\ e.out = {}
               /\ e.queue = ep[p].queue /\ e.timers = T
  <1>1. ep[p] \in Endpoint /\ ep[p].out = {}
    BY DEF IInv
  <1> QED BY <1>1 DEF Endpoint

LEMMA TimeoutsRing ==
    ASSUME IInv, RInv, NEW p \in Peer, NEW s \in Sid, Timeouts(p, s)
    PROVE  RInv'
  <1>1. /\ ep[p] \in Endpoint /\ ep[p].timers \subseteq Timer \X Sid
        /\ Owned(ep[p]) /\ Timed(p, ep[p]) /\ ep[p].out = {} /\ Registered(ep[p], s)
    BY EndpointFields DEF IInv, Good, Decent
  <1>2. ASSUME NEW t \in SessionTimer, <<t, s>> \in ep[p].timers, NEW err \in Error,
               Become(p, SetError([ep[p] EXCEPT !.timers = @ \ {<<t, s>>}], s, err))
        PROVE  RInv'
    <2> DEFINE T == ep[p].timers \ {<<t, s>>}
               e == [ep[p] EXCEPT !.timers = T]
               f == SetError(e, s, err)
    <2>1. ep[p].online
      BY <1>1, <1>2 DEF Owned, RInv, Offline
    <2>2. /\ e \in Endpoint
          /\ e.state = ep[p].state /\ e.media = ep[p].media
          /\ e.online = ep[p].online /\ e.out = {}
          /\ e.queue = ep[p].queue /\ e.timers = T
      BY <1>1, TimersFields
    <2>3. Become(p, f)
      BY <1>2
    <2>4. \A r \in Sid : <<"MSG_TERMINATECALL", r>> \in ep[p].timers =>
              <<"MSG_TERMINATECALL", r>> \in T
      BY <1>2 DEF SessionTimer
    <2> HIDE DEF e, T
    <2>5. \A r \in Sid : WillHangUp(ep[p], r) => WillHangUp(e, r)
      BY <2>2, <2>4 DEF WillHangUp, Pending
    <2>6. Touches(p, e, f, s, {}, Onward(e, s)) /\ Minds(p, e, f, s, {}, {})
      BY <1>2, <2>2, SetErrorTouch, SetErrorMinds
    <2>7. f \in Endpoint /\ Queues(e, f, s)
      BY <2>6 DEF Touches
    <2> HIDE DEF f
    <2> QED BY <2>1, <2>2, <2>3, <2>5, <2>6, <2>7, TimerRing
  <1>3. CASE SessionTimeout(p, s)
    BY <1>2, <1>3 DEF SessionTimeout, SessionTimer, Error
  <1>4. CASE InitAckTimeout(p, s)
    BY <1>2, <1>4 DEF InitAckTimeout, SessionTimer, Error
  <1>5. CASE NoAnswerTimeout(p, s)
    <2> DEFINE T == ep[p].timers \ {<<"MSG_TERMINATECALL", s>>}
               e == [ep[p] EXCEPT !.timers = T]
               f == CallTerminate(p, e, s)
    <2>1. ep[p].online
      BY <1>1, <1>5 DEF NoAnswerTimeout, Timed, RInv, Offline
    <2>2. /\ e \in Endpoint
          /\ e.state = ep[p].state /\ e.media = ep[p].media
          /\ e.online = ep[p].online /\ e.out = {}
          /\ e.queue = ep[p].queue /\ e.timers = T
      BY <1>1, TimersFields
    <2>3. Become(p, f)
      BY <1>5 DEF NoAnswerTimeout
    <2>4. \A r \in Sid : r # s /\ <<"MSG_TERMINATECALL", r>> \in ep[p].timers =>
              <<"MSG_TERMINATECALL", r>> \in T
      OBVIOUS
    <2> HIDE DEF e, T
    <2>5. ASSUME NEW r \in Sid, WillHangUp(ep[p], r)
          PROVE  \/ WillHangUp(e, r)
                 \/ SetStanza(Remote(p, r), r, "terminate") \in f.out
      <3>1. CASE r # s
        BY <2>2, <2>4, <2>5, <3>1 DEF WillHangUp, Pending
      <3>2. CASE r = s
        <4>1. e.state[s] \in Initiating /\ s \in e.media
          BY <1>1, <2>2, <2>5, <3>2 DEF WillHangUp, Registered, Found, Initiating
        <4>2. f = TerminateWithReason(p, e, s) /\ e.state[s] \notin Terminal
          BY <4>1 DEF CallTerminate, Initiating, Terminal
        <4> QED BY <2>2, <3>2, <4>1, <4>2, EndMinds
      <3> QED BY <3>1, <3>2
    <2>6. Touches(p, e, f, s, {}, Onward(e, s)) /\ Minds(p, e, f, s, {}, {})
      BY <2>2, UserHandlersTouch, UserHandlersMinds
    <2>7. f \in Endpoint /\ Queues(e, f, s)
      BY <2>6 DEF Touches
    <2> HIDE DEF f
    <2> QED BY <2>1, <2>2, <2>3, <2>5, <2>6, <2>7, TimerRing
  <1>6. ASSUME NEW act \in Act, SendTimeout(p, s, act)
        PROVE  RInv'
    <2> DEFINE e == ep[p]
               f == OnResponse(p, e, s, "error", act)
    <2>1. ep[p].online
      BY <1>6 DEF SendTimeout, RInv, Offline
    <2>2. Become(p, f)
      BY <1>6 DEF SendTimeout
    <2>3. PICK A, N : Touches(p, e, f, s, A, N)
      BY <1>1, ResponseTouch
    <2>4. Minds(p, e, f, s, {}, {})
      BY <1>1, ResponseMinds
    <2>5. f \in Endpoint /\ Queues(e, f, s)
      BY <2>3 DEF Touches
    <2>6. e \in Endpoint /\ e = ep[p] /\ e.out = {}
      BY <1>1
    <2> HIDE DEF e, f
    <2> QED BY <2>1, <2>2, <2>4, <2>5, <2>6, TimerRing
  <1> QED BY <1>3, <1>4, <1>5, <1>6 DEF Timeouts

LEMMA TransportRing ==
    ASSUME IInv, RInv, NEW p \in Peer, NEW s \in Sid, Transport(p, s)
    PROVE  RInv'
  <1>1. /\ ep[p] \in Endpoint /\ ep[p].timers \subseteq Timer \X Sid
        /\ ep[p].media \subseteq ep[p].calls /\ ep[p].out = {}
    BY EndpointFields DEF IInv, Good, Decent, Owned
  <1>2. ep[p].online
    BY <1>1 DEF Transport, OnTransportWritable, OnCandidatesReady, RInv, Offline
  <1>3. ASSUME NEW f \in Endpoint, f.queue = ep[p].queue, Minds(p, ep[p], f, s, {}, {}),
               Become(p, f)
        PROVE  RInv'
    <2>1. Queues(ep[p], f, s)
      BY <1>3 DEF Queues
    <2> DEFINE e == ep[p]
    <2>2. e \in Endpoint /\ e = ep[p] /\ e.out = {}
      BY <1>1
    <2> HIDE DEF e
    <2> QED BY <1>2, <1>3, <2>1, <2>2, TimerRing
  <1>4. CASE \E writable \in BOOLEAN : OnTransportWritable(p, s, writable)
    <2> DEFINE T1 == ep[p].timers \ {<<"MSG_TIMEOUT", s>>}
               T2 == ep[p].timers \cup {<<"MSG_TIMEOUT", s>>}
    <2>1. Become(p, [ep[p] EXCEPT !.timers = T1]) \/ Become(p, [ep[p] EXCEPT !.timers = T2])
      BY <1>4 DEF OnTransportWritable
    <2>2. \A T \in {T1, T2} :
              /\ T \subseteq Timer \X Sid
              /\ \A r \in Sid : <<"MSG_TERMINATECALL", r>> \in ep[p].timers =>
                     <<"MSG_TERMINATECALL", r>> \in T
      BY <1>1 DEF Timer, SessionTimer
    <2> HIDE DEF T1, T2
    <2>3. ASSUME NEW T, T \subseteq Timer \X Sid, Become(p, [ep[p] EXCEPT !.timers = T]),
                 \A r \in Sid : <<"MSG_TERMINATECALL", r>> \in ep[p].timers =>
                     <<"MSG_TERMINATECALL", r>> \in T
          PROVE  RInv'
      <3> DEFINE f == [ep[p] EXCEPT !.timers = T]
      <3>1. /\ f \in Endpoint
            /\ f.state = ep[p].state /\ f.media = ep[p].media
            /\ f.online = ep[p].online /\ f.out = {}
            /\ f.queue = ep[p].queue /\ f.timers = T
        BY <2>3, TimersFields
      <3>2. Become(p, f)
        BY <2>3
      <3> HIDE DEF f
      <3>3. Minds(p, ep[p], f, s, {}, {})
        BY <1>1, <2>3, <3>1, MindsSame
      <3> QED BY <1>3, <3>1, <3>2, <3>3
    <2> QED BY <2>1, <2>2, <2>3
  <1>5. CASE OnCandidatesReady(p, s)
    <2>1. ASSUME NEW c \in {"unsent", "sent"}, NEW e, e = [ep[p] EXCEPT !.cands[s] = c]
          PROVE  /\ e \in Endpoint /\ Minds(p, ep[p], e, s, {}, {})
                 /\ e.queue = ep[p].queue
      <3>1. ep[p].cands \in [Sid -> {"none", "unsent", "sent"}]
        BY <1>1, EndpointFields
      <3>2. /\ e \in Endpoint
            /\ e.state = ep[p].state /\ e.media = ep[p].media /\ e.out = ep[p].out
            /\ e.online = ep[p].online /\ e.timers = ep[p].timers
            /\ e.queue = ep[p].queue
        BY <1>1, <2>1, <3>1 DEF Endpoint
      <3> QED BY <3>2, MindsSame
    <2>2. CASE p = Initiator[s] /\ s \notin ep[p].acked
      <3>1. Become(p, [ep[p] EXCEPT !.cands[s] = "unsent"])
        BY <1>5, <2>2 DEF OnCandidatesReady
      <3> QED BY <1>3, <2>1, <3>1
    <2>3. CASE ~(p = Initiator[s] /\ s \notin ep[p].acked)
      <3> DEFINE e == [ep[p] EXCEPT !.cands[s] = "sent"]
                 f == Put(p, e, s, "set", "info")
      <3>1. Become(p, f)
        BY <1>5, <2>3 DEF OnCandidatesReady
      <3>2. e \in Endpoint /\ Minds(p, ep[p], e, s, {}, {}) /\ e.queue = ep[p].queue
        BY <2>1
      <3> HIDE DEF e
      <3>3. f \in Endpoint /\ f.queue = e.queue /\ Minds(p, e, f, s, {}, {})
        BY <3>2, PutFields, PutMinds DEF Kind, Act
      <3> HIDE DEF f
      <3>4. Minds(p, ep[p], f, s, {}, {})
        BY <3>2, <3>3, MindsTrans
      <3> QED BY <1>3, <3>1, <3>2, <3>3, <3>4
    <2> QED BY <2>2, <2>3
  <1> QED BY <1>4, <1>5 DEF Transport

\* A message from outside comes into the queue.  An initiate and a terminate
\* were on their way, and nothing of the kind is left there.
LEMMA AppendRing ==
    ASSUME IInv, RInv, NEW p \in Peer, ep[p].online, NEW m \in QueueMsg,
           ep' = [ep EXCEPT ![p].queue = Append(@, m)], sent' = sent, net' \subseteq net,
           \A r \in Sid : Brings(m, r, "initiate") =>
               p = Responder[r] /\ Invite(r) \in net /\ Invite(r) \notin net',
           \A r \in Sid : Hangup(r) \in net =>
               \/ Hangup(r) \in net'
               \/ p = Responder[r] /\ Brings(m, r, "terminate") /\ Invite(r) \notin net
    PROVE  RInv'
  <1>1. ep[p] \in Endpoint /\ ep[p].queue \in Seq(QueueMsg)
    BY EndpointFields DEF IInv
  <1>2. /\ \A q \in Peer \ {p} : ep'[q] = ep[q]
        /\ ep'[p] = [ep[p] EXCEPT !.queue = Append(ep[p].queue, m)]
    BY DEF IInv
  <1>3. ep'[p].queue = Append(ep[p].queue, m)
    BY <1>1, <1>2 DEF Endpoint
  <1>4. ASSUME NEW q \in Peer
        PROVE  /\ ep'[q].state = ep[q].state /\ ep'[q].calls = ep[q].calls
               /\ ep'[q].media = ep[q].media /\ ep'[q].waiting = ep[q].waiting
               /\ ep'[q].online = ep[q].online /\ ep'[q].timers = ep[q].timers
               /\ \A id, r : Pending(ep[q], id, r) => Pending(ep'[q], id, r)
    <2>1. CASE q = p
      <3>1. /\ ep'[q].state = ep[q].state /\ ep'[q].calls = ep[q].calls
            /\ ep'[q].media = ep[q].media /\ ep'[q].waiting = ep[q].waiting
            /\ ep'[q].online = ep[q].online /\ ep'[q].timers = ep[q].timers
        BY <1>1, <1>2, <2>1 DEF Endpoint
      <3>2. \A id, r : Pending(ep[p], id, r) => Pending(ep'[p], id, r)
        BY <1>1, <1>3, AppendPending
      <3> QED BY <2>1, <3>1, <3>2
    <2>2. CASE q # p
      BY <1>2, <2>2
    <2> QED BY <2>1, <2>2
  <1>5. \A r \in Sid : Initiator[r] \in Peer /\ Responder[r] \in Peer
    BY RouteAssumption
  <1>6. ASSUME NEW r \in Sid, Brings(m, r, "initiate")
        PROVE  /\ Single(ep'[p].queue, r) /\ Coming(r)
    <2>1. ~Invited(ep[p].queue, r) /\ Coming(r)
      BY <1>6 DEF RInv, Once, Coming
    <2> QED BY <1>1, <1>3, <2>1, AppendOrder
  <1>7. ASSUME NEW r \in Sid, ~Brings(m, r, "initiate")
        PROVE  /\ Invited(ep'[p].queue, r) => Invited(ep[p].queue, r)
               /\ Single(ep[p].queue, r) => Single(ep'[p].queue, r)
               /\ Behind(ep[p].queue, r) => Behind(ep'[p].queue, r)
               /\ Brings(m, r, "terminate") => Behind(ep'[p].queue, r)
    BY <1>1, <1>3, <1>7, AppendOrder
  <1>8. ASSUME NEW r \in Sid, Coming(r)'
        PROVE  Coming(r)
    <2>1. Invite(r) \in net' \/ Invited(ep'[Responder[r]].queue, r)
      BY <1>8 DEF Coming, Invite, SetStanza
    <2>2. CASE Invite(r) \in net'
      BY <2>2 DEF Coming
    <2>3. CASE Responder[r] = p /\ Invited(ep'[p].queue, r)
      BY <1>6, <1>7, <2>3 DEF Coming
    <2>4. CASE Responder[r] # p /\ Invited(ep'[Responder[r]].queue, r)
      BY <1>2, <1>5, <2>4 DEF Coming
    <2> QED BY <2>1, <2>2, <2>3, <2>4
  <1>9. \A r \in Sid : Ringing(r)' => Ringing(r)
    <2>1. \A r \in Sid : ep'[Responder[r]].state = ep[Responder[r]].state
      BY <1>4, <1>5
    <2> QED BY <2>1 DEF Ringing
  <1>10. Parties'
    BY <1>4 DEF RInv, Parties
  <1>11. Once'
    <2>1. ASSUME NEW r \in Sid
          PROVE  /\ Invite(r) \in net' => ~Invited(ep'[Responder[r]].queue, r)
                 /\ Single(ep'[Responder[r]].queue, r)
                 /\ Coming(r)' => r \notin ep'[Responder[r]].media
      <3>1. /\ Invite(r) \in net => ~Invited(ep[Responder[r]].queue, r)
            /\ Single(ep[Responder[r]].queue, r)
            /\ Coming(r) => r \notin ep[Responder[r]].media
        BY DEF RInv, Once
      <3>2. Coming(r)' => r \notin ep'[Responder[r]].media
        BY <1>4, <1>5, <1>8, <3>1
      <3>3. CASE Responder[r] # p
        BY <1>2, <1>5, <3>1, <3>2, <3>3
      <3>4. CASE Responder[r] = p /\ Brings(m, r, "initiate")
        BY <1>6, <3>2, <3>4
      <3>5. CASE Responder[r] = p /\ ~Brings(m, r, "initiate")
        BY <1>7, <3>1, <3>2, <3>5
      <3> QED BY <3>3, <3>4, <3>5
    <2> QED BY <2>1 DEF Once, Invite, SetStanza
  <1>12. Settled'
    BY <1>8, <1>9 DEF RInv, Settled, Answer
  <1>13. Guarded'
    <2>1. ASSUME NEW r \in Sid, ep'[Initiator[r]].online,
                 Ringing(r)' \/ (Coming(r)' /\ ep'[Responder[r]].online)
          PROVE  HungUp(r)' \/ WillHangUp(ep'[Initiator[r]], r)
      <3>1. HungUp(r) \/ WillHangUp(ep[Initiator[r]], r)
        BY <1>4, <1>5, <1>8, <1>9, <2>1 DEF RInv, Guarded
      <3>2. \/ Hangup(r) \in net'
            \/ Invite(r) \notin net' /\ Behind(ep'[Responder[r]].queue, r)
            => HungUp(r)'
        BY DEF HungUp, Invite, Hangup, SetStanza
      <3>3. CASE Hangup(r) \in net
        <4>1. CASE p = Responder[r] /\ Brings(m, r, "terminate") /\ Invite(r) \notin net
          <5>1. ~Brings(m, r, "initiate") /\ Invite(r) \notin net'
            BY <4>1 DEF Brings
          <5> QED BY <1>7, <3>2, <4>1, <5>1
        <4> QED BY <3>2, <3>3, <4>1
      <3>4. CASE Invite(r) \notin net /\ Behind(ep[Responder[r]].queue, r)
        <4>1. ~Brings(m, r, "initiate") /\ Invite(r) \notin net'
          BY <3>4
        <4>2. Behind(ep'[Responder[r]].queue, r)
          BY <1>2, <1>5, <1>7, <3>4, <4>1
        <4> QED BY <3>2, <4>1, <4>2
      <3>5. WillHangUp(ep[Initiator[r]], r) => WillHangUp(ep'[Initiator[r]], r)
        BY <1>4, <1>5 DEF WillHangUp
      <3> QED BY <3>1, <3>3, <3>4, <3>5 DEF HungUp
    <2> QED BY <2>1 DEF Guarded, WillHangUp, Pending
  <1>14. Offline'
    <2>1. ASSUME NEW q \in Peer, ~ep'[q].online
          PROVE  ep'[q] = ep[q] /\ ~ep[q].online
      BY <1>2, <1>4, <2>1
    <2> QED BY <2>1 DEF RInv, Offline
  <1> QED BY <1>10, <1>11, <1>12, <1>13, <1>14 DEF RInv

LEMMA UserCommandRing ==
    ASSUME IInv, RInv, NEW p \in Peer, NEW s \in Sid, NEW c \in Command,
           UserCommand(p, c, s)
    PROVE  RInv'
  <1> DEFINE m == Posted(c, s)
  <1>1. m \in QueueMsg /\ m.id = c
    BY PostedType DEF Posted
  <1>2. ep[p] \in Endpoint /\ ep[p].out = {} /\ ep[p].queue \in Seq(QueueMsg)
    BY EndpointFields DEF IInv
  <1>3. /\ ep' = [ep EXCEPT ![p].queue = Append(@, m)]
        /\ sent' = sent /\ net' = net
    <2>1. Become(p, [ep[p] EXCEPT !.queue = Append(@, m)])
      BY DEF UserCommand, Post, m
    <2>2. [[ep[p] EXCEPT !.queue = Append(@, m)] EXCEPT !.out = {}]
             = [ep[p] EXCEPT !.queue = Append(@, m)]
      BY <1>2 DEF Endpoint
    <2>3. [ep[p] EXCEPT !.queue = Append(@, m)].out = {}
      BY <1>2 DEF Endpoint
    <2> QED BY <2>1, <2>2, <2>3 DEF Become
  <1>4. ep[p].online
    BY DEF UserCommand, Disconnecting
  <1>5. c # "set"
    BY DEF Command
  <1> HIDE DEF m
  <1>6. \A r : ~Brings(m, r, "initiate")
    BY <1>1, <1>5 DEF Brings
  <1> QED BY <1>1, <1>3, <1>4, <1>6, AppendRing

\* The server that neither loses, nor repeats an initiate, nor lets a terminate
\* overtake one.
LEMMA ServerRing ==
    ASSUME IInv, RInv, Reliable, NEW m \in sent, Server(m)
    PROVE  RInv'
  <1>1. m \in Stanza /\ StanzaRouted(m)
    BY DEF IInv
  <1>2. "initiate" \notin Again /\ "reorder" \notin Env /\ "loss" \notin Env
    BY DEF Reliable
  <1>3. CASE Arrive(m)
    <2> DEFINE n == [id |-> m.kind, sid |-> m.sid, act |-> m.act]
               p == m.to
    <2>1. p \in Peer /\ n \in QueueMsg /\ n.id = m.kind /\ n.sid = m.sid /\ n.act = m.act
      BY <1>1 DEF Stanza, QueueMsg
    <2>2. /\ ep' = [ep EXCEPT ![p].queue = Append(@, n)] /\ sent' = sent
          /\ net' = net \ {m} /\ ep[p].online
          /\ m \in net \/ m.act \in Again
          /\ ~Overtakes(m)
      BY <1>2, <1>3 DEF Arrive
    <2>3. m = [to |-> p, sid |-> n.sid, kind |-> n.id, act |-> n.act]
      BY <1>1 DEF Stanza
    <2> HIDE DEF n
    <2>4. ASSUME NEW r \in Sid, Brings(n, r, "initiate")
          PROVE  p = Responder[r] /\ Invite(r) \in net /\ Invite(r) \notin net'
      <3>1. m.kind = "set" /\ m.act = "initiate" /\ m.sid = r
        BY <2>1, <2>4 DEF Brings
      <3>2. p = Responder[r]
        BY <1>1, <3>1 DEF StanzaRouted
      <3>3. m = Invite(r)
        BY <2>1, <2>3, <3>1, <3>2 DEF Invite, SetStanza
      <3> QED BY <1>2, <2>2, <3>1, <3>2, <3>3
    <2>5. ASSUME NEW r \in Sid, Hangup(r) \in net, Hangup(r) \notin net'
          PROVE  p = Responder[r] /\ Brings(n, r, "terminate") /\ Invite(r) \notin net
      <3>1. m = Hangup(r)
        BY <2>2, <2>5
      <3>2. m.to = Responder[r] /\ m.sid = r /\ m.kind = "set" /\ m.act = "terminate"
        BY <3>1 DEF Hangup, SetStanza
      <3>3. /\ Invite(r).to = m.to /\ Invite(r).sid = m.sid /\ Invite(r).kind = "set"
            /\ Invite(r).act = "initiate"
        BY <3>2 DEF Invite, SetStanza
      <3>4. Invite(r) \notin net
        BY <2>2, <3>2, <3>3 DEF Overtakes, Final
      <3> QED BY <2>1, <3>2, <3>4 DEF Brings
    <2> HIDE DEF p
    <2> QED BY <2>1, <2>2, <2>4, <2>5, AppendRing
  <1>4. CASE \E kind \in {"error", "wait"} : Bounce(m, kind)
    <2>1. PICK kind \in {"error", "wait"} : Bounce(m, kind)
      BY <1>4
    <2> DEFINE b == [m EXCEPT !.to = Remote(m.to, m.sid), !.kind = kind]
    <2>2. b.kind # "set"
      BY <1>1 DEF Stanza
    <2>3. /\ ep' = ep /\ ~ep[m.to].online
          /\ net \ {m} \subseteq net' /\ net' \subseteq net \cup {b}
          /\ sent \subseteq sent' /\ sent' \subseteq sent \cup {b}
      BY <2>1 DEF Bounce
    <2> HIDE DEF b
    <2>4. ASSUME NEW r \in Sid
          PROVE  /\ Invite(r) \in net' => Invite(r) \in net
                 /\ Hangup(r) \in net /\ Hangup(r) \notin net' =>
                        ~ep[Responder[r]].online
      <3>1. Invite(r).kind = "set" /\ Hangup(r).to = Responder[r]
        BY DEF Invite, Hangup, SetStanza
      <3> QED BY <2>2, <2>3, <3>1
    <2>5. ASSUME NEW r \in Sid
          PROVE  /\ Coming(r)' => Coming(r)
                 /\ Ringing(r)' => Ringing(r)
      <3>1. Coming(r)' => Invite(r) \in net' \/ Invited(ep[Responder[r]].queue, r)
        BY <2>3 DEF Coming, Invite, SetStanza
      <3> QED BY <2>3, <2>4, <3>1 DEF Coming, Ringing
    <2>6. Parties' /\ Offline'
      BY <2>3 DEF RInv, Parties, Offline
    <2>7. Once'
      <3>1. ASSUME NEW r \in Sid
            PROVE  /\ Invite(r) \in net' => ~Invited(ep'[Responder[r]].queue, r)
                   /\ Single(ep'[Responder[r]].queue, r)
                   /\ Coming(r)' => r \notin ep'[Responder[r]].media
        BY <2>3, <2>4, <2>5 DEF RInv, Once
      <3> QED BY <3>1 DEF Once, Invite, SetStanza
    <2>8. Settled'
      <3>1. ASSUME NEW r \in Sid, NEW n \in sent', Answer(n, r)
            PROVE  ~Coming(r)' /\ ~Ringing(r)'
        <4>1. n \in sent
          BY <2>2, <2>3, <3>1 DEF Answer
        <4> QED BY <2>5, <3>1, <4>1 DEF RInv, Settled
      <3> QED BY <3>1 DEF Settled, Answer
    <2>9. Guarded'
      <3>1. ASSUME NEW r \in Sid, ep'[Initiator[r]].online,
                   Ringing(r)' \/ (Coming(r)' /\ ep'[Responder[r]].online)
            PROVE  HungUp(r)' \/ WillHangUp(ep'[Initiator[r]], r)
        <4>1. HungUp(r) \/ WillHangUp(ep[Initiator[r]], r)
          BY <2>3, <2>5, <3>1 DEF RInv, Guarded
        <4>2. ep[Responder[r]].online
          <5>1. CASE Ringing(r)
            <6>1. Responder[r] \in Peer
              BY RouteAssumption
            <6>2. r \in ep[Responder[r]].media
              BY <5>1, <6>1 DEF Ringing, IInv, Good, Registered, Found
            <6>3. r \in ep[Responder[r]].calls
              BY <6>1, <6>2 DEF IInv, Good, Decent, Owned
            <6> QED BY <6>1, <6>3 DEF RInv, Offline
          <5> QED BY <2>3, <2>5, <3>1, <5>1
        <4>3. HungUp(r) => HungUp(r)'
          BY <2>3, <2>4, <4>2 DEF HungUp, Invite, Hangup, SetStanza
        <4> QED BY <2>3, <4>1, <4>3
      <3> QED BY <3>1 DEF Guarded, WillHangUp, Pending
    <2> QED BY <2>6, <2>7, <2>8, <2>9 DEF RInv
  <1> QED BY <1>2, <1>3, <1>4 DEF Server, Lose

-----------------------------------------------------------------------------
(* The theorem *)

LEMMA InitRing ==
    Init => RInv
  <1> SUFFICES ASSUME Init
               PROVE  RInv
    OBVIOUS
  <1>1. \A p \in Peer : /\ ep[p].queue = <<>> /\ ep[p].media = {} /\ ep[p].online
                        /\ \A s \in Sid : ep[p].state[s] = "NONE"
    BY DEF Init, IdleEndpoint
  <1>2. sent = {} /\ net = {}
    BY DEF Init
  <1>3. \A s \in Sid : Initiator[s] \in Peer /\ Responder[s] \in Peer
    BY RouteAssumption
  <1>4. DOMAIN <<>> = {}
    OBVIOUS
  <1>5. \A s \in Sid : ~Coming(s) /\ ~Ringing(s) /\ Single(ep[Responder[s]].queue, s)
    BY <1>1, <1>2, <1>3, <1>4 DEF Coming, Ringing, Invited, Single
  <1>6. Parties /\ Settled /\ Offline
    BY <1>1, <1>2 DEF Parties, Settled, Offline
  <1>7. Once /\ Guarded
    BY <1>2, <1>5 DEF Once, Guarded
  <1> QED BY <1>6, <1>7 DEF RInv

LEMMA NextRing ==
    ASSUME IInv, DInv, RInv, Reliable, [Next]_vars
    PROVE  RInv'
  <1>1. CASE UNCHANGED vars
    <2>1. ep' = ep /\ sent' = sent /\ net' = net
      BY <1>1 DEF vars
    <2>2. Parties' /\ Once' /\ Offline'
      BY <2>1 DEF RInv, Parties, Once, Offline, Coming, Invite, SetStanza
    <2>3. Settled'
      BY <2>1 DEF RInv, Settled, Coming, Ringing, Answer, Invite, SetStanza
    <2>4. Guarded'
      BY <2>1 DEF RInv, Guarded, Coming, Ringing, HungUp, Invite, Hangup, SetStanza,
                  WillHangUp, Pending
    <2> QED BY <2>2, <2>3, <2>4 DEF RInv
  <1>2. CASE \E p \in Peer : Dispatch(p)
    <2>1. PICK p \in Peer : Dispatch(p)
      BY <1>2
    <2>2. CASE MsgDisconnect(p)
      BY <2>2, DisconnectRing DEF MsgDisconnect
    <2> QED BY <2>1, <2>2, CallRings, DispatchRing
  <1>3. CASE \E p \in Peer, s \in Sid :
                \/ Timeouts(p, s)
                \/ Transport(p, s)
                \/ \E c \in Command : UserCommand(p, c, s)
    BY <1>3, TimeoutsRing, TransportRing, UserCommandRing
  <1>4. CASE \E m \in sent : Server(m)
    BY <1>4, ServerRing
  <1> QED BY <1>1, <1>2, <1>3, <1>4 DEF Next

LEMMA RingImplies ==
    ASSUME RInv
    PROVE  RingingWillEnd
  <1>1. ASSUME NEW s \in Sid, ep[Responder[s]].state[s] = "RECEIVEDINITIATE",
               ep[Initiator[s]].online
        PROVE  HangupComes(s) \/ WillHangUp(ep[Initiator[s]], s)
    <2>1. HungUp(s) \/ WillHangUp(ep[Initiator[s]], s)
      BY <1>1 DEF RInv, Guarded, Ringing
    <2>2. HungUp(s) => HangupComes(s)
      BY DEF HungUp, HangupComes, Hangup, Behind, Brings
    <2> QED BY <2>1, <2>2
  <1> QED BY <1>1 DEF RingingWillEnd

\* A phone that rings is going to be hung up by its caller, whatever stopped
\* the caller's no-answer timer (Session::SetError, Call::OnSessionState) and
\* whatever message of it was cleared (Session's destructor): the terminate is
\* on its way, or the caller still has the timer or the MSG_ERROR that sends
\* it, unless the caller disconnected.  Of the server it needs that it keeps
\* what it was given and its order, and delivers an initiate once.
THEOREM RingingIsBounded == Spec => []RingingWillEnd
  <1>1. CASE Reliable
    <2>1. IInv /\ DInv /\ RInv /\ [Next]_vars => RInv'
      BY <1>1, NextRing
    <2>2. RInv => RingingWillEnd
      BY RingImplies
    <2> QED BY <2>1, <2>2, InitRing, Invariance, DutyInvariance, PTL DEF Spec
  <1>2. CASE ~Reliable
    <2>1. RingingWillEnd
      BY <1>2 DEF RingingWillEnd
    <2> QED BY <2>1, PTL
  <1> QED BY <1>1, <1>2
=============================================================================
