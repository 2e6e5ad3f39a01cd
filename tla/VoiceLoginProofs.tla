-------------------------- MODULE VoiceLoginProofs --------------------------
(***************************************************************************)
(* Theorems about VoiceLogin, for every number of logins and every bound   *)
(* of the queue.                                                           *)
(***************************************************************************)
EXTENDS VoiceLogin, TLAPS

(* The inductive invariant *)

\* What is queued for a client is for client p; what a callback posted may be
\* for a deleted one, if it called one.
IsLive(m, p, rc) ==
    \/ m.id \notin ClientMsg
    \/ m.client = p /\ p # 0
    \/ m.id \in {"INPUT", "CONNECTED"} /\ "deleted" \in rc

Live(q, p, rc) == \A i \in DOMAIN q : IsLive(q[i], p, rc)

\* There is at most one OPENING, no OPEN is before it, and it is for a client
\* that was just started.
Ordered(q, x) ==
    \A j \in DOMAIN q : q[j].id = "OPENING" =>
        /\ x = "START"
        /\ \A i \in DOMAIN q : i # j => q[i].id # "OPENING"
        /\ \A i \in DOMAIN q : i < j => q[i].id # "OPEN"

\* The engine has reported nothing, or nobody told a client it is connected.
Calm(q) == \A i \in DOMAIN q : q[i].id \notin {"OPENING", "OPEN"}

Mute(q) == \A i \in DOMAIN q : q[i].id \notin {"CONNECTED", "OPEN"}

NoLogin(q) == \A i \in DOMAIN q : q[i].id # "LOGIN"

\* What the queue may be, as the other variables are.
Fits(q) ==
    /\ q \in Seq(Message)
    /\ Live(q, pump, races)
    /\ Ordered(q, xmpp)
    /\ loginAt # "none" => Calm(q)
    /\ ~attached /\ races = {} => Mute(q)
    /\ asked = 0 => NoLogin(q)

\* Nothing is logged in before the stream connected for the first time.
Begun ==
    /\ app /\ stream \in {"off", "connecting"} => asked = 0
    /\ asked = 0 => pump = 0 /\ loginAt = "none"

\* LoginS has no call and no media client, and no pump until it made the next
\* one.
Making ==
    /\ loginAt # "none" => /\ media = 0 /\ ~call
                           /\ pump = 0 <=> loginAt = "reset"
    /\ loginAt = "made" => pump = serial + 1

\* After the first close nobody tells a client that it is connected.
Detached ==
    ~attached /\ races = {} => /\ ~app \/ stream = "closing"
                               /\ xmpp # "OPEN"
                               /\ callback \notin Authenticating

\* A callback that calls a client has one.
Holding == callback \in {"hello", "connected", "input", "isdone"} => held # 0

\* What the signalling thread's own variables satisfy.
Objects ==
    /\ ObjectsTogether
    /\ DelegateClientAlive
    /\ TimedUntilOpen
    /\ Making
    /\ OpenNeverCrashes

IInv ==
    /\ TypeOK
    /\ Objects
    /\ Fits(queue)
    /\ Begun
    /\ Detached
    /\ Holding

-----------------------------------------------------------------------------
(* The queue *)

\* A queue without its front keeps what was said of it.
LEMMA TailQueue ==
    ASSUME NEW q \in Seq(Message), q # <<>>, NEW p, NEW x, NEW rc
    PROVE  /\ Head(q) \in Message /\ Head(q) = q[1] /\ 1 \in DOMAIN q
           /\ Tail(q) \in Seq(Message)
           /\ Live(q, p, rc) => Live(Tail(q), p, rc)
           /\ Ordered(q, x) => Ordered(Tail(q), x)
           /\ Calm(q) => Calm(Tail(q))
           /\ Mute(q) => Mute(Tail(q))
           /\ NoLogin(q) => NoLogin(Tail(q))
           /\ Ordered(q, x) /\ Head(q).id \in {"OPENING", "OPEN"} =>
                  \A i \in DOMAIN Tail(q) : Tail(q)[i].id # "OPENING"
  <1>1. /\ Head(q) \in Message /\ Head(q) = q[1] /\ 1 \in DOMAIN q
        /\ Tail(q) \in Seq(Message)
        /\ DOMAIN q = 1..Len(q) /\ Len(q) \in Nat
        /\ DOMAIN Tail(q) = 1..(Len(q) - 1)
        /\ \A i \in 1..(Len(q) - 1) : Tail(q)[i] = q[i + 1]
    OBVIOUS
  <1>2. \A i \in DOMAIN Tail(q) : i + 1 \in DOMAIN q /\ Tail(q)[i] = q[i + 1]
    BY <1>1
  <1>3. Live(q, p, rc) => Live(Tail(q), p, rc)
    BY <1>2 DEF Live, IsLive
  <1>4. Ordered(q, x) => Ordered(Tail(q), x)
    BY <1>1, <1>2 DEF Ordered
  <1>5. /\ Calm(q) => Calm(Tail(q))
        /\ Mute(q) => Mute(Tail(q))
        /\ NoLogin(q) => NoLogin(Tail(q))
    BY <1>2 DEF Calm, Mute, NoLogin
  <1>6. Ordered(q, x) /\ Head(q).id \in {"OPENING", "OPEN"} =>
            \A i \in DOMAIN Tail(q) : Tail(q)[i].id # "OPENING"
    BY <1>1, <1>2 DEF Ordered
  <1> QED BY <1>1, <1>3, <1>4, <1>5, <1>6

\* A message at the end.
LEMMA AppendQueue ==
    ASSUME NEW q \in Seq(Message), NEW m \in Message, NEW p, NEW x, NEW rc
    PROVE  /\ Append(q, m) \in Seq(Message)
           /\ Live(q, p, rc) /\ IsLive(m, p, rc) => Live(Append(q, m), p, rc)
           /\ Ordered(q, x) /\ m.id # "OPENING" => Ordered(Append(q, m), x)
           /\ Calm(q) => Ordered(Append(q, m), "START")
           /\ Calm(q) /\ m.id \notin {"OPENING", "OPEN"} => Calm(Append(q, m))
           /\ Mute(q) /\ m.id \notin {"CONNECTED", "OPEN"} => Mute(Append(q, m))
           /\ NoLogin(q) /\ m.id # "LOGIN" => NoLogin(Append(q, m))
  <1>1. /\ Append(q, m) \in Seq(Message)
        /\ DOMAIN q = 1..Len(q) /\ Len(q) \in Nat
        /\ DOMAIN Append(q, m) = 1..(Len(q) + 1)
        /\ \A i \in 1..Len(q) : Append(q, m)[i] = q[i]
        /\ Append(q, m)[Len(q) + 1] = m
    OBVIOUS
  <1>2. \A i \in DOMAIN Append(q, m) :
            \/ i \in DOMAIN q /\ Append(q, m)[i] = q[i]
            \/ i = Len(q) + 1 /\ Append(q, m)[i] = m
    BY <1>1
  <1>3. Live(q, p, rc) /\ IsLive(m, p, rc) => Live(Append(q, m), p, rc)
    BY <1>2 DEF Live
  <1>4. /\ Ordered(q, x) /\ m.id # "OPENING" => Ordered(Append(q, m), x)
        /\ Calm(q) => Ordered(Append(q, m), "START")
    BY <1>1, <1>2 DEF Ordered, Calm
  <1>5. /\ Calm(q) /\ m.id \notin {"OPENING", "OPEN"} => Calm(Append(q, m))
        /\ Mute(q) /\ m.id \notin {"CONNECTED", "OPEN"} => Mute(Append(q, m))
        /\ NoLogin(q) /\ m.id # "LOGIN" => NoLogin(Append(q, m))
    BY <1>2 DEF Calm, Mute, NoLogin
  <1> QED BY <1>1, <1>3, <1>4, <1>5

\* Deleting the live client clears every message that is for it.
LEMMA ClearedQueue ==
    ASSUME NEW q \in Seq(Message), NEW n \in Nat, NEW rc, Live(q, n, rc)
    PROVE  /\ Cleared(q, n) \in Seq(Message)
           /\ Live(Cleared(q, n), 0, rc)
           /\ NoLogin(q) => NoLogin(Cleared(q, n))
  <1> DEFINE c == Cleared(q, n)
  <1>1. /\ Posted("CLEARED", 0) \in Message
        /\ Posted("CLEARED", 0).id = "CLEARED"
    BY DEF Posted, Message
  <1>2. /\ DOMAIN q = 1..Len(q) /\ Len(q) \in Nat
        /\ \A i \in DOMAIN q : q[i] \in Message
    OBVIOUS
  <1>3. /\ DOMAIN c = DOMAIN q
        /\ \A i \in DOMAIN q :
              c[i] = IF q[i].client = n /\ n # 0 THEN Posted("CLEARED", 0)
                                                 ELSE q[i]
    BY DEF Cleared
  <1>4. c \in [1..Len(q) -> Message]
    BY <1>1, <1>2, <1>3 DEF Cleared
  <1>5. c \in Seq(Message)
    BY <1>2, <1>4
  <1>6. Live(c, 0, rc)
    BY <1>1, <1>3 DEF Live, IsLive, ClientMsg
  <1>7. NoLogin(q) => NoLogin(c)
    BY <1>1, <1>3 DEF NoLogin
  <1> QED BY <1>5, <1>6, <1>7

\* Without a live client the queue holds nothing of the engine, and nothing at
\* all for a client if no callback called a deleted one.
LEMMA DeadQueue ==
    ASSUME NEW q, NEW rc, Live(q, 0, rc)
    PROVE  /\ Calm(q)
           /\ rc = {} => Mute(q)
           /\ \A p : Live(q, p, rc)
           /\ \A x : Ordered(q, x)
  BY DEF Live, IsLive, Calm, Mute, Ordered, ClientMsg

-----------------------------------------------------------------------------
(* Every action preserves the invariant *)

\* The process dies.
LEMMA DieStep ==
    ASSUME IInv, NEW r \in Crash, Die(r), r # "manager",
           r \in {"media", "pump"} => xmpp # "OPEN"
    PROVE  IInv'
  <1> USE DEF Die, thread, delegate, model, module
  <1>1. TypeOK' BY DEF IInv, TypeOK
  <1>2. Objects'
    BY DEF IInv, Objects, ObjectsTogether, DelegateClientAlive, TimedUntilOpen,
           Making, OpenNeverCrashes
  <1>3. Fits(queue)'
    BY DEF IInv, Fits, Live, IsLive, Ordered, Calm, Mute, NoLogin
  <1>4. Begun' /\ Detached' /\ Holding'
    BY DEF IInv, Begun, Detached, Holding
  <1> QED BY <1>1, <1>2, <1>3, <1>4 DEF IInv

\* Only the queue changes.
LEMMA QuietStep ==
    ASSUME IInv, Quiet, Fits(queue')
    PROVE  IInv'
  <1> USE DEF Quiet, thread, delegate, model, module
  <1>1. TypeOK' BY DEF IInv, TypeOK, Fits
  <1>2. Objects'
    BY DEF IInv, Objects, ObjectsTogether, DelegateClientAlive, TimedUntilOpen,
           Making, OpenNeverCrashes
  <1>3. Fits(queue)'
    BY DEF Fits, Live, IsLive, Ordered, Calm, Mute, NoLogin
  <1>4. Begun' /\ Detached' /\ Holding'
    BY DEF IInv, Begun, Detached, Holding
  <1> QED BY <1>1, <1>2, <1>3, <1>4 DEF IInv

\* The front of the queue, and what is left without it.
LEMMA DispatchedQueue ==
    ASSUME IInv, NEW ids, Dispatching(ids)
    PROVE  /\ crashed = "no" /\ loginAt = "none"
           /\ Head(queue) \in Message /\ Head(queue).id \in ids
           /\ Head(queue).id \in {"OPENING", "OPEN"} => pump # 0
           /\ ~attached /\ races = {} =>
                  Head(queue).id \notin {"CONNECTED", "OPEN"}
           /\ Head(queue).id = "OPENING" => xmpp = "START"
           /\ Head(queue).id = "LOGIN" => asked # 0
           /\ Head(queue).id \in {"OPENING", "OPEN"} =>
                  \A x : Ordered(Tail(queue), x)
           /\ Fits(Tail(queue))
           /\ Head(queue).id \in ClientMsg /\ Head(queue).client # pump =>
                  "deleted" \in races
  <1>1. /\ crashed = "no" /\ loginAt = "none" /\ queue # <<>>
        /\ Head(queue).id \in ids
    BY DEF Dispatching
  <1>2. /\ queue \in Seq(Message)
        /\ Live(queue, pump, races) /\ Ordered(queue, xmpp)
        /\ ~attached /\ races = {} => Mute(queue)
        /\ asked = 0 => NoLogin(queue)
    BY DEF IInv, Fits
  <1>3. Head(queue) \in Message /\ Head(queue) = queue[1] /\ 1 \in DOMAIN queue
    BY <1>1, <1>2, TailQueue
  <1>4. /\ Head(queue).id \in {"OPENING", "OPEN"} => pump # 0
        /\ Head(queue).id \in ClientMsg /\ Head(queue).client # pump =>
               "deleted" \in races
    BY <1>2, <1>3 DEF Live, IsLive, ClientMsg
  <1>5. /\ ~attached /\ races = {} =>
               Head(queue).id \notin {"CONNECTED", "OPEN"}
        /\ Head(queue).id = "OPENING" => xmpp = "START"
        /\ Head(queue).id = "LOGIN" => asked # 0
    BY <1>2, <1>3 DEF Mute, Ordered, NoLogin
  <1>6. Fits(Tail(queue))
    <2>1. /\ Tail(queue) \in Seq(Message)
          /\ Live(Tail(queue), pump, races) /\ Ordered(Tail(queue), xmpp)
          /\ ~attached /\ races = {} => Mute(Tail(queue))
          /\ asked = 0 => NoLogin(Tail(queue))
      BY <1>1, <1>2, TailQueue
    <2> QED BY <1>1, <2>1 DEF Fits
  <1>7. Head(queue).id \in {"OPENING", "OPEN"} => \A x : Ordered(Tail(queue), x)
    <2> SUFFICES ASSUME Head(queue).id \in {"OPENING", "OPEN"}, NEW x
                 PROVE  Ordered(Tail(queue), x)
      OBVIOUS
    <2>1. \A i \in DOMAIN Tail(queue) : Tail(queue)[i].id # "OPENING"
      BY <1>1, <1>2, TailQueue
    <2> QED BY <2>1 DEF Ordered
  <1> QED BY <1>1, <1>3, <1>4, <1>5, <1>6, <1>7

\* A message is added that the queue may hold.
LEMMA AppendFits ==
    ASSUME NEW q, Fits(q), NEW m \in Message,
           m.id \notin {"OPENING", "LOGIN"},
           m.id = "OPEN" => loginAt = "none",
           IsLive(m, pump, races),
           ~attached /\ races = {} => m.id \notin {"CONNECTED", "OPEN"}
    PROVE  Fits(Append(q, m))
  <1>1. /\ q \in Seq(Message)
        /\ Live(q, pump, races) /\ Ordered(q, xmpp)
        /\ loginAt # "none" => Calm(q)
        /\ ~attached /\ races = {} => Mute(q)
        /\ asked = 0 => NoLogin(q)
    BY DEF Fits
  <1>2. /\ Append(q, m) \in Seq(Message)
        /\ Live(Append(q, m), pump, races)
    BY <1>1, AppendQueue
  <1>3. /\ Ordered(Append(q, m), xmpp)
        /\ loginAt # "none" => Calm(Append(q, m))
        /\ ~attached /\ races = {} => Mute(Append(q, m))
        /\ asked = 0 => NoLogin(Append(q, m))
    BY <1>1, AppendQueue
  <1> QED BY <1>2, <1>3 DEF Fits

\* LoginS begins: it deletes the objects of a login that did not end.
LEMMA LoginResetStep ==
    ASSUME IInv, LoginReset
    PROVE  IInv'
  <1>1. /\ crashed = "no" /\ loginAt = "none" /\ asked # 0
        /\ Fits(Tail(queue))
    BY DispatchedQueue DEF LoginReset
  <1>2. /\ loginAt' = "reset"
        /\ UNCHANGED <<xmpp, serial, manager, timers, client, attached, app,
                       stream, asked, callback, held, races, crashed>>
    BY DEF LoginReset, delegate, model, module
  <1>3. pump \in Nat /\ pump' = 0 /\ media' = 0 /\ call' = FALSE
    BY <1>1 DEF LoginReset, ResetMedia, IInv, TypeOK, Objects, ObjectsTogether
  <1>4. queue' \in Seq(Message) /\ Live(queue', 0, races)
    <2>1. Tail(queue) \in Seq(Message) /\ Live(Tail(queue), pump, races)
      BY <1>1 DEF Fits
    <2>2. CASE xmpp \in {"NONE", "CLOSED"}
      BY <1>1, <2>1, <2>2 DEF LoginReset, IInv, Objects, ObjectsTogether
    <2>3. CASE xmpp \notin {"NONE", "CLOSED"}
      BY <1>3, <2>1, <2>3, ClearedQueue DEF LoginReset, ResetMedia
    <2> QED BY <2>2, <2>3
  <1>5. /\ Calm(queue') /\ (races = {} => Mute(queue'))
        /\ Ordered(queue', xmpp)
    BY <1>4, DeadQueue
  <1>6. TypeOK'
    BY <1>2, <1>3, <1>4 DEF IInv, TypeOK
  <1>7. Objects'
    BY <1>2, <1>3 DEF IInv, Objects, ObjectsTogether, DelegateClientAlive,
                      TimedUntilOpen, Making, OpenNeverCrashes
  <1>8. Fits(queue)'
    BY <1>1, <1>2, <1>3, <1>4, <1>5 DEF Fits, Live, IsLive, Ordered, Calm, Mute
  <1>9. Begun' /\ Detached' /\ Holding'
    BY <1>1, <1>2, <1>3 DEF IInv, Begun, Detached, Holding
  <1> QED BY <1>6, <1>7, <1>8, <1>9 DEF IInv

\* LoginS makes the new manager and pump, whose client the delegate gets.
LEMMA LoginMakesStep ==
    ASSUME IInv, LoginMakes
    PROVE  IInv'
  <1>1. /\ loginAt = "reset" /\ loginAt' = "made" /\ pump = 0 /\ media = 0
        /\ ~call /\ asked # 0
    BY DEF LoginMakes, IInv, Objects, Making, Begun
  <1>2. /\ pump' = serial + 1 /\ manager' = pump' /\ client' = pump'
        /\ UNCHANGED <<xmpp, serial, media, call, timers, queue, attached, app,
                       stream, asked, callback, held, races, crashed>>
    BY DEF LoginMakes, NewPump, model, module
  <1>3. pump' \in Nat /\ pump' # 0
    BY <1>2 DEF IInv, TypeOK
  <1>4. TypeOK'
    BY <1>1, <1>2, <1>3 DEF IInv, TypeOK
  <1>5. Objects'
    BY <1>1, <1>2, <1>3 DEF IInv, Objects, ObjectsTogether, DelegateClientAlive,
                            TimedUntilOpen, Making, OpenNeverCrashes
  <1>6. Fits(queue)'
    <2>1. Live(queue, pump', races)
      BY <1>1, DeadQueue DEF IInv, Fits
    <2>2. /\ queue \in Seq(Message) /\ Ordered(queue, xmpp) /\ Calm(queue)
          /\ ~attached /\ races = {} => Mute(queue)
      BY <1>1 DEF IInv, Fits
    <2> QED
      BY <1>1, <1>2, <2>1, <2>2 DEF Fits, Live, IsLive, Ordered, Calm, Mute
  <1>7. Begun' /\ Detached' /\ Holding'
    BY <1>1, <1>2 DEF IInv, Begun, Detached, Holding
  <1> QED BY <1>4, <1>5, <1>6, <1>7 DEF IInv

\* LoginS ends: the timer is armed and the pump logs in.
LEMMA DoLoginStep ==
    ASSUME IInv, DoLogin
    PROVE  IInv'
  <1> DEFINE m == Posted("OPENING", pump)
  <1>1. /\ loginAt = "made" /\ loginAt' = "none" /\ pump # 0 /\ media = 0
        /\ ~call /\ asked # 0 /\ pump \in Nat
    BY DEF DoLogin, IInv, TypeOK, Objects, Making, Begun
  <1>2. /\ timers' = timers \cup {pump} /\ xmpp' = "START" /\ serial' = pump
        /\ queue' = Append(queue, m)
        /\ UNCHANGED <<pump, manager, media, call, client, attached, app,
                       stream,
                       asked, callback, held, races, crashed>>
    BY DEF DoLogin, delegate, model, module
  <1>3. m \in Message /\ m.id = "OPENING" /\ IsLive(m, pump, races)
    BY <1>1 DEF Posted, Message, ClientMsg, IsLive
  <1> HIDE DEF m
  <1>4. /\ queue \in Seq(Message) /\ Live(queue, pump, races) /\ Calm(queue)
        /\ ~attached /\ races = {} => Mute(queue)
    BY <1>1 DEF IInv, Fits
  <1>5. /\ queue' \in Seq(Message) /\ Live(queue', pump, races)
        /\ Ordered(queue', "START")
        /\ ~attached /\ races = {} => Mute(queue')
    BY <1>1, <1>2, <1>3, <1>4, AppendQueue
  <1>6. TypeOK'
    BY <1>1, <1>2, <1>5 DEF IInv, TypeOK, XmppState
  <1>7. Objects'
    BY <1>1, <1>2 DEF IInv, Objects, ObjectsTogether, DelegateClientAlive,
                      TimedUntilOpen, Making, OpenNeverCrashes
  <1>8. Fits(queue)'
    BY <1>1, <1>2, <1>5 DEF Fits, Live, IsLive, Ordered, Mute
  <1>9. Begun' /\ Detached' /\ Holding'
    BY <1>1, <1>2 DEF IInv, Begun, Detached, Holding
  <1> QED BY <1>6, <1>7, <1>8, <1>9 DEF IInv

\* TXmppPump::DoDisconnect of a live pump.
LEMMA DoDisconnectStep ==
    ASSUME IInv, pump # 0, loginAt = "none", NEW q, Fits(q), DoDisconnect(q),
           manager' \in {0, manager}, timers' \subseteq timers,
           crashed' \in Crash, crashed' # "manager"
    PROVE  IInv'
  <1>1. /\ pump \in Nat /\ q \in Seq(Message) /\ Live(q, pump, races)
        /\ asked # 0
    BY DEF IInv, TypeOK, Fits, Begun
  <1>2. queue' \in Seq(Message) /\ Live(queue', 0, races)
    BY <1>1, ClearedQueue DEF DoDisconnect, ResetMedia
  <1>3. /\ Ordered(queue', "CLOSED")
        /\ races = {} => Mute(queue')
    BY <1>2, DeadQueue
  <1>4. /\ xmpp' = "CLOSED" /\ pump' = 0 /\ media' = 0 /\ call' = FALSE
        /\ client' = 0 /\ attached' = FALSE
        /\ stream' = IF attached /\ stream # "off" THEN "closing" ELSE stream
        /\ races' = IF callback \in Authenticating THEN races \cup {"late"}
                                                   ELSE races
        /\ UNCHANGED <<serial, app, asked, loginAt, callback, held>>
    BY DEF DoDisconnect, CloseConnection, ResetMedia, module
  <1>5. TypeOK'
    <2>1. "CLOSED" \in XmppState /\ "closing" \in StreamState
      BY DEF XmppState, StreamState
    <2>2. stream' \in StreamState
      BY <1>4, <2>1 DEF IInv, TypeOK
    <2>3. manager' \in Nat /\ timers' \subseteq Nat
      BY DEF IInv, TypeOK
    <2>4. races' \subseteq Race
      BY <1>4 DEF IInv, TypeOK, Race
    <2> QED BY <1>2, <1>4, <2>1, <2>2, <2>3, <2>4 DEF IInv, TypeOK
  <1>6. Objects'
    BY <1>4 DEF Objects, ObjectsTogether, DelegateClientAlive, TimedUntilOpen,
                Making, OpenNeverCrashes
  <1>7. Fits(queue)'
    <2>1. Live(queue', 0, races')
      BY <1>2, <1>4 DEF Live, IsLive
    <2>2. races' = {} => Mute(queue')
      BY <1>3, <1>4
    <2> QED
      BY <1>1, <1>2, <1>3, <1>4, <2>1, <2>2 DEF Fits, Live, IsLive, Ordered, Mute
  <1>8. Begun' /\ Holding'
    BY <1>1, <1>4 DEF IInv, Begun, Holding
  <1>9. Detached'
    BY <1>1, <1>4 DEF IInv, Begun, Detached
  <1> QED BY <1>5, <1>6, <1>7, <1>8, <1>9 DEF IInv

\* DisconnectS, as the handler of a message or of the login timeout.
LEMMA DisconnectStep ==
    ASSUME IInv, crashed = "no", loginAt = "none", NEW q, Fits(q),
           NEW t \in SUBSET timers, DisconnectS(q, t)
    PROVE  IInv'
  <1>1. ~(call /\ media = 0)
    BY DEF IInv, Objects, ObjectsTogether
  <1>2. manager' = 0 /\ timers' = t /\ crashed' = "no" /\ "no" \in Crash
    BY <1>1 DEF DisconnectS, Crash
  <1>3. CASE xmpp \notin {"NONE", "CLOSED"} /\ pump # 0
    <2>1. DoDisconnect(q)
      BY <1>1, <1>3 DEF DisconnectS
    <2> QED BY <1>2, <1>3, <2>1, DoDisconnectStep
  <1>4. CASE ~(xmpp \notin {"NONE", "CLOSED"} /\ pump # 0)
    <2>1. /\ queue' = q /\ call' = FALSE
          /\ UNCHANGED <<xmpp, serial, pump, media, loginAt, client, attached,
                         app, stream, asked, callback, held, races>>
      BY <1>1, <1>4 DEF DisconnectS, delegate, model, module
    <2>2. xmpp \in {"NONE", "CLOSED"} /\ pump = 0 /\ media = 0
      BY <1>4 DEF IInv, Objects, ObjectsTogether
    <2>3. TypeOK'
      BY <1>2, <2>1 DEF IInv, TypeOK, Fits
    <2>4. Objects'
      BY <1>2, <2>1, <2>2 DEF IInv, Objects, ObjectsTogether,
              DelegateClientAlive, TimedUntilOpen, Making, OpenNeverCrashes
    <2>5. Fits(queue)'
      BY <2>1 DEF Fits, Live, IsLive, Ordered, Calm, Mute, NoLogin
    <2>6. Begun' /\ Detached' /\ Holding'
      BY <2>1 DEF IInv, Begun, Detached, Holding
    <2> QED BY <2>3, <2>4, <2>5, <2>6 DEF IInv
  <1> QED BY <1>3, <1>4

\* A state change of the engine: the client becomes opening or open.
LEMMA OpeningStep ==
    ASSUME IInv, MsgOpening
    PROVE  IInv'
  <1>1. /\ xmpp = "START" /\ pump # 0 /\ loginAt = "none"
        /\ Fits(Tail(queue)) /\ Ordered(Tail(queue), "OPENING")
    BY DispatchedQueue DEF MsgOpening, Reaching
  <1>2. /\ queue' = Tail(queue) /\ xmpp' = "OPENING"
        /\ UNCHANGED <<serial, pump, manager, media, call, timers, loginAt,
                       client,
                       attached, app, stream, asked, callback, held, races,
                       crashed>>
    BY DEF MsgOpening, delegate, model, module
  <1>3. TypeOK'
    BY <1>1, <1>2 DEF IInv, TypeOK, XmppState, Fits
  <1>4. Objects'
    BY <1>1, <1>2 DEF IInv, Objects, ObjectsTogether, DelegateClientAlive,
                      TimedUntilOpen, Making, OpenNeverCrashes
  <1>5. Fits(queue)'
    BY <1>1, <1>2 DEF Fits, Live, IsLive, Ordered, Calm, Mute, NoLogin
  <1>6. Begun' /\ Detached' /\ Holding'
    BY <1>1, <1>2 DEF IInv, Begun, Detached, Holding
  <1> QED BY <1>3, <1>4, <1>5, <1>6 DEF IInv

LEMMA OpenStep ==
    ASSUME IInv, MsgOpen
    PROVE  IInv'
  <1>1. /\ pump # 0 /\ loginAt = "none" /\ attached \in BOOLEAN
        /\ ~attached => races # {}
        /\ Fits(Tail(queue)) /\ Ordered(Tail(queue), "OPEN")
    BY DispatchedQueue DEF MsgOpen, Reaching, IInv, TypeOK
  <1>2. manager = pump
    BY <1>1 DEF IInv, Objects, ObjectsTogether
  <1>3. CASE xmpp = "OPEN"
    BY <1>1, <1>3, QuietStep DEF MsgOpen, OnConnected
  <1>4. CASE xmpp # "OPEN"
    <2>1. /\ queue' = Tail(queue) /\ xmpp' = "OPEN" /\ media' = manager
          /\ timers' = {}
          /\ UNCHANGED <<serial, pump, manager, call, loginAt, client,
                         attached,
                         app, stream, asked, callback, held, races, crashed>>
      BY <1>1, <1>2, <1>4 DEF MsgOpen, OnConnected, delegate, model, module
    <2>2. TypeOK'
      BY <1>1, <2>1 DEF IInv, TypeOK, XmppState, Fits
    <2>3. crashed = "no"
      BY DEF MsgOpen, Reaching, Dispatching
    <2>4. Objects'
      BY <1>1, <1>2, <2>1, <2>3 DEF IInv, Objects, ObjectsTogether,
              DelegateClientAlive, TimedUntilOpen, Making, OpenNeverCrashes
    <2>5. Fits(queue)'
      BY <1>1, <2>1 DEF Fits, Live, IsLive, Ordered, Calm, Mute, NoLogin
    <2>6. Begun' /\ Detached' /\ Holding'
      BY <1>1, <2>1 DEF IInv, Begun, Detached, Holding
    <2> QED BY <2>2, <2>4, <2>5, <2>6 DEF IInv
  <1> QED BY <1>3, <1>4

\* OnSessionState and OnCallDestroy set and clear the call.
LEMMA CallStep ==
    ASSUME IInv, NEW b \in BOOLEAN, CallChanges(b)
    PROVE  IInv'
  <1> USE DEF CallChanges, delegate, model, module
  <1>1. TypeOK' BY DEF IInv, TypeOK
  <1>2. Objects'
    BY DEF IInv, Objects, ObjectsTogether, DelegateClientAlive, TimedUntilOpen,
           Making, OpenNeverCrashes
  <1>3. Fits(queue)'
    BY DEF IInv, Fits, Live, IsLive, Ordered, Calm, Mute, NoLogin
  <1>4. Begun' /\ Detached' /\ Holding'
    BY DEF IInv, Begun, Detached, Holding
  <1> QED BY <1>1, <1>2, <1>3, <1>4 DEF IInv

\* The stream, its module or the application: the signalling thread's own
\* state stays, the queue gets longer and a race may be noted.
LEMMA OutsideStep ==
    ASSUME IInv, UNCHANGED <<thread, delegate>>,
           crashed' \in Crash, crashed' # "manager",
           crashed' \in {"media", "pump"} => crashed' = crashed,
           queue' \in Seq(Message), Live(queue', pump, races'),
           Ordered(queue', xmpp), loginAt # "none" => Calm(queue'),
           ~attached /\ races' = {} => Mute(queue'),
           asked' = 0 => NoLogin(queue'),
           races \subseteq races', races' \subseteq Race,
           stream' \in StreamState, app' \in BOOLEAN, asked' \in Nat,
           callback' \in Callback, held' \in Nat, Holding',
           asked' = 0 => asked = 0,
           app' /\ stream' \in {"off", "connecting"} => asked' = 0,
           ~attached /\ races' = {} => /\ ~app' \/ stream' = "closing"
                                       /\ callback' \notin Authenticating
    PROVE  IInv'
  <1> USE DEF thread, delegate
  <1>1. TypeOK' BY DEF IInv, TypeOK
  <1>2. Objects'
    BY DEF IInv, Objects, ObjectsTogether, DelegateClientAlive, TimedUntilOpen,
           Making, OpenNeverCrashes
  <1>3. Fits(queue)'
    BY DEF Fits, Live, IsLive, Ordered, Calm, Mute, NoLogin
  <1>4. Begun'
    BY DEF IInv, Begun
  <1>5. Detached'
    <2>1. races' = {} => races = {}
      OBVIOUS
    <2> QED BY <2>1 DEF IInv, Detached
  <1> QED BY <1>1, <1>2, <1>3, <1>4, <1>5 DEF IInv

\* The application logs in, once the stream is connected.
LEMMA PostLoginStep ==
    ASSUME IInv, PostLogin, stream' = "authenticating", app, stream # "closing"
    PROVE  IInv'
  <1> DEFINE m == Posted("LOGIN", 0)
  <1>1. m \in Message /\ m.id = "LOGIN" /\ IsLive(m, pump, races)
    BY DEF Posted, Message, ClientMsg, IsLive
  <1>2. /\ queue \in Seq(Message)
        /\ Live(queue, pump, races) /\ Ordered(queue, xmpp)
        /\ loginAt # "none" => Calm(queue)
        /\ ~attached /\ races = {} => Mute(queue)
    BY DEF IInv, Fits
  <1>3. queue' = Append(queue, m)
    BY DEF PostLogin, Post
  <1> HIDE DEF m
  <1>4. /\ queue' \in Seq(Message)
        /\ Live(queue', pump, races) /\ Ordered(queue', xmpp)
        /\ loginAt # "none" => Calm(queue')
        /\ ~attached /\ races = {} => Mute(queue')
    BY <1>1, <1>2, <1>3, AppendQueue
  <1>5. /\ UNCHANGED <<thread, delegate, crashed, callback, held, races>>
        /\ app' = app /\ asked' \in Nat /\ asked' # 0
    BY DEF PostLogin, IInv, TypeOK, module
  <1>6. attached \/ races # {}
    BY DEF IInv, Detached
  <1>7. /\ stream' \in StreamState /\ app' \in BOOLEAN
        /\ stream' \notin {"off", "connecting"}
        /\ callback' \in Callback /\ held' \in Nat /\ races' \subseteq Race
        /\ races \subseteq races' /\ crashed' \in Crash /\ crashed' # "manager"
    BY <1>5 DEF StreamState, IInv, TypeOK, Objects, OpenNeverCrashes
  <1>8. Holding'
    BY <1>5 DEF IInv, Holding
  <1> QED BY <1>4, <1>5, <1>6, <1>7, <1>8, OutsideStep

\* The stream changes, and may report it; nothing is posted.
LEMMA StreamStep ==
    ASSUME IInv, UNCHANGED <<thread, queue, delegate, asked, held, races,
                             crashed>>,
           stream' \in StreamState, app' \in BOOLEAN, app' => app,
           app' /\ stream' \in {"off", "connecting"} =>
               stream \in {"off", "connecting"},
           app' => stream # "closing" \/ stream' = "closing",
           callback' \in {callback, "none", "iq", "end"}
               \/ (callback' = "auth" /\ app /\ stream # "closing")
    PROVE  IInv'
  <1>1. /\ queue' \in Seq(Message)
        /\ Live(queue', pump, races') /\ Ordered(queue', xmpp)
        /\ loginAt # "none" => Calm(queue')
        /\ ~attached /\ races' = {} => Mute(queue')
        /\ asked' = 0 => NoLogin(queue')
    BY DEF IInv, Fits
  <1>2. app' /\ stream' \in {"off", "connecting"} => asked' = 0
    BY DEF IInv, Begun
  <1>3. ~attached /\ races' = {} => /\ ~app' \/ stream' = "closing"
                                   /\ callback' \notin Authenticating
    BY DEF IInv, Detached, Authenticating
  <1>4. /\ asked' \in Nat /\ held' \in Nat /\ races' \subseteq Race
        /\ races \subseteq races' /\ crashed' \in Crash /\ crashed' # "manager"
    BY DEF IInv, TypeOK, Objects, OpenNeverCrashes
  <1>5. callback' \in Callback /\ Holding'
    BY DEF IInv, TypeOK, Holding, Callback, Authenticating
  <1> QED BY <1>1, <1>2, <1>3, <1>4, <1>5, OutsideStep

\* The module goes on: it read client_, or called the client it holds.
LEMMA ModuleStep ==
    ASSUME IInv, UNCHANGED <<thread, delegate, model>>,
           crashed' \in {crashed, "client"},
           races \subseteq races', races' \subseteq Race,
           \/ queue' = queue
           \/ \E id \in {"INPUT", "CONNECTED"} :
                 /\ queue' = Append(queue, Posted(id, held))
                 /\ held = pump \/ "deleted" \in races'
                 /\ held # 0
                 /\ id = "CONNECTED" => callback \in Authenticating,
           callback' \in Callback, held' \in Nat, Holding',
           callback' \in Authenticating => callback \in Authenticating
    PROVE  IInv'
  <1>1. /\ queue \in Seq(Message)
        /\ Live(queue, pump, races') /\ Ordered(queue, xmpp)
        /\ loginAt # "none" => Calm(queue)
        /\ ~attached /\ races' = {} => Mute(queue)
        /\ asked = 0 => NoLogin(queue)
    BY DEF IInv, Fits, Live, IsLive
  <1>2. /\ queue' \in Seq(Message)
        /\ Live(queue', pump, races') /\ Ordered(queue', xmpp)
        /\ loginAt # "none" => Calm(queue')
        /\ ~attached /\ races' = {} => Mute(queue')
        /\ asked = 0 => NoLogin(queue')
    <2>1. CASE queue' = queue
      BY <1>1, <2>1
    <2>2. CASE \E id \in {"INPUT", "CONNECTED"} :
                 /\ queue' = Append(queue, Posted(id, held))
                 /\ held = pump \/ "deleted" \in races'
                 /\ held # 0
                 /\ id = "CONNECTED" => callback \in Authenticating
      <3> PICK id \in {"INPUT", "CONNECTED"} :
                 /\ queue' = Append(queue, Posted(id, held))
                 /\ held = pump \/ "deleted" \in races'
                 /\ held # 0
                 /\ id = "CONNECTED" => callback \in Authenticating
        BY <2>2
      <3> DEFINE m == Posted(id, held)
      <3>1. m \in Message /\ m.id = id /\ m.client = held
        BY DEF Posted, Message, ClientMsg, IInv, TypeOK
      <3>2. ~attached /\ races' = {} => id # "CONNECTED"
        BY DEF IInv, Detached
      <3>3. queue' = Append(queue, m)
        OBVIOUS
      <3> HIDE DEF m
      <3>4. queue' \in Seq(Message) /\ Live(queue', pump, races')
        <4>1. IsLive(m, pump, races')
          BY <3>1 DEF IsLive
        <4> QED BY <1>1, <3>1, <3>3, <4>1, AppendQueue
      <3>5. /\ Ordered(queue', xmpp)
            /\ loginAt # "none" => Calm(queue')
            /\ ~attached /\ races' = {} => Mute(queue')
            /\ asked = 0 => NoLogin(queue')
        BY <1>1, <3>1, <3>2, <3>3, AppendQueue
      <3> QED BY <3>4, <3>5
    <2> QED BY <2>1, <2>2
  <1>3. /\ UNCHANGED <<app, stream, asked>>
        /\ app \in BOOLEAN /\ stream \in StreamState /\ asked \in Nat
    BY DEF model, IInv, TypeOK
  <1>4. /\ crashed' \in Crash /\ crashed' # "manager"
        /\ crashed' \in {"media", "pump"} => crashed' = crashed
    BY DEF Crash, IInv, TypeOK, Objects, OpenNeverCrashes
  <1>5. app /\ stream \in {"off", "connecting"} => asked = 0
    BY DEF IInv, Begun
  <1>6. ~attached /\ races' = {} => /\ ~app \/ stream = "closing"
                                   /\ callback' \notin Authenticating
    BY DEF IInv, Detached
  <1> QED BY <1>2, <1>3, <1>4, <1>5, <1>6, OutsideStep

\* The callbacks of the stream's module.
LEMMA CallbackStep ==
    ASSUME IInv, Module
    PROVE  IInv'
  <1> USE DEF Callback, Authenticating
  <1>1. /\ client \in Nat /\ held \in Nat /\ races \subseteq Race
        /\ "deleted" \in Race /\ "auth" \in Crash
    BY DEF IInv, TypeOK, Race, Crash
  <1>2. CASE GetClient
    <2>1. CASE client = 0 /\ callback = "auth"
      BY <1>1, <1>2, <2>1, DieStep DEF GetClient
    <2>2. CASE client = 0 /\ callback # "auth"
      <3>1. /\ callback' = "none" /\ callback' \in Callback
            /\ UNCHANGED <<thread, queue, delegate, model, held, races,
                           crashed>>
        BY <1>2, <2>2 DEF GetClient
      <3>2. Holding'
        BY <3>1 DEF Holding
      <3> QED BY <1>1, <3>1, <3>2, ModuleStep
    <2>3. CASE client # 0
      <3>1. /\ held' = client
            /\ \/ callback = "auth" /\ callback' = "hello"
               \/ callback = "iq" /\ callback' = "input"
               \/ callback = "end" /\ callback' = "isdone"
            /\ UNCHANGED <<thread, queue, delegate, model, races, crashed>>
        BY <1>2, <2>3 DEF GetClient
      <3>2. Holding' /\ callback' \in Callback
        BY <2>3, <3>1 DEF Holding
      <3> QED BY <1>1, <3>1, <3>2, ModuleStep
    <2> QED BY <2>1, <2>2, <2>3
  <1>3. CASE HandleInput
    <2>1. /\ \/ callback = "hello" /\ callback' = "connected" /\ held' = held
             \/ callback = "input" /\ callback' = "none" /\ held' = 0
          /\ UNCHANGED <<thread, delegate, model>>
          /\ held # 0
      BY <1>3 DEF HandleInput, Continue, IInv, Holding
    <2>2. Holding' /\ callback' \in Callback
      BY <2>1 DEF Holding
    <2>3. /\ \/ queue' = queue
             \/ /\ queue' = Append(queue, Posted("INPUT", held))
                /\ held = pump \/ "deleted" \in races'
          /\ crashed' \in {crashed, "client"}
          /\ races' \in {races, races \cup {"deleted"}}
      BY <1>3 DEF HandleInput, CallClient, Post
    <2> QED BY <1>1, <2>1, <2>2, <2>3, ModuleStep
  <1>4. CASE ConnectionConnected
    <2>1. /\ callback = "connected" /\ callback' = "none" /\ held' = 0
          /\ UNCHANGED <<thread, delegate, model>>
          /\ held # 0
      BY <1>4 DEF ConnectionConnected, Continue, IInv, Holding
    <2>2. Holding' /\ callback' \in Callback
      BY <2>1 DEF Holding
    <2>3. /\ \/ queue' = queue
             \/ /\ queue' = Append(queue, Posted("CONNECTED", held))
                /\ held = pump \/ "deleted" \in races'
          /\ crashed' \in {crashed, "client"}
          /\ races' \in {races, races \cup {"deleted"}}
      BY <1>4 DEF ConnectionConnected, CallClient, Post
    <2> QED BY <1>1, <2>1, <2>2, <2>3, ModuleStep
  <1>5. CASE IsDone
    <2>1. /\ callback' = "none" /\ held' = 0
          /\ UNCHANGED <<thread, delegate, model, queue>>
          /\ crashed' \in {crashed, "client"}
          /\ races' \in {races, races \cup {"deleted"}}
      BY <1>5 DEF IsDone, Continue
    <2>2. Holding' /\ callback' \in Callback
      BY <2>1 DEF Holding
    <2> QED BY <1>1, <2>1, <2>2, ModuleStep
  <1> QED BY <1>2, <1>3, <1>4, <1>5 DEF Module

LEMMA DispatchStep ==
    ASSUME IInv, Dispatch
    PROVE  IInv'
  <1>1. {"no", "media", "pump", "engine", "client"} \subseteq Crash
    BY DEF Crash
  <1>2. CASE LoginReset
    BY <1>2, LoginResetStep
  <1>3. CASE LoginMakes
    BY <1>3, LoginMakesStep
  <1>4. CASE DoLogin
    BY <1>4, DoLoginStep
  <1>5. CASE MsgDisconnect
    <2>1. timers \in SUBSET timers
      OBVIOUS
    <2> QED BY <1>5, <2>1, DispatchedQueue, DisconnectStep DEF MsgDisconnect
  <1>6. CASE (\E found \in BOOLEAN : MsgCall(found)) \/ MsgEndCall
             \/ MsgSendXmppMessage
    <2>1. /\ \/ media = 0 /\ Die("media")
             \/ pump = 0 /\ Die("pump")
             \/ queue' = Tail(queue) /\ Quiet
          /\ loginAt = "none" /\ Fits(Tail(queue))
      BY <1>6, DispatchedQueue DEF MsgCall, MsgEndCall, MsgSendXmppMessage
    <2>2. xmpp = "OPEN" => media # 0 /\ pump # 0
      BY <2>1 DEF IInv, Objects, ObjectsTogether
    <2> QED BY <1>1, <2>1, <2>2, DieStep, QuietStep
  <1>7. CASE MsgCleared \/ MsgInput
    <2>1. queue' = Tail(queue) /\ Quiet /\ Fits(Tail(queue))
      BY <1>7, DispatchedQueue DEF MsgCleared, MsgInput, Reaching
    <2> QED BY <2>1, QuietStep
  <1>8. CASE MsgToDeleted
    <2>1. Fits(Tail(queue))
      BY <1>8, DispatchedQueue DEF MsgToDeleted
    <2>2. /\ queue' = Tail(queue) /\ crashed = "no" /\ crashed' \in {"no", "client"}
          /\ UNCHANGED <<thread, delegate, model, module, races>>
      BY <1>8 DEF MsgToDeleted, Dispatching
    <2>3. /\ queue' \in Seq(Message)
          /\ Live(queue', pump, races') /\ Ordered(queue', xmpp)
          /\ loginAt # "none" => Calm(queue')
          /\ ~attached /\ races' = {} => Mute(queue')
          /\ asked' = 0 => NoLogin(queue')
      BY <2>1, <2>2 DEF Fits, model
    <2>4. /\ UNCHANGED <<app, stream, asked, callback, held, races>>
          /\ crashed' \in Crash /\ crashed' \notin {"manager", "media", "pump"}
      BY <1>1, <2>2 DEF model, module
    <2>5. /\ races' \subseteq Race /\ stream' \in StreamState /\ app' \in BOOLEAN
          /\ asked' \in Nat /\ callback' \in Callback /\ held' \in Nat
      BY <2>4 DEF IInv, TypeOK
    <2>6. /\ Holding'
          /\ app' /\ stream' \in {"off", "connecting"} => asked' = 0
          /\ ~attached /\ races' = {} => /\ ~app' \/ stream' = "closing"
                                        /\ callback' \notin Authenticating
      BY <2>4 DEF IInv, Holding, Begun, Detached
    <2> QED BY <2>2, <2>3, <2>4, <2>5, <2>6, OutsideStep
  <1>9. CASE MsgConnected
    <2> DEFINE m == Posted("OPEN", pump)
    <2>1. /\ pump # 0 /\ loginAt = "none" /\ (~attached => races # {})
          /\ Fits(Tail(queue)) /\ pump \in Nat
      BY <1>9, DispatchedQueue DEF MsgConnected, Reaching, IInv, TypeOK
    <2>2. m \in Message /\ m.id = "OPEN" /\ m.client = pump
      BY <2>1 DEF Posted, Message, ClientMsg
    <2>3. queue' = Append(Tail(queue), m) /\ Quiet
      BY <1>9 DEF MsgConnected
    <2> HIDE DEF m
    <2>4. IsLive(m, pump, races)
      BY <2>1, <2>2 DEF IsLive
    <2>5. Fits(queue')
      BY <2>1, <2>2, <2>3, <2>4, AppendFits
    <2> QED BY <2>3, <2>5, QuietStep
  <1>10. CASE MsgBadInput
    <2>1. /\ pump # 0 /\ loginAt = "none" /\ Fits(Tail(queue))
          /\ DoDisconnect(Tail(queue))
      BY <1>10, DispatchedQueue DEF MsgBadInput, Reaching
    <2>2. /\ crashed' \in Crash /\ crashed' # "manager"
          /\ manager' = manager /\ timers' = timers
      BY <1>1, <1>10 DEF MsgBadInput
    <2> QED BY <2>1, <2>2, DoDisconnectStep
  <1>11. CASE MsgOpening
    BY <1>11, OpeningStep
  <1>12. CASE MsgOpen
    BY <1>12, OpenStep
  <1> QED
    BY <1>2, <1>3, <1>4, <1>5, <1>6, <1>7, <1>8, <1>9, <1>10, <1>11, <1>12
       DEF Dispatch

LEMMA StreamUserStep ==
    ASSUME IInv, Stream \/ User
    PROVE  IInv'
  <1>1. /\ {"off", "connecting", "connected", "authenticating", "authenticated"}
               \subseteq StreamState
        /\ "login" \in Crash /\ app \in BOOLEAN /\ stream \in StreamState
    BY DEF StreamState, Crash, IInv, TypeOK
  <1>2. CASE \E started \in BOOLEAN : DidConnect(started)
    <2> PICK started \in BOOLEAN : DidConnect(started)
      BY <1>2
    <2>1. CASE started /\ app
      BY <2>1, PostLoginStep DEF DidConnect
    <2>2. CASE ~(started /\ app)
      <3>1. UNCHANGED <<thread, queue, delegate, app, asked, module, races,
                        crashed>>
        BY <2>2 DEF DidConnect
      <3>2. stream' \in {"authenticating", "connected"} /\ stream = "connecting"
        BY DEF DidConnect
      <3> QED BY <1>1, <3>1, <3>2, StreamStep DEF module
    <2> QED BY <2>1, <2>2
  <1>3. CASE DidNotAuthenticate
    BY <1>1, <1>3, StreamStep DEF DidNotAuthenticate, module
  <1>4. CASE DidAuthenticate
    <2>1. /\ stream = "authenticating" /\ stream' = "authenticated"
          /\ UNCHANGED <<thread, queue, delegate, app, asked, held, races,
                         crashed>>
          /\ callback' = "none" \/ (callback' = "auth" /\ app)
      BY <1>4 DEF DidAuthenticate, Report
    <2> QED BY <1>1, <2>1, StreamStep
  <1>5. CASE DidReceiveIQ
    <2>1. /\ stream = "authenticated" /\ stream' = stream
          /\ UNCHANGED <<thread, queue, delegate, app, asked, held, races,
                         crashed>>
          /\ callback' \in {"none", "iq"}
      BY <1>5 DEF DidReceiveIQ, Report, model
    <2> QED BY <1>1, <2>1, StreamStep
  <1>6. CASE DidDisconnect
    <2>1. /\ stream' = "off" /\ app' = FALSE
          /\ UNCHANGED <<thread, queue, delegate, asked, held, races, crashed>>
          /\ callback' \in {"none", "end"}
      BY <1>6 DEF DidDisconnect, Report
    <2> QED BY <1>1, <2>1, StreamStep
  <1>7. CASE Connect
    BY <1>1, <1>7, StreamStep DEF Connect, module
  <1>8. CASE Reconnect
    <2>1. CASE app
      BY <1>8, <2>1, PostLoginStep DEF Reconnect
    <2>2. CASE ~app
      BY <1>1, <1>8, <2>2, DieStep DEF Reconnect
    <2> QED BY <2>1, <2>2
  <1>9. CASE \E c \in Command : UserCommand(c)
    <2> PICK c \in Command : UserCommand(c)
      BY <1>9
    <2> DEFINE m == Posted(c, 0)
    <2>1. m \in Message /\ m.id = c
      BY DEF Posted, Message, ClientMsg
    <2>2. /\ c \notin ClientMsg
          /\ c \notin {"LOGIN", "OPENING", "CONNECTED", "OPEN"}
      BY DEF Command, ClientMsg
    <2>3. queue' = Append(queue, m) /\ Quiet
      BY DEF UserCommand, Post
    <2> HIDE DEF m
    <2>4. IsLive(m, pump, races)
      BY <2>1, <2>2 DEF IsLive
    <2>5. Fits(queue')
      BY <2>1, <2>2, <2>3, <2>4, AppendFits DEF IInv
    <2> QED BY <2>3, <2>5, QuietStep
  <1> QED
    BY <1>2, <1>3, <1>4, <1>5, <1>6, <1>7, <1>8, <1>9 DEF Stream, User

LEMMA InitIInv ==
    ASSUME Init
    PROVE  IInv
  <1> USE DEF Init
  <1>1. TypeOK
    <2>1. /\ "NONE" \in XmppState /\ "off" \in StreamState /\ "no" \in Crash
          /\ "none" \in Callback
      BY DEF XmppState, StreamState, Crash, Callback
    <2>2. queue \in Seq(Message)
      OBVIOUS
    <2> QED BY <2>1, <2>2 DEF TypeOK
  <1>2. Objects
    BY DEF Objects, ObjectsTogether, DelegateClientAlive, TimedUntilOpen, Making,
           OpenNeverCrashes
  <1>3. DOMAIN queue = {} /\ queue \in Seq(Message)
    OBVIOUS
  <1>4. Fits(queue)
    BY <1>3 DEF Fits, Live, IsLive, Ordered, Calm, Mute, NoLogin
  <1>5. Begun /\ Detached /\ Holding
    BY DEF Begun, Detached, Holding
  <1> QED BY <1>1, <1>2, <1>4, <1>5 DEF IInv

LEMMA StutterStep ==
    ASSUME IInv, UNCHANGED vars
    PROVE  IInv'
  <1> USE DEF vars, thread, delegate, model, module
  <1>1. Quiet /\ queue' = queue
    BY DEF Quiet
  <1>2. Fits(queue')
    BY <1>1 DEF IInv
  <1> QED BY <1>1, <1>2, QuietStep

LEMMA NextStep ==
    ASSUME IInv, [Next]_vars
    PROVE  IInv'
  <1>1. CASE \E n \in timers : LoginTimeout(n)
    <2> PICK n \in timers : LoginTimeout(n)
      BY <1>1
    <2>1. Fits(queue) /\ timers \ {n} \in SUBSET timers
      BY DEF IInv
    <2> QED BY <2>1, DisconnectStep DEF LoginTimeout
  <1>2. CASE \E b \in BOOLEAN : CallChanges(b)
    BY <1>2, CallStep
  <1>3. CASE Dispatch
    BY <1>3, DispatchStep
  <1>4. CASE Stream \/ User
    BY <1>4, StreamUserStep
  <1>5. CASE Module
    BY <1>5, CallbackStep
  <1>6. CASE UNCHANGED vars
    BY <1>6, StutterStep
  <1> QED BY <1>1, <1>2, <1>3, <1>4, <1>5, <1>6 DEF Next

-----------------------------------------------------------------------------
(* The theorems *)

\* The inductive invariant holds.
THEOREM Invariance == Spec => []IInv
  <1>1. Init => IInv
    BY InitIInv
  <1>2. IInv /\ [Next]_vars => IInv'
    BY NextStep
  <1> QED BY <1>1, <1>2, PTL DEF Spec

\* Every variable has its type.
THEOREM TypeCorrectness == Spec => []TypeOK
  <1>1. IInv => TypeOK
    BY DEF IInv
  <1> QED BY <1>1, Invariance, PTL

\* LoginS, OnConnected, ResetMedia and DisconnectS keep the session manager,
\* the pump, the media client and the call consistent.
THEOREM PointersTogether == Spec => []ObjectsTogether
  <1>1. IInv => ObjectsTogether
    BY DEF IInv, Objects
  <1> QED BY <1>1, Invariance, PTL

\* The destructors clear the messages of the clients that LoginS and ResetMedia
\* delete: what is queued for a client is for the live one, or was posted by a
\* callback of the stream that called a client deleted under it.  client_ is the
\* live client but in the middle of LoginS.
THEOREM NoStaleMessages == Spec => []StaleNeverSpeaks
  <1>1. IInv => StaleNeverSpeaks
    BY DEF IInv, Objects, Fits, Live, IsLive, StaleNeverSpeaks
  <1> QED BY <1>1, Invariance, PTL

\* A login has a timeout pending until it opened: a timeout that fires closes
\* the login that is connecting, whichever armed it, and OnConnected clears all.
THEOREM TimedUntilItOpens == Spec => []TimedUntilOpen
  <1>1. IInv => TimedUntilOpen
    BY DEF IInv, Objects
  <1> QED BY <1>1, Invariance, PTL

\* A client opens only while the delegate still has the stream's module, unless
\* the close that forgot it raced with a callback; no command kills a client
\* that is open, and OnConnected has its session manager.
THEOREM OpenKeepsObjects == Spec => []OpenHasItsObjects
  <1>1. IInv => OpenKeepsModule
    BY DEF IInv, Detached, OpenKeepsModule
  <1>2. IInv => OpenNeverCrashes
    BY DEF IInv, Objects
  <1>3. IInv => OpenHasItsObjects
    BY <1>1, <1>2 DEF OpenHasItsObjects
  <1> QED BY <1>3, Invariance, PTL

-----------------------------------------------------------------------------
(* The account *)

\* A step that keeps the login and the process is a stutter of the account.
LEMMA SameAccount ==
    ASSUME UNCHANGED <<xmpp, serial, crashed>>
    PROVE  UNCHANGED Promise!vars
  BY DEF Promise!vars, Status

LEMMA DeadAccount ==
    ASSUME NEW r, r # "no", Die(r)
    PROVE  Promise!Next
  BY DEF Promise!Next, Promise!Die, Status, Die, thread

LEMMA KilledAccount ==
    ASSUME UNCHANGED <<xmpp, serial>>, crashed' # "no"
    PROVE  Promise!Next
  BY DEF Promise!Next, Promise!Die, Status

\* DoDisconnect of a live pump ends the attempt, or the process dies of it.
LEMMA EndedAccount ==
    ASSUME crashed = "no", xmpp \notin {"NONE", "CLOSED"}, xmpp' = "CLOSED",
           serial' = serial
    PROVE  Promise!Next
  <1>1. Status \in {"connecting", "online"}
    BY DEF Status
  <1>2. CASE crashed' = "no"
    BY <1>1, <1>2 DEF Promise!Next, Promise!End, Status
  <1>3. CASE crashed' # "no"
    BY <1>3 DEF Promise!Next, Promise!Die, Status
  <1> QED BY <1>2, <1>3

LEMMA DisconnectAccount ==
    ASSUME IInv, crashed = "no", NEW q, NEW t, DisconnectS(q, t)
    PROVE  [Promise!Next]_(Promise!vars)
  <1>1. ~(call /\ media = 0)
    BY DEF IInv, Objects, ObjectsTogether
  <1>2. crashed' = crashed
    BY <1>1 DEF DisconnectS
  <1>3. CASE xmpp \notin {"NONE", "CLOSED"} /\ pump # 0
    BY <1>1, <1>3, EndedAccount DEF DisconnectS, DoDisconnect
  <1>4. CASE ~(xmpp \notin {"NONE", "CLOSED"} /\ pump # 0)
    BY <1>1, <1>2, <1>4, SameAccount DEF DisconnectS
  <1> QED BY <1>3, <1>4

LEMMA DispatchAccount ==
    ASSUME IInv, Dispatch
    PROVE  [Promise!Next]_(Promise!vars)
  <1>1. CASE LoginReset \/ LoginMakes
    BY <1>1, SameAccount DEF LoginReset, LoginMakes
  <1>2. CASE DoLogin
    <2>1. /\ crashed = "no" /\ crashed' = "no" /\ xmpp' = "START"
          /\ serial' = serial + 1
      BY <1>2 DEF DoLogin, IInv, Objects, Making
    <2> QED BY <2>1 DEF Promise!Next, Promise!Begin, Status
  <1>3. CASE MsgDisconnect
    BY <1>3, DisconnectAccount DEF MsgDisconnect, Dispatching
  <1>4. CASE (\E found \in BOOLEAN : MsgCall(found)) \/ MsgEndCall
             \/ MsgSendXmppMessage
    <2>1. Die("media") \/ Die("pump") \/ Quiet
      BY <1>4 DEF MsgCall, MsgEndCall, MsgSendXmppMessage
    <2> QED BY <2>1, DeadAccount, SameAccount DEF Quiet, thread
  <1>5. CASE MsgCleared \/ MsgInput \/ MsgConnected
    BY <1>5, SameAccount DEF MsgCleared, MsgInput, MsgConnected, Quiet, thread
  <1>6. CASE MsgToDeleted
    <2>1. UNCHANGED <<xmpp, serial>> /\ crashed' \in {crashed, "client"}
      BY <1>6 DEF MsgToDeleted, Dispatching, thread
    <2> QED BY <2>1, KilledAccount, SameAccount
  <1>7. CASE MsgBadInput
    <2>1. crashed = "no" /\ xmpp \notin {"NONE", "CLOSED"}
      BY <1>7 DEF MsgBadInput, Reaching, Dispatching, IInv, Objects,
                  ObjectsTogether
    <2> QED BY <1>7, <2>1, EndedAccount DEF MsgBadInput, DoDisconnect
  <1>8. CASE MsgOpening
    <2>1. /\ xmpp = "START" /\ xmpp' = "OPENING" /\ serial' = serial
          /\ crashed' = crashed
      BY <1>8, DispatchedQueue DEF MsgOpening, Reaching
    <2> QED BY <2>1 DEF Promise!vars, Status
  <1>9. CASE MsgOpen
    <2>1. crashed = "no" /\ xmpp \notin {"NONE", "CLOSED"} /\ manager # 0
      BY <1>9 DEF MsgOpen, Reaching, Dispatching, IInv, Objects, ObjectsTogether
    <2>2. CASE xmpp = "OPEN"
      BY <1>9, <2>2, SameAccount DEF MsgOpen, OnConnected, Quiet, thread
    <2>3. CASE xmpp # "OPEN"
      <3>1. xmpp' = "OPEN" /\ serial' = serial /\ crashed' = crashed
        BY <1>9, <2>1, <2>3 DEF MsgOpen, OnConnected
      <3> QED BY <2>1, <2>3, <3>1 DEF Promise!Next, Promise!Succeed, Status
    <2> QED BY <2>2, <2>3
  <1> QED
    BY <1>1, <1>2, <1>3, <1>4, <1>5, <1>6, <1>7, <1>8, <1>9 DEF Dispatch

LEMMA NextAccount ==
    ASSUME IInv, [Next]_vars
    PROVE  [Promise!Next]_(Promise!vars)
  <1>1. CASE Dispatch
    BY <1>1, DispatchAccount
  <1>2. CASE \E n \in timers : LoginTimeout(n)
    BY <1>2, DisconnectAccount DEF LoginTimeout
  <1>3. CASE \E b \in BOOLEAN : CallChanges(b)
    BY <1>3, SameAccount DEF CallChanges
  <1>4. CASE Stream \/ User
    <2>1. Die("login") \/ UNCHANGED <<xmpp, serial, crashed>>
      BY <1>4 DEF Stream, User, DidConnect, DidNotAuthenticate, DidAuthenticate,
                  DidReceiveIQ, DidDisconnect, Connect, Reconnect, UserCommand,
                  PostLogin, Quiet, thread
    <2> QED BY <2>1, DeadAccount, SameAccount
  <1>5. CASE Module
    <2>1. /\ UNCHANGED <<xmpp, serial>>
          /\ crashed' \in {crashed, "auth", "client"}
      BY <1>5 DEF Module, GetClient, HandleInput, ConnectionConnected, IsDone,
                  Continue, CallClient, Die, thread
    <2> QED BY <2>1, KilledAccount, SameAccount
  <1>6. CASE UNCHANGED vars
    BY <1>6, SameAccount DEF vars, thread
  <1> QED BY <1>1, <1>2, <1>3, <1>4, <1>5, <1>6 DEF Next

\* The client implements Account: each of its steps begins an attempt, opens
\* the one that is connecting, ends it, is the death of the process, or is
\* none of the account's business.
THEOREM ImplementsAccount == Spec => KeepsAccount
  <1>1. Init => Promise!Init
    BY DEF Init, Promise!Init, Status
  <1>2. IInv /\ [Next]_vars => [Promise!Next]_(Promise!vars)
    BY NextAccount
  <1> QED BY <1>1, <1>2, Invariance, PTL DEF Spec, KeepsAccount, Promise!Spec
=============================================================================
