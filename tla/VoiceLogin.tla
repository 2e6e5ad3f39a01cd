----------------------------- MODULE VoiceLogin -----------------------------
(***************************************************************************)
(* The login half of ClientSignalingThread in the iOS build, with the      *)
(* objects of a login (SessionManager, MediaSessionClient, TXmppPump and   *)
(* its IOSXmppClient), VoiceClientDelegate, which the stream's callbacks   *)
(* reach the client through, and AppXmppModel, which owns the stream.      *)
(*                                                                         *)
(* The signalling thread dispatches one message per action; LoginS takes   *)
(* three, because other threads see client_ between them.  The stream's    *)
(* module runs on a queue of its own: its callbacks read client_ without a *)
(* lock, call the client they read, and what they call posts to the        *)
(* signalling thread.  The application runs on the main thread.            *)
(*                                                                         *)
(* Logins are numbered by the order of LoginS, 0 is a null pointer, and    *)
(* every object carries the number of the login that created it: the       *)
(* client number n is deleted when pump is no longer n.  A pump and its    *)
(* client are one object: the client is a task of the pump and dies with   *)
(* it.  Calling a deleted client is undefined: the process dies, nothing   *)
(* happens, or the call reaches the client now allocated in its place.     *)
(***************************************************************************)
EXTENDS Naturals, Sequences

CONSTANTS
    Commands,   \* what the user may ask for, a subset of Command
    Env,        \* what may go wrong, a subset of EnvKind
    MaxLogins,  \* bound: calls of VoiceClientDelegate::Login
    MaxQueue    \* bound: nothing is added from outside to a longer queue

Command == {"CALL", "END", "SEND", "DISCONNECT"}

EnvKind == {"badpassword",  \* the server may refuse the password
            "badinput",     \* the XML engine may find an error in its input
            "drop"}         \* the connection may be lost

ASSUME ParameterAssumption ==
    /\ Commands \subseteq Command
    /\ Env \subseteq EnvKind
    /\ MaxLogins \in Nat
    /\ MaxQueue \in Nat

VARIABLES
    \* ClientSignalingThread
    xmpp,      \* xmpp_state_ (and TXmppPump::state_, set with it)
    serial,    \* how many times LoginS logged in
    pump,      \* sp_pump_, with its client
    manager,   \* sp_session_manager_
    media,     \* sp_media_client_: the login whose manager it uses
    call,      \* call_ is not null
    timers,    \* the logins whose MSG_LOGIN_TIMEOUT is pending
    queue,     \* messages of the signalling thread
    loginAt,   \* where LoginS is: it has deleted, it has made the pump
    \* VoiceClientDelegate
    client,    \* client_
    attached,  \* xmppClientDelegate_ is not nil
    \* AppXmppModel and its stream
    app,       \* its xmppClientDelegate is there and activated
    stream,    \* the state of the XMPPStream
    asked,     \* how many logins were posted
    \* XmppClientDelegate, the stream's module
    callback,  \* what its queue has to do next
    held,      \* the client that the running callback read
    races,     \* history: what went wrong between the two threads
    \* The process
    crashed    \* "no", or what it died of

thread == <<xmpp, serial, pump, manager, media, call, timers, loginAt>>
delegate == <<client, attached>>
model == <<app, stream, asked>>
module == <<callback, held>>
vars == <<thread, queue, delegate, model, module, races, crashed>>

XmppState == {"NONE", "START", "OPENING", "OPEN", "CLOSED"}
StreamState == {"off", "connecting", "connected", "authenticating",
                "authenticated", "closing"}
ClientMsg == {"INPUT", "CONNECTED", "OPENING", "OPEN"}
Message == [id : Command \cup ClientMsg \cup {"LOGIN", "CLEARED"},
            client : Nat]
Crash == {"no", "login", "auth", "media", "manager", "pump", "engine",
          "client"}

\* What a callback does next: the three that wait to run, and what the running
\* one calls.  A login that is reported to the client takes three steps.
Authenticating == {"auth", "hello", "connected"}
Callback == Authenticating \cup {"none", "iq", "input", "end", "isdone"}

\* "deleted": a callback called a deleted client.  "late": the engine closed
\* while the report of an authentication was under way.
Race == {"deleted", "late"}

-----------------------------------------------------------------------------
(* Helpers *)

Posted(id, n) == [id |-> id, client |-> n]

\* The destructor of a message handler clears its messages: they keep their
\* place and do nothing.
Cleared(q, n) ==
    [i \in DOMAIN q |-> IF q[i].client = n /\ n # 0 THEN Posted("CLEARED", 0)
                                                    ELSE q[i]]

Dispatching(ids) ==
    /\ crashed = "no" /\ loginAt = "none"
    /\ queue # <<>> /\ Head(queue).id \in ids

\* A message reaches the client it was posted to or, when that one is deleted,
\* the one in its place.
Reaching(ids) == Dispatching(ids) /\ pump # 0

\* The process dies in the running handler.
Die(reason) ==
    /\ crashed' = reason
    /\ UNCHANGED <<thread, queue, delegate, model, module, races>>

\* Nothing outside the queue changes.
Quiet == UNCHANGED <<thread, delegate, model, module, races, crashed>>

-----------------------------------------------------------------------------
(* The signalling thread *)

\* VoiceClientDelegate::CloseConnection closes the stream and forgets the
\* client and the stream's module.
CloseConnection ==
    /\ stream' = IF attached /\ stream # "off" THEN "closing" ELSE stream
    /\ client' = 0 /\ attached' = FALSE
    /\ races' = IF callback \in Authenticating THEN races \cup {"late"}
                                               ELSE races
    /\ UNCHANGED <<app, asked, module>>

\* Mutant of ResetMedia: the messages of the dead client stay.
MessagesSurvive(q) ==
    /\ pump' = 0 /\ media' = 0 /\ call' = FALSE
    /\ queue' = q

\* ResetMedia deletes the media client with its calls, and the pump.
ResetMedia(q) ==
    /\ pump' = 0 /\ media' = 0 /\ call' = FALSE
    /\ queue' = Cleared(q, pump)

\* TXmppPump::DoDisconnect: the engine closes the connection, and the state
\* change resets the media.
DoDisconnect(q) ==
    /\ CloseConnection
    /\ xmpp' = "CLOSED"
    /\ ResetMedia(q)
    /\ UNCHANGED <<serial, loginAt>>

\* Mutant of DisconnectS: only an open client is closed.
DisconnectOnlyOpen(q, timersLeft) ==
    /\ IF xmpp = "OPEN" THEN DoDisconnect(q)
       ELSE /\ queue' = q
            /\ call' = FALSE
            /\ UNCHANGED <<xmpp, serial, pump, media, loginAt, delegate, model,
                           module, races>>
    /\ manager' = 0
    /\ timers' = timersLeft
    /\ UNCHANGED crashed

\* DisconnectS; EndAllCalls goes through the media client.
DisconnectS(q, timersLeft) ==
    IF call /\ media = 0 THEN Die("media")
    ELSE /\ IF xmpp \notin {"NONE", "CLOSED"} /\ pump # 0
            THEN DoDisconnect(q)
            ELSE /\ queue' = q
                 /\ call' = FALSE
                 /\ UNCHANGED <<xmpp, serial, pump, media, loginAt, delegate,
                                model,
                           module, races>>
         /\ manager' = 0
         /\ timers' = timersLeft
         /\ UNCHANGED crashed

\* LoginS deletes what an unfinished login left (a closed one left no media
\* client and no pump).  The delegate's client_ keeps pointing to the deleted
\* client.
LoginReset ==
    /\ Dispatching({"LOGIN"})
    /\ loginAt' = "reset"
    /\ IF xmpp \in {"NONE", "CLOSED"}
       THEN queue' = Tail(queue) /\ UNCHANGED <<pump, media, call>>
       ELSE ResetMedia(Tail(queue))
    /\ UNCHANGED <<xmpp, serial, manager, timers, delegate, model, module,
                   races, crashed>>

\* A new pump makes its client and gives it to the delegate.
NewPump(n) == pump' = n /\ client' = n

\* The session manager and the pump are replaced.
LoginMakes ==
    LET n == serial + 1
    IN  /\ crashed = "no" /\ loginAt = "reset"
        /\ loginAt' = "made"
        /\ manager' = n /\ NewPump(n)
        /\ UNCHANGED <<xmpp, serial, media, call, timers, queue, attached,
                       model,
                       module, races, crashed>>

\* Mutant of DoLogin: the pump does not report that it starts.
StartUnreported ==
    /\ crashed = "no" /\ loginAt = "made"
    /\ loginAt' = "none"
    /\ timers' = timers \cup {pump}
    /\ serial' = pump
    /\ queue' = Append(queue, Posted("OPENING", pump))
    /\ UNCHANGED <<xmpp, pump, manager, media, call, delegate, model, module,
                   races, crashed>>

\* The timeout is armed, that of an earlier login stays, and the pump logs in:
\* its engine reports by message that it is opening.
DoLogin ==
    /\ crashed = "no" /\ loginAt = "made"
    /\ loginAt' = "none"
    /\ timers' = timers \cup {pump}
    /\ xmpp' = "START" /\ serial' = pump
    /\ queue' = Append(queue, Posted("OPENING", pump))
    /\ UNCHANGED <<pump, manager, media, call, delegate, model, module, races,
                   crashed>>

MsgDisconnect ==
    /\ Dispatching({"DISCONNECT"})
    /\ DisconnectS(Tail(queue), timers)

LoginTimeout(n) ==
    /\ crashed = "no" /\ loginAt = "none"
    /\ n \in timers
    /\ DisconnectS(queue, timers \ {n})

\* CallS uses the media client only if it knows whom to call.
MsgCall(found) ==
    /\ Dispatching({"CALL"})
    /\ IF found /\ media = 0 THEN Die("media")
       ELSE queue' = Tail(queue) /\ Quiet

\* GetCall, the first thing the other operations on calls do.
MsgEndCall ==
    /\ Dispatching({"END"})
    /\ IF media = 0 THEN Die("media")
       ELSE queue' = Tail(queue) /\ Quiet

MsgSendXmppMessage ==
    /\ Dispatching({"SEND"})
    /\ IF pump = 0 THEN Die("pump")
       ELSE queue' = Tail(queue) /\ Quiet

MsgCleared ==
    /\ Dispatching({"CLEARED"})
    /\ queue' = Tail(queue)
    /\ Quiet

\* The client was deleted after the message was posted to it, or before.
MsgToDeleted ==
    /\ Dispatching(ClientMsg) /\ Head(queue).client # pump
    /\ queue' = Tail(queue)
    /\ crashed' \in {"no", "client"}
    /\ UNCHANGED <<thread, delegate, model, module, races>>

\* Mutant of MsgConnected: it reports the wrong state.
ConnectedReportsClosed ==
    /\ Reaching({"CONNECTED"})
    /\ queue' = Append(Tail(queue), Posted("CLOSED", pump))
    /\ Quiet

\* IOSXmppClient::OnMessage
MsgConnected ==
    /\ Reaching({"CONNECTED"})
    /\ queue' = Append(Tail(queue), Posted("OPEN", pump))
    /\ Quiet

MsgInput ==
    /\ Reaching({"INPUT"})
    /\ queue' = Tail(queue)
    /\ Quiet

\* An error in the input: the engine closes the connection while it runs, the
\* close event makes the pump disconnect, and the pump deletes the engine.
\* The engine then writes to its own freed memory: it dies or gets away.
MsgBadInput ==
    /\ "badinput" \in Env
    /\ Reaching({"INPUT"})
    /\ DoDisconnect(Tail(queue))
    /\ crashed' \in {"no", "engine"}
    /\ UNCHANGED <<manager, timers>>

\* The state changes of the engine reach TXmppPump::OnStateChange by message.
MsgOpening ==
    /\ Reaching({"OPENING"})
    /\ queue' = Tail(queue)
    /\ xmpp' = "OPENING"
    /\ UNCHANGED <<serial, pump, manager, media, call, timers, loginAt,
                   delegate,
                   model, module, races, crashed>>

\* Mutants of OnConnected: the login timeout is not cleared, or no media client
\* is made.
ConnectedKeepsTimeout ==
    IF manager = 0 THEN Die("manager")
    ELSE /\ queue' = Tail(queue)
         /\ xmpp' = "OPEN"
         /\ media' = manager
         /\ UNCHANGED <<serial, pump, manager, call, timers, loginAt, delegate,
                        model, module, races, crashed>>

ConnectedWithoutMedia ==
    /\ queue' = Tail(queue)
    /\ xmpp' = "OPEN"
    /\ timers' = {}
    /\ UNCHANGED <<serial, pump, manager, media, call, loginAt, delegate,
                   model,
                   module, races, crashed>>

\* OnConnected, which the pump's OnStateChange reaches once.
OnConnected ==
    IF xmpp = "OPEN" THEN queue' = Tail(queue) /\ Quiet
    ELSE IF manager = 0 THEN Die("manager")
    ELSE /\ queue' = Tail(queue)
         /\ xmpp' = "OPEN"
         /\ media' = manager
         /\ timers' = {}
         /\ UNCHANGED <<serial, pump, manager, call, loginAt, delegate, model,
                        module, races, crashed>>

MsgOpen == Reaching({"OPEN"}) /\ OnConnected

\* OnSessionState of an answered call, and OnCallDestroy.
CallChanges(b) ==
    /\ crashed = "no" /\ loginAt = "none"
    /\ media # 0
    /\ call # b
    /\ call' = b
    /\ UNCHANGED <<xmpp, serial, pump, manager, media, timers, loginAt, queue,
                   delegate, model, module, races, crashed>>

-----------------------------------------------------------------------------
(* The application and the stream *)

Post(m) == Len(queue) < MaxQueue /\ queue' = Append(queue, m)

\* VoiceClientDelegate::Login, called for a nil module when there is none.
PostLogin ==
    /\ asked < MaxLogins
    /\ asked' = asked + 1
    /\ Post(Posted("LOGIN", 0))
    /\ UNCHANGED <<thread, delegate, app, module, races, crashed>>

\* AppXmppModel connect: while the stream is off.
Connect ==
    /\ crashed = "no"
    /\ stream = "off"
    /\ stream' = "connecting"
    /\ UNCHANGED <<thread, queue, delegate, app, asked, module, races,
                   crashed>>

\* AppXmppModel connect: on a stream whose authentication failed.
Reconnect ==
    /\ crashed = "no"
    /\ stream = "connected"
    /\ IF app THEN stream' = "authenticating" /\ PostLogin ELSE Die("login")

\* xmppStreamDidConnect: only an authentication that could be started logs the
\* voice client in.
DidConnect(started) ==
    /\ crashed = "no"
    /\ stream = "connecting"
    /\ stream' = IF started THEN "authenticating" ELSE "connected"
    /\ IF started /\ app THEN PostLogin
       ELSE UNCHANGED <<thread, queue, delegate, app, asked, module, races,
                   crashed>>

DidNotAuthenticate ==
    /\ crashed = "no"
    /\ "badpassword" \in Env
    /\ stream = "authenticating"
    /\ stream' = "connected"
    /\ UNCHANGED <<thread, queue, delegate, app, asked, module, races,
                   crashed>>

\* What the stream reports to its module runs later, on the module's queue.
\* Bound: one report at a time.
Report(kind) ==
    /\ callback' = IF app THEN kind ELSE "none"
    /\ UNCHANGED held

DidAuthenticate ==
    /\ crashed = "no" /\ callback = "none"
    /\ stream = "authenticating"
    /\ stream' = "authenticated"
    /\ Report("auth")
    /\ UNCHANGED <<thread, queue, delegate, app, asked, races, crashed>>

DidReceiveIQ ==
    /\ crashed = "no" /\ callback = "none"
    /\ stream = "authenticated" /\ app
    /\ Report("iq")
    /\ UNCHANGED <<thread, queue, delegate, model, races, crashed>>

\* xmppStreamDidDisconnect: the application deactivates the module for good,
\* which waits for the module's queue, and nobody tells the client.
DidDisconnect ==
    /\ crashed = "no" /\ callback = "none"
    /\ stream = "closing" \/ ("drop" \in Env /\ stream # "off")
    /\ stream' = "off"
    /\ app' = FALSE
    /\ Report("end")
    /\ UNCHANGED <<thread, queue, delegate, asked, races, crashed>>

\* The operations of the user, which only post.
UserCommand(c) ==
    /\ crashed = "no"
    /\ c \in Commands
    /\ c \in {"CALL", "END"} => app
    /\ Post(Posted(c, 0))
    /\ Quiet

-----------------------------------------------------------------------------
(* The queue of the stream's module *)

\* A callback reads client_ without a lock.  The report of an authentication
\* does not check that there is a client.
GetClient ==
    /\ crashed = "no" /\ callback \in {"auth", "iq", "end"}
    /\ IF client # 0
       THEN /\ held' = client
            /\ callback' = CASE callback = "auth" -> "hello"
                              [] callback = "iq" -> "input"
                              [] callback = "end" -> "isdone"
            /\ UNCHANGED <<thread, queue, delegate, model, races, crashed>>
       ELSE IF callback = "auth" THEN Die("auth")
       ELSE /\ callback' = "none"
            /\ UNCHANGED <<thread, queue, delegate, model, held, races,
                           crashed>>

\* The callback calls the client it read, to post a message.
CallClient(id) ==
    \/ /\ held = pump
       /\ Post(Posted(id, held))
       /\ UNCHANGED <<races, crashed>>
    \/ /\ held # pump
       /\ races' = races \cup {"deleted"}
       /\ \/ crashed' = "client" /\ UNCHANGED queue
          \/ UNCHANGED <<queue, crashed>>
          \/ Post(Posted(id, held)) /\ UNCHANGED crashed

\* The callback goes on, or it returns.
Continue(next) ==
    /\ callback' = next
    /\ held' = IF next = "none" THEN 0 ELSE held
    /\ UNCHANGED <<thread, delegate, model>>

\* HandleInput with what the stream received, and with the header that the
\* callback makes up before it reports the authentication.
HandleInput ==
    /\ crashed = "no"
    /\ \/ callback = "hello" /\ Continue("connected")
       \/ callback = "input" /\ Continue("none")
    /\ CallClient("INPUT")

ConnectionConnected ==
    /\ crashed = "no" /\ callback = "connected"
    /\ Continue("none")
    /\ CallClient("CONNECTED")

\* The report of a disconnect only asks whether the client is done.
IsDone ==
    /\ crashed = "no" /\ callback = "isdone"
    /\ Continue("none")
    /\ IF held = pump THEN UNCHANGED <<races, crashed>>
       ELSE races' = races \cup {"deleted"} /\ crashed' \in {"no", "client"}
    /\ UNCHANGED queue

-----------------------------------------------------------------------------
(* Specification *)

Init ==
    /\ xmpp = "NONE" /\ serial = 0
    /\ pump = 0 /\ manager = 0 /\ media = 0 /\ call = FALSE
    /\ timers = {} /\ queue = <<>> /\ loginAt = "none"
    /\ client = 0 /\ attached = TRUE
    /\ app = TRUE /\ stream = "off" /\ asked = 0
    /\ callback = "none" /\ held = 0 /\ races = {}
    /\ crashed = "no"

Dispatch ==
    \/ LoginReset
    \/ LoginMakes
    \/ DoLogin
    \/ MsgDisconnect
    \/ \E found \in BOOLEAN : MsgCall(found)
    \/ MsgEndCall
    \/ MsgSendXmppMessage
    \/ MsgCleared
    \/ MsgToDeleted
    \/ MsgConnected
    \/ MsgInput
    \/ MsgBadInput
    \/ MsgOpening
    \/ MsgOpen

Stream ==
    \/ \E started \in BOOLEAN : DidConnect(started)
    \/ DidNotAuthenticate
    \/ DidAuthenticate
    \/ DidReceiveIQ
    \/ DidDisconnect

Module ==
    \/ GetClient
    \/ HandleInput
    \/ ConnectionConnected
    \/ IsDone

User ==
    \/ Connect
    \/ Reconnect
    \/ \E c \in Command : UserCommand(c)

Next ==
    \/ Dispatch
    \/ \E n \in timers : LoginTimeout(n)
    \/ \E b \in BOOLEAN : CallChanges(b)
    \/ Stream
    \/ Module
    \/ User

Spec == Init /\ [][Next]_vars

\* The signalling thread runs and its clock advances.  Nothing is assumed of
\* the stream or the user.
Fairness ==
    /\ WF_vars(Dispatch)
    /\ WF_vars(\E n \in timers : LoginTimeout(n))

FairSpec == Spec /\ Fairness

-----------------------------------------------------------------------------
(* Properties *)

\* Every variable has its type.
TypeOK ==
    /\ xmpp \in XmppState
    /\ serial \in Nat /\ pump \in Nat /\ manager \in Nat /\ media \in Nat
    /\ client \in Nat /\ asked \in Nat
    /\ call \in BOOLEAN /\ attached \in BOOLEAN /\ app \in BOOLEAN
    /\ timers \subseteq Nat
    /\ queue \in Seq(Message)
    /\ stream \in StreamState
    /\ crashed \in Crash
    /\ loginAt \in {"none", "reset", "made"}
    /\ callback \in Callback /\ held \in Nat /\ races \subseteq Race

\* The scoped pointers of ClientSignalingThread live and die together although
\* LoginS, OnConnected, ResetMedia and DisconnectS each set some of them: the
\* media client never outlives the session manager and the pump it was made
\* for (it holds a raw pointer to the first), call_ never outlives the media
\* client, and between handlers an open client has all three and a closed one
\* has no pump.
ObjectsTogether ==
    /\ media # 0 => media = manager /\ media = pump
    /\ pump # 0 => manager = pump
    /\ call => media # 0
    /\ loginAt = "none" => /\ xmpp = "OPEN" => media # 0
                           /\ xmpp \in {"NONE", "CLOSED"} <=> pump = 0

\* VoiceClientDelegate::client_, which the stream's callbacks use on another
\* thread, is the client of the live pump, but for the moment in which LoginS
\* has deleted the old pump and not yet made the new one.
DelegateClientAlive == loginAt # "reset" => client = pump

\* A deleted client neither hears nor speaks, unless a callback of the stream
\* called one that was deleted under it: whatever logins and closes delete, the
\* messages left in the queue for a client are for the live one, so nothing
\* that was posted to an earlier client opens a later one.  What the engine itself
\* reports is for the live client even after such a call.
StaleNeverSpeaks ==
    /\ DelegateClientAlive
    /\ \A i \in DOMAIN queue :
          \/ queue[i].id \notin ClientMsg
          \/ queue[i].client = pump /\ pump # 0
          \/ queue[i].id \in {"INPUT", "CONNECTED"} /\ "deleted" \in races

\* A login that may still hang has its own timeout pending, whatever timeouts
\* of earlier logins fired meanwhile; one that succeeded is never timed out,
\* neither by its own timer nor by one that an earlier login left behind.
TimedUntilOpen ==
    /\ xmpp \in {"START", "OPENING"} => serial \in timers
    /\ xmpp = "OPEN" => timers = {}

\* VoiceClientDelegate forgets the stream's module on the first close, and no
\* later login may open without it: its writes would go nowhere.  Only a report
\* of an authentication that the close overtook, or that went to a deleted
\* client, opens such a client.  Whether the module has a socket is up to the
\* stream.
OpenKeepsModule == xmpp = "OPEN" /\ ~attached => races # {}

\* Commands are dispatched without a check of the objects they use.  A client
\* that is open never dies of it, and OnConnected always finds its session
\* manager.
OpenNeverCrashes ==
    /\ crashed \in {"media", "pump"} => xmpp # "OPEN"
    /\ crashed # "manager"

\* A client that reports itself open has the objects that the user's commands
\* use: those of the signalling thread always, the delegate's module but for
\* the one race.
OpenHasItsObjects == OpenKeepsModule /\ OpenNeverCrashes

\* The client implements Account.
Status ==
    IF crashed # "no" THEN "dead"
    ELSE IF xmpp \in {"NONE", "CLOSED"} THEN "offline"
    ELSE IF xmpp = "OPEN" THEN "online"
    ELSE "connecting"

Promise == INSTANCE Account WITH status <- Status, attempt <- serial

\* Every step of the client is a step its account allows.
KeepsAccount == Promise!Spec

\* A login does not hang: it opens, or its timeout closes it.
LoginSettles ==
    xmpp \in {"START", "OPENING"} ~>
        xmpp \in {"OPEN", "CLOSED"} \/ crashed # "no"
=============================================================================
