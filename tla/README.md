# Verification of the call signalling of webrtcIosDemo

The repository is an iOS voice-call client: a small C++ core (`src/client`)
that drives libjingle (`src/talk`) for Jingle/Gingle calls, Objective-C glue
(`src/ios`, `src/webrtciosDemo`) and XMPPFramework (`src/XMPP`) for the stream.
This directory holds TLA+ modules that model its control logic, TLC
configurations that check them on small instances, and TLAPS proofs.

Run `tlc -config <file>.cfg <module>` or `tlapm <module>Proofs.tla` in this
directory. `PROJECT.json` lists the runs, the mutants that show each property
can fail, the source lines behind each definition, the findings and the hazards.

## 1. Inventory

| Part | Source | State it keeps | Operations |
|---|---|---|---|
| Session | `talk/p2p/base/session.{h,cc}` | `state_`, `error_`, `initiate_acked_`, unsent candidates, two timers | Initiate, Accept, Reject, Terminate, the `On...Message` handlers, `OnInitiateAcked`, `OnFailedSend`, `OnMessage` |
| SessionManager and send tasks | `talk/p2p/base/sessionmanager.cc`, `sessionsendtask.h`, `sessionmanagertask.h` | `session_map_`; one task per unanswered iq | route stanzas to sessions, create and destroy sessions |
| MediaSessionClient and Call | `talk/session/media/{mediasessionclient,call}.cc` | `calls_`, `session_map_`, `focus_call_`; per call `media_session_map_` and the no-answer timer | create/destroy calls, accept/reject/terminate, focus |
| ClientSignalingThread | `client/clientsignalingthread.cc` | `call_`, XMPP state, the pump and the objects of a login | Call, Accept, Decline, End, Hold, Login, Disconnect; callbacks of all the above |
| TXmppPump, socket | `client/txmpppump.cc`, `txmppsocket.cc` | XMPP engine state, the disconnecting flag | login, disconnect, state changes |
| iOS glue | `ios/*.mm`, `webrtciosDemo/AppXmppModel.mm` | the XMPP stream's state, `client_` and the stream's module of `VoiceClientDelegate` | the stream's callbacks to the engine's messages |
| User interface | `webrtciosDemo/*ViewController.m`, `ios/VoiceClientDelegate.mm` | `call_id_`, the presented screen, its `isInCall` and `_isClose`, its observers | place, accept and close calls, present a screen, alert, decline as busy |
| Thread, MessageQueue | `talk/base/{thread,messagequeue}.cc` | `sendlist_`, `has_sends_`, the queue, `fStop_`, the socket server's signal | Send, ReceiveSends, Get, Post, Clear, Quit, Join |
| Task framework | `talk/base/{task,taskparent,taskrunner}.cc`, `client/txmpppump.cc` | the tree of tasks, their flags and timeouts, the list and the index of the runner | Start, Step, Wake, Abort, RunTasks, timeouts, deletion |
| Keep-alive and ping | `client/keepalivetask.cc`, `talk/xmpp/pingtask.cc` | 32-bit deadlines, delayed messages | send a ping, detect silence, PingNow |
| Presence, roster, chat, auth | `client/*task.cc`, `rosterhandler.cc`, `txmppauth.cc` | rosters | small handlers around the stream |
| Transports, media engines, XMPPFramework | vendored | | not modelled |

**How they interact.** Every user operation of `ClientSignalingThread` posts a
message to one signalling thread. That thread also reads the socket, runs the
XMPP tasks and fires all timers, so a client is sequential *between* messages.
A handler calls downwards (client, Call, Session, send task) and gets signals
back upwards while it runs (`SignalSessionState`, `SignalCallDestroy` ...). Some
effects are deferred by posting to the same queue: `MSG_STATE` after a state
change, `MSG_ERROR` after an error, `MSG_CHECKAUTODESTROY` when a call lost its
last session. Two clients meet only through the server.

**What is hard.** What was posted is handled later, when the session may have
moved on, been terminated by the peer or been destroyed. Acknowledgements,
terminates and accepts cross. A session, its call and three maps die in separate
messages while raw pointers to them exist. Four timers race with the answers
that should stop them. The callee has no timer at all. A disconnect tears
everything down inside the handler of one message. The XMPP stream lives on
another thread and reaches the engine through a pointer, read without a lock, that
the signalling thread replaces at every login. A second login may find a timeout of the first.
The interface is split over three threads that share `call_id_`, the one variable
that says which call a button means. Threads that wait for each other in `Send`
serve each other's sends, so one thread has several waits on its stack and one
signal for all of them. Tasks are aborted from inside the loop that steps them,
and deleted later.

**What makes each part correct.**

* Sessions: a terminal state is final; nobody believes a call accepted that the
  callee did not accept; a phone does not ring for ever; candidates do not
  overtake their initiate.
* Calls and maps: the maps agree; no pointer outlives its call; whatever is over
  is destroyed; the no-answer timer does not end an answered call.
* Login: an old timeout does not end a new login; no handler uses an object a
  disconnect deleted; a disconnect reaches the closed state.
* Interface: a button acts on the call the user sees, a screen learns of the end
  of its call, and closing it ends the call.
* Threads: a send is handled once, while its sender waits; no wake-up is lost;
  threads that send to each other do not wait for ever.
* Tasks: no pointer outlives a task; what can run is run and what is over is
  deleted, whoever ended it and wherever it was.
* Ping: silence is noticed after the period, and only silence.

## 2. Modules

| Module | Contents |
|---|---|
| `CallSession` | sessions, calls, managers, send tasks, timers and the call half of `ClientSignalingThread`, for any set of clients joined by a server |
| `CallPromise` | abstract specification: what a call promises its two users |
| `MCCallSession` | instance: alice may call bob, one sid |
| `MCGlare` | instance: alice and bob may call each other, one sid each |
| `CallSessionProofs` | the theorems about `CallSession`'s pointers, maps and timers, and their proofs |
| `CallDutyProofs` | its theorems about duties, candidates and late acks, and that it implements `CallPromise` |
| `VoiceLogin` | the login half of `ClientSignalingThread`, `TXmppPump`, `IOSXmppClient`, `VoiceClientDelegate` and the application's stream |
| `Account` | abstract specification: offline, connecting, online |
| `VoiceLoginProofs` | the theorems about `VoiceLogin` and their proofs |
| `CallScreen` | the view controllers, `VoiceClientDelegate` and the signalling thread of one phone, around `call_id_` |
| `ThreadSend` | `Thread::Send` and the loop of `MessageQueue::Get`, with every interleaving of the threads |
| `TaskRunner` | the tree of tasks and the loop that steps and deletes them |
| `ServerPing` | `PingTask` and `KeepAliveTask` on a clock that is late |
| `CallScreenProofs`, `ThreadSendProofs`, `ThreadWakeProofs`, `TaskRunnerProofs`, `ServerPingProofs` | the theorems about these; `ThreadWakeProofs` is the part of `ThreadSend` about wake-ups |

`CallSession` and `VoiceLogin` meet in `DisconnectS`: the first models what it
does to the calls, the second what it does to the objects of a login. Each
takes the other's part as given: a call needs an open stream (`online`), and a
login sees of a call only whether `call_` is set. `CallScreen` stands on
`CallSession` (it keeps of a call only what it reports), and `ThreadSend` and
`TaskRunner` are what both take for granted: one thread per client, posted
messages that are dispatched in order, tasks that run when something woke them.

### 2.1 `CallSession`: state and code

`ep[p]` is everything client `p` keeps, one record per client, and an action is
the dispatch of **one** message or timer of its signalling thread, with every
synchronous call and signal it causes. A handler is an operator from endpoint to
endpoint (`SetState`, `TerminateWithReason`, `DestroySession` ...) that carries
the name of the C++ function; `Become` installs the result and releases the
stanzas it sent.

| Field | Code |
|---|---|
| `state`, `error`, `acked` | `BaseSession::state_`, `error_`, `Session::initiate_acked_`; `"NONE"` means there is no `Session` in `SessionManager::session_map_` |
| `cands` | local candidates: none yet, held by `AddUnsentCandidates`, or sent |
| `calls`, `media` | `MediaSessionClient::calls_`; the calls whose `media_session_map_` holds their session |
| `call`, `focus` | `ClientSignalingThread::call_`, `MediaSessionClient::focus_call_` |
| `timers` | delayed messages `MSG_TIMEOUT`, `MSG_INIT_ACK_TIMEOUT`, `MSG_TERMINATECALL` |
| `waiting` | `SessionSendTask`s that wait for the response to an iq |
| `queue` | the thread's message queue; a message that `Clear` removed stays as `CLEARED`, which does nothing and keeps positions simple |
| `online` | whether the stream is open |

`net` holds the stanzas on their way, `sent` all that ever were. A stanza is
(to, sid, kind, Jingle action). A Jingle *reject* is a `session-terminate` on the
wire (`WriteJingleAction`), so only Gingle sids have a `reject`.

The actions are the twelve `Msg...` dispatches (`MSG_STATE`, `MSG_ERROR`,
`MSG_CHECKAUTODESTROY`, the user's commands, incoming iq sets and responses),
four timers, two transport callbacks, `UserCommand` (the public methods, which
only post) and the server: deliver (`Arrive`), bounce for a client that is gone,
lose.

Decisions worth knowing:

* A session is named by its sid, and since multi-session calls are off a call is
  named by the sid of its one session.
* A session whose initiate could not be parsed stays in the map in `STATE_INIT`
  without a remote name, so `FindSession` never returns it (`Found`).
* `DisconnectS` deletes the pump in the same handler, so the terminates that
  `EndAllCalls` gave to the pump's tasks never leave; and it does not reach a
  session that has no call.
* Responses and requests are read by different tasks, so they may overtake each
  other. Requests of one client keep their order except where `Env` says
  `"reorder"` (the comment at `session.cc:1463` expects reordering).

### 2.2 Parameters of the surroundings

`Commands` says what each user may ask, `Env` which of transport changes,
candidates, slow responses, reordering and loss may happen, `Again` which
requests the server may repeat, `Offer` what the callee thinks of the offer,
`GingleSids` which callee speaks Gingle. The theorems hold for every choice; a
TLC run picks the ones its question needs.

### 2.3 `CallPromise`

Three variables: what the callee's phone does (idle, ringing, talking, over),
which calls were ever answered, on which the caller talks. The phone rings before
it talks and only rings again after it was over; the caller talks only on an
answered call; a disconnect drops any set of calls at once. `CallSession!Promise`
maps the callee's session state, the accepts ever sent and the caller's session
state onto it; `KeepsPromise` is the refinement. The promise says nothing of the
caller's *hanging up* being final, because the code does not keep that (see the
findings).

### 2.4 `VoiceLogin`: state and code

The first group of variables is `ClientSignalingThread`: `xmpp` is `xmpp_state_`,
`pump`, `manager` and `media` are its scoped pointers, `call` says whether
`call_` is set, `timers` holds the pending `MSG_LOGIN_TIMEOUT`s and `queue` the
thread's messages. Objects carry the number of the `LoginS` that made them and 0
is a null pointer, so a message or a pointer that survived its object can be told
from one that is current. `client` and `attached` are `client_` and
`xmppClientDelegate_` of `VoiceClientDelegate`; `stream`, `app` and `asked` are
the application's side. `callback` and `held` are the queue of the stream's module:
what it does next, and the client that the running callback read. `loginAt` is
where `LoginS` is. `crashed` says which pointer killed the process: the code
checks few of them, and a model that stopped there silently would hide it. `races`
is a history variable: which of the two races between the threads happened.

One action is one message of the signalling thread (`MsgDisconnect`,
`MsgConnected` ...), the login timeout, one step of a callback, or one step of
`LoginS`. The engine's state changes come back by message (`OPENING`, `OPEN`),
except for the close, which `DoDisconnect` reports inside the handler that asked
for it: `CloseConnection` (the delegate forgets stream and client), then
`ResetMedia` (media client and pump deleted, with the messages of the client).
`MsgBadInput` reaches the same close from inside the engine's own stack frame.

A callback takes the steps that other threads can come between: the stream
reports (`DidAuthenticate`, `DidReceiveIQ`, `DidDisconnect`), the module's queue
reads `client_` (`GetClient`), and calls it: `HandleInput` and then
`ConnectionConnected` for an authentication, `HandleInput` for a stanza, `IsDone`
for a disconnect. `LoginS` takes three: `LoginReset` deletes the old pump and its
client, and `client_` dangles; `LoginMakes` makes the pump that replaces it;
`DoLogin` arms the timeout and logs in. So a callback may call a client that is
deleted (`"deleted"`), which kills the process, does nothing, or posts a message
after the messages of that client were cleared. Such a message is dispatched to
the freed client (`MsgToDeleted`) or to the one now in its place (`Reaching`). A
close may also come between the two posts of an authentication (`"late"`).

Decisions worth knowing:

* A pump and its `IOSXmppClient` are one object: the client is a task of the pump
  and is deleted with it.
* `ResetMedia` keeps the session manager; `DisconnectS` deletes it. So after a
  close by the server's data `manager` outlives `pump` until the next login.
* The stream's module is given to the delegate once (`Init`), and
  `CloseConnection` forgets it for good: no action sets `attached` again.
* The application posts a login each time the stream connects or reconnects and
  its module is active; a lost stream deactivates it.
* `DoDisconnect` is one step although it writes `client_` too: it is set to null
  before the client is deleted, and a callback that read it before is covered by
  `held`. What it posts between the two is cleared with the client.
* One report of the stream at a time waits for the module's queue. `DidDisconnect`
  joins the callback of the application, which deactivates the module and waits for
  its queue, with the report to the module.

`Account` has two variables, a status and the number of attempts. An attempt is
connecting before it is online, one that ended does not come back, and a dead client
stays dead. It does not say whose authentication brings an attempt online: that of
an earlier one may. `KeepsAccount` is the refinement; what makes it non-trivial is
that `OPEN` and `OPENING` are queued, and that a second login may come between them.

### 2.5 `CallScreen`: state and code

Three threads. UIKit's main thread runs the view controllers (`CallClick`,
`PresentOutgoing`, `AcceptClick`, `CloseClick`). `main_thread_` - a thread of its
own in spite of its name - takes the call states out of its queue (`notes`) and
gives them to the delegate, whose handler is cut where it reads what another
thread writes (`OnSignalCallStateChange`, `someonCallIn`,
`someonCallInMainThread`, `showAlertView`); `delegate` is where it is. The
signalling thread takes commands (`cmds`) and reports.

| Variable | Code |
|---|---|
| `call_id` | `VoiceClientDelegate::call_id_`, written by `main_thread_`, read by the buttons |
| `screen` | the presented `InCallViewController`: whose name it shows, `isInCall`, `_isClose`, and the alert on it |
| `phase` | what the engine knows of a call, the part of `CallSession` that is reported |
| `shown`, `closed`, `astray` | history: calls that had a screen, whose screen was closed, and those a command was aimed at or away from by mistake |

Decisions worth knowing:

* A screen holds no call: it shows a name, and its buttons name `call_id_`. So a
  command may go to another call than the one shown. `IdExplained` lists the only
  three ways this comes about.
* Observers are added in `viewDidLoad`. Nothing removes them: a screen that was
  freed is no longer notified (what the notification center of the system makes of
  an observer that is gone is outside the program), so the model has them exactly
  while a screen is up; `main_thread_` waits for UIKit
  whenever it presents or alerts (`waitUntilDone`).
* A call the user's own command ends, declines or refuses as busy is not always
  reported (`OnSessionState` reports no `SENTREJECT` or `SENTBUSY`): the screen of
  a call that a command of *another* screen ended stays up with nobody to tell it.
  `NoDeafScreen` names that exception.
* Hold, mute and the statistics button change nothing these properties see and are
  left out.

### 2.6 `ThreadSend`: state and code

`stack[t]` is the C++ stack of a thread, as frames: the loop, and above it handlers
and sends in turn. `at` is the point in `Thread::Send` (push, wake, check, receive,
wait), `ReceiveSends` (serving) or `MessageQueue::Get` (receive, queue, wait) where
another thread's actions can matter; code under the lock is one step. `has_sends`
is apart from `sendlist` because it is read without the lock and reset by the
innermost frame; `ready` is the flag on the sender's stack; `wakeup` is the signal
of the socket server, which is remembered when nobody waits; `waited` says that a
send consumed a signal and gives it back when it returns (`thread.cc:436-445`).

A send is answered in two steps, as in `thread.cc:458-459`: `HandlerReturns` sets
`*ready`, which the sender reads without a lock, and `TellSender` signals the
sender's thread and goes on with the list. `telling` is the send in between; the
lock is held then, so that nobody sends or posts to the thread and nothing is
cleared (`Locked`). The sender may meanwhile return from `Send`.

A handler returns, sends or posts at will. `ClearHandler` is a `MessageHandler`
that dies with a send waiting for it, `Destroy` is `~Thread` after a join. A
thread that was joined but not destroyed still takes sends that nobody serves:
that window is the owner's to avoid, no other thread of `src` knows the threads
that are stopped this way, and fairness of `Destroy` closes it in `SendsReturn`.

### 2.7 `TaskRunner`: state and code

The tree is `parent` and `children`, the runner is its root, `tasks`, `index` and
`did_run` are `InternalRunTasks`. A task is stepped in two halves, `Process` and one of
`Step...`, and between them the task's own code may start, abort and time tasks
(`CodeRuns`); so may a handler while nothing is stepped. `Abort` stops the whole
tree below, except for the task that is in its `Process`, which is only marked and
found by `StepAborted`. `Pause` deletes what is done, and `posted` is the `RunTasks`
of `TXmppPump`.

* `state` keeps "init", "run" and the ends; what a task does in between does not
  matter. The bound `MaxSteps` is on how often it may go on without blocking.
* Timeouts are kept as who has one and which task is next: how late they are does
  not matter for the pointers. `TXmppPump` never polls them and its `CurrentTime`
  is in milliseconds where `Task` counts 100 ns, so a 15 s timeout is 41.7 hours.
* `UpdateTaskTimeout` keeps a later timeout of the next task as the next
  (`taskrunner.cc:182`); the model allows either.
* Nothing in `Task` forbids starting a child of a task that is done; `StartTask`
  assumes it is not done, as the uses in `src` do.
* `Wake` of a task from another's `Process` is left out (no `Process` of `src` does
  it); two tasks that wake each other would keep the loop running for ever.

### 2.8 `ServerPing`: state and code

`PingTask::ProcessStart`, its delayed messages, `HandleStanza`, `PingNow` on the
user's thread, and `KeepAliveTask` beside it, as two tasks of the pump whose
`RunTasks` is posted (`runs`) when one is woken. Times are read from a clock modulo
`Wrap`; a thread is at most `Lag` late.

* `PingNow` has three steps: it reads `pinging_` (`checked`), clears the task's
  messages and sends, and writes the deadline (`arming`). The task may run between
  any two of them. It may send between the first two, and both pings are then
  under way. If the answer comes before the deadline is written, it is set for an
  answered ping and the user is disconnected: `overtaken` marks that, and
  `TimeoutExplained` says it is the only false alarm.
* The task takes one stanza a step and all pings share the task's id, so an answer
  may be taken for that of a later ping: each `PingNow` may cost another period
  with its delays, and `DeadServerNoticed` counts them. The four other `Lag` are
  those of two wake-ups and of the runs they post.
* `LagAssumption` says that no thread is a whole period late. Without it the task
  could send twice while `PingNow` is on its way, and the deadline that `PingNow`
  then writes would fit neither ping.
* `ping_task_` is never reset, so `Ping()` after the task ended uses freed memory
  (`PingNowFreed`).
* Deadlines are compared with `>=`: after a wrap of the clock nothing is promised
  (`Unwrapped`), and a deadline that is 0 by coincidence is lost.
* A write that fails is told to nobody. The ping is off in the iOS build
  (`client_defines.h:20`) and on in the others (29, 37).

## 3. Runs

Deadlock is not checked (`CHECK_DEADLOCK FALSE`): clients may idle for ever, a
finished call with nothing left to do is a proper end, and so are a process that
died, a client whose stream is gone with no login left, threads that were
destroyed, a runner that was deleted and a ping whose watch is over.

| Run | Instance | Checks |
|---|---|---|
| `call_glare` | alice and bob call each other, hold and unhold | `TypeOK`; `SessionsAndCallsAgree`: the three session maps agree; `CallPointersAlive`: `call_` and `focus_call_` are equal and never dangle |
| `call_trickle` | candidates at any time, a disconnect | `CandidatesFollowInitiate`; `OnlyLateAckRevives`: only the late ack of an initiate takes a session out of a terminal state; `RingingWillEnd`: while a phone rings its caller's terminate is on its way or will be sent |
| `call_repeated` | repeated accepts, the media path comes and goes | `InProgressWasAccepted`; `NoAnswerTimerOnlyUnanswered`; `KeepsPromise` (refinement of `CallPromise`) |
| `call_refused` | a Gingle callee without a common codec, slow responses, candidates, lost stanzas | `DoomedIsQueued`: whatever is over still has the message that deletes it in the queue, also when the session is rejected inside the handler that created it |
| `call_ends` | fair | `RingingEnds`: a ringing phone stops; `CalleeCallGoes`: a finished call of the callee is deleted |
| `login` | three logins, all commands, refused passwords, bad input, lost streams; fair | `TypeOK`; `ObjectsTogether`: pointers set by different handlers agree; `StaleNeverSpeaks`: `client_` is the live client except inside `LoginS`, and what is queued for a client is for the live one unless a callback called a deleted one; `TimedUntilOpen`: a login that is connecting has its own timeout pending, an open one none; `OpenHasItsObjects`: the delegate of an open client still holds the stream's module but for the two races, and no command kills an open client; `KeepsAccount` (refinement of `Account`); `LoginSettles`: a login opens, or its timeout closes it |
| `screen` | one call out, two in; fair | `TypeOK`; `NoDeafScreen`: the screen of a call that is over learns it; `RightCallsEnd`: only a newcomer is declined as busy, and a call whose screen was closed is over or the command that ends it is queued and will work; `IdExplained`: why `call_id_` and the screen part; `ClosedEnds`: closing a screen ends its call unless the command went astray |
| `send` | two threads, one may quit, three sends, two posts; fair | `TypeOK`; `SenderWaits`: whoever may touch a send, its sender still waits; `InOnePlace`: no send is lost or handled twice; `NoLostWakeup`; `NoDeadlock`: threads that sleep and wait only for each other are idle loops; `SendsReturn`; `PostsDispatched` |
| `ping` | late and missing answers, a `PingNow`, a server that dies | `TypeOK`; `TimeoutExplained`: no false timeout but the one explained; `NeverForgotten`: no chain of pings breaks; `DeadServerNoticed`: a dead server is noticed in time |
| `tasks` | three tasks in every tree; fair | `TypeOK`; `NoDangling`: no pointer outlives its task; `DoneTreeIsDone`; `NobodyForgotten`: what can run or is over has a `RunTasks` to come; `AbortedIsDeleted` |

**Bounds.**

* Calls: `MaxQueue` (1 or 2): nothing is added *from outside* to a queue that long;
  what handlers post themselves is not bounded, and a queue of two is enough for
  any two outside events to be pending together with the messages they cause,
  which is what the races are made of. One sid per caller: a sid is used for one
  call attempt, as in the code, where it is random; repeated deliveries still
  recreate a session of the same sid. Two clients: a session has two ends, and
  `call_glare` gives each client two calls at once.
* Login: `MaxLogins` 3: a login in progress, one that replaces it and one whose
  timer is left over from before are the most that the properties relate.
  `MaxQueue` 2 lets two posts from outside wait together, with those of the
  handlers; the run with `MaxQueue` 3 (2,071,459 states, four minutes) finds no error
  either. The theorems have no such bound.
* Screen: two incoming calls are needed for one to take `call_id_` away from the
  other, and an outgoing one for the screen that is up before its call is sent.
  `MaxQueue` 2: a user or a peer does nothing more while two commands or states wait.
* Sends: three sends nest and cross on two threads in every way that lets one frame
  consume the signal of another; only one thread may quit, so that the other
  outlives it. The theorems have no such bound.
* Ping: the real period of the pings and of the keep-alive are both 360 s
  (`client_defines.h`); `Period` 3 and `KeepAlive` 4 differ, so that the two
  tasks drift apart and meet in every order, and `Timeout` 2 is less than both, as
  in the code. `Lag` 1, one `PingNow`. `Wrap` 25 from `Start` 3 with `MaxTime` 18
  reaches the last moment before the wrap, and leaves time for the whole bound of `DeadServerNoticed`.
* Tasks: three tasks make a chain, siblings and a child that outlives its parent;
  `MaxSteps` 1.

**Fairness.** In `call_ends`: weak fairness of each client's dispatch (the thread's
loop runs) and of its timers (its clock advances), and strong fairness of
delivery: the server delivers what it holds, and it is *strong* only because the
bound `MaxQueue` may close the receiver's queue now and then, which the real queue
never does. Users are never fair: nobody has to accept, decline or hang up. Loss
is off in this run. `login` assumes only weak fairness of the signalling thread's
dispatch and of the login timeout, and nothing of the stream, the server or the
user: a login settles even if nothing ever answers. `screen` assumes that each of
the three threads takes its next step; `send` that threads are scheduled, that
handlers return and that a thread that was told to quit is joined and destroyed;
`tasks` that the loop goes on and a `Process` returns. A dead server that is
noticed is stated with a bound (`DeadServerNoticed`), so `ping` needs no fairness:
`Tick` waits for whoever is `Lag` late.

### 3.1 Claims of the source that do not hold

Each of these runs checks one statement of the source, and TLC finds it violated.

| Run | What it shows |
|---|---|
| `claim_ended_stays_ended` | `OnInitiateAcked` sets the state whatever it was, so a late ack revives a terminated session and an accept then puts it in progress |
| `claim_no_sessions_left` | a refused initiate leaves a session without an owner, which `~SessionManager` asserts cannot be |

The models show more of the same kind, for which no run is kept:

* Neither `DisconnectS` nor `LoginS` clears the login timeout
  (`clientsignalingthread.cc:689`), so a login may be closed by the timer of an
  earlier one, before its ten seconds (`client_defines.h:64`).
* A stream that authenticates while a second login is queued reports to a client
  that login deletes; nothing reports it again, the timeout
  (`clientsignalingthread.cc:275`) keeps running and closes an authenticated stream.
* `client_` is read and used without a lock (`XmppClientDelegate.mm:87`, 103, 116)
  while `LoginS` deletes the client (`clientsignalingthread.cc:627`) well before the
  new pump replaces the pointer (`txmpppump.cc:48`), and while a close deletes it. A
  callback may call a deleted client and post to it after its messages were
  cleared; the message is then dispatched to freed memory, or to a later client.
  `StaleNeverSpeaks` marks this race and says that it is the only way.
* An authentication whose report is under way when the client is closed may open
  the next login, whose delegate has no module any more: the client is `OPEN` and
  writes to nobody. `OpenKeepsModule` marks this one.
* Nobody tells the client that the stream is gone, and the module forgets its socket
  (`XmppClientDelegate.mm:115`): a client stays `OPEN` with nowhere to write to, until
  a disconnect or another login. No property says that an open client can write.
* The late ack of `claim_ended_stays_ended` also comes after the callee's
  terminate. That terminate cleared the no-answer timer, so the caller then waits
  for ever (`call.cc:105` promises a timeout).
* An accept that crosses the caller's terminate fails the `ASSERT` of
  `CheckSentInitiate` (`session.cc:1476`); a release build answers with an error.
* A Gingle reject is acknowledged and changes nothing (`session.cc:1335`), though
  `session.h:217` describes the state as waiting for accept or reject.
* Input the engine cannot parse closes it inside its own `EnterExit`, which then
  writes to the deleted engine (`xmppengineimpl.cc:454`): the outcome `"engine"` of
  `MsgBadInput`.
* `sessionsendtask.h` says a send waits 5 seconds and sets 15.
* The alert of a call shows on whatever screen is up, so the end of a call that was
  declined as busy closes the screen of another (`CallScreen!showAlertView`).
* `ReceiveSends` uses the sender once more after it set `*ready` (`thread.cc:459`),
  though the sender may have returned by then and its thread may be gone: the
  signal then goes to a socket server that was deleted. `SenderWaits` is about what
  is used before.
* `PingTask` promises its signal when there is "no response to a ping within
  ping_timeout_millis"; a `PingNow` that is overtaken by its answer raises it too.
* On builds with the socket, a failed authentication closes the client inside
  `Process`, and closing deletes the pump whose loop is running.

## 4. What is proved

The theorems hold for every value of the constants that the named assumptions of
the modules allow, and of no other assumption.

### 4.1 `CallSessionProofs`

For every set of clients and sids, every choice of parameters allowed by
`RouteAssumption` and `ParameterAssumption` and every queue bound:

| Theorem | Statement |
|---|---|
| `TypeCorrectness` | `Spec => []TypeOK` |
| `PointersStayAlive` | `Spec => []CallPointersAlive` |
| `MapsStayConsistent` | `Spec => []SessionsAndCallsAgree` |
| `AnswerStopsTimer` | `Spec => []NoAnswerTimerOnlyUnanswered` |
| `AcceptedFirst` | `Spec => []InProgressWasAccepted` |

**Argument.** None of these is inductive alone. The invariant `IInv` says that
every client is *good*: its record has its type and

* `Pointers`: `call` and `focus` are equal and null or a live call;
* `Registered`: a session can be found by a stanza exactly when its call's map
  holds it;
* `Owned`: a session in a call's map is in a live call, and a timer or a queued
  `MSG_STATE` or `MSG_ERROR` of a session exists only while the session does. Without
  it a stale `MSG_STATE` could act on a session created anew under the same sid;
* `Timed`: a no-answer timer belongs to a live, unanswered call at its
  initiator, and a session that was offered is at its responder, so that the
  accept that stops a timer can never be confused with the one that is sent;
* `Routed`: a queued or outgoing initiate is for the responder of its sid, and a
  queued accept was really sent;
* `Backed`: an accepted session is backed by an accept in `sent`, or in the `out`
  of the handler that is still running;

and that every stanza is routed from one end of its sid to the other
(`StanzaRouted`). Each endpoint operator has a lemma that it takes good endpoints
to good ones, so each action is one application of the lemmas of the operators it
composes, in the order the code calls them.

### 4.2 `VoiceLoginProofs`

For every number of logins, every queue bound and every choice of commands and
surroundings allowed by `ParameterAssumption`, every safety property of
`VoiceLogin` that a passing run checks:

| Theorem | Statement |
|---|---|
| `TypeCorrectness` | `Spec => []TypeOK` |
| `PointersTogether` | `Spec => []ObjectsTogether` |
| `NoStaleMessages` | `Spec => []StaleNeverSpeaks` |
| `TimedUntilItOpens` | `Spec => []TimedUntilOpen` |
| `OpenKeepsObjects` | `Spec => []OpenHasItsObjects` |
| `ImplementsAccount` | `Spec => KeepsAccount` |

**Argument.** `IInv` joins the properties with what the queue and the application
have to satisfy for them:

* `Live`: a queued message of a client is of the live pump, but for what a callback
  posted to a deleted client. It makes `Cleared` remove all others when the pump goes;
* `Ordered`: there is at most one `OPENING`, it is for a login that just started,
  and no `OPEN` is before it. Without it a late `OPENING` could take an open client
  back to connecting, and `TimedUntilOpen` and the refinement would fail. While
  `LoginS` is under way there is neither (`Calm`);
* `Making`: what `LoginS` has deleted and made between its steps;
* `Begun`: nothing is logged in before the stream connected for the first time,
  so the delegate has a client whenever it closes;
* `Detached`: once the delegate forgot the stream's module, and if no race happened,
  the application's is gone or the stream is closing, no authentication is being
  reported, no `CONNECTED` or `OPEN` is queued (`Mute`) and the client is not open.
  This is why `OpenHasItsObjects` holds although nothing ever attaches the module
  again;
* `Holding`: a callback that is about to call a client has read one.

The queue has lemmas of its own (`TailQueue`, `AppendQueue`, `ClearedQueue`,
`DeadQueue`). The steps of the stream and its callbacks, which leave the signalling
thread's variables alone, share `OutsideStep`; each action of that thread is a lemma
with one step per conjunct below it.

### 4.3 `CallScreenProofs`

For every set of calls and every queue bound: `TypeCorrectness`;
`TheRightCallsEnd` (`Spec => []RightCallsEnd`); `ScreensHear`
(`Spec => []NoDeafScreen`); `IdsAreExplained` (`Spec => []IdExplained`).

**Argument.** `IInv` follows an incoming call from the note that announces it to its
screen: it is idle, announced, on its way to the screen, declined or shown, never
two of these (`OneAtATime`), and only calls from outside take this way
(`OnlyIncoming`, `CallsOutgoing`). What makes a screen hear is `ReportedLater`: the
end of a call that is not shown yet stands in the queue *behind* its announcement,
so `main_thread_` reaches it only after the screen is up. `DeclinedIsClosed` and
`AlertIsOwn` deal with the two ways an end reaches no screen or another's.

For `IdExplained`, `Aimed` follows an outgoing call from the click to the note that
it was sent, the only note that puts it into `call_id_`. `CalledOnce`: there is one
command and then one note, so a call is not unsent again once it was named.
`UnsentKnown`: an unsent call is the one being dialled, on the screen, or was closed
with a command that went to another call. These are the reasons `IdExplained`
names, seen from the call; `Explained` is the property for the call on the screen
and also for the one whose screen comes next.

`RightCallsEnd` has to say in which phase the call of a closed screen is, because a
DECLINE ends it only while it rings and an END only while it lives: `EInv` adds when an
outgoing call is idle (`Dialled`: until the command of its click is dispatched, and
`UnsentKnown` keeps such a call out of `call_id_`), and that a call that was or
will be accepted has its screen in the call (`AcceptedOpen`), so a screen that still
declines is of a call that rings. No peer, engine event or later tap changes
that before the command is dispatched.

### 4.4 `ThreadSendProofs` and `ThreadWakeProofs`

For every set of threads and any number of sends and posts: `TypeCorrectness`,
`SendersWait` (`Spec => []SenderWaits`), `SendsAreInOnePlace`
(`Spec => []InOnePlace`), `NoWakeupIsLost` (`Spec => []NoLostWakeup`) and
`NobodyWaitsInACircle` (`Spec => []NoDeadlock`), that is, for any depth of nesting.

**Argument.** `IInv` says where a send may be: its frame once on its sender's stack,
its handler at most once on its target's (`Stacks`, `Owned`), its entry at most once
on its target's list (`Listed`), and of queued, handled and answered exactly one once
it was pushed (`Placed`, `Fresh`). For the wake-ups `WInv` adds what the frames
*below* the running one are doing (`Shapes`), that `has_sends_` may be believed
(`Known`), that whoever is about to sleep is or will be signalled for what is on its
list (`Listening`), that who is about to signal a sender does that next (`Tells`),
and the heart of it, `Alerts`: an answered send that does not look
was signalled or is about to be (`telling`), or a send above it on the stack took the signal and will give
it back when it returns.

`NoDeadlock` follows from these with `Nested`: a send is younger (has a greater
number) than the handlers below it. If a thread sleeps in a send whose target sleeps
too, the send is not on the target's list (`NoLostWakeup`), so its handler is on the
target's stack, and what is asleep on top of it is a younger send
(`WaitsForYounger`). The youngest send of a circle would wait for a younger one
(`Largest`: a bounded set of numbers has a greatest, from the well-founded order of
the library, which takes no operator as a parameter).

### 4.5 `TaskRunnerProofs`

For every set of tasks: `TypeCorrectness`, `PointersStayAlive`
(`Spec => []NoDangling`), `TreesEndTogether` (`Spec => []DoneTreeIsDone`),
`SomebodyWillRun` (`Spec => []NobodyForgotten`).

**Argument.** `IInv` adds that sets of children and parents agree (`Children`), that
going from parent to parent leads to the runner (`Grounded`: without it a circle of
tasks would survive the runner), that only the task at the index is busy
(`BusyIsCurrent`), that what is done is blocked (`DoneIsBlocked`) and that a pass
leaves blocked tasks behind until one runs (`PassedIsBlocked`), which is why the
loop may pause. `Abort` reaches the least set of tasks closed under children of
what it stops; the lemmas about `Reached` replace an induction on the tree.

### 4.6 `ServerPingProofs`

For every clock width, period, timeout, lateness and number of calls of `PingNow`:
`TypeCorrectness`, `ChainsGoOn` (`Spec => []NeverForgotten`), `TimeoutsAreExplained`
(`Spec => []TimeoutExplained`) and `DeadServersAreNoticed`
(`Spec => []DeadServerNoticed`), with `LagAssumption`.

**Argument.** `PingWakes` and `KeepWakes`: it is not enough that a task has a wake-up to
come, it must be late enough for what the task has to send next, since a
wake-up that comes too early finds nothing due and arms no other.

For the timeout: `Armed` says that the task sends at most once while `PingNow` is
between its send and its deadline, so that the deadline it writes fits the oldest ping or is the
marked exception. `DeadlineExplained` and `ArmingExplained` then say of each
deadline, written or about to be, that it is right for the oldest ping without a
response, or that the task cannot run before that ping is old enough (`LateFor`).

For the dead server, `DInv`: after its end responses are only consumed.
`AnswersCounted` bounds those that are left by the calls of `PingNow` and one
(each of them but one belongs to a ping that was sent beside a `PingNow`), and
`Noticed` says that each period sends a ping that takes one of them out of the
queue or is never answered, in which case `DeadlineFirst` lets its deadline pass
before the next ping. `Punctual` is the lateness allowed so far. The bound is
thus one period with its delays for each response left, and the last timeout.

### 4.7 `CallDutyProofs`

Under the assumptions of 4.1, what `CallSessionProofs` leaves:

| Theorem | Statement |
|---|---|
| `DoomedIsDestroyed` | `Spec => []DoomedIsQueued` |
| `CandidatesWait` | `Spec => []CandidatesFollowInitiate` |
| `RevivedByAckOnly` | `Spec => OnlyLateAckRevives` |
| `ImplementsPromise` | `Spec => KeepsPromise`: `CallSession` implements `CallPromise` |
| `RingingIsBounded` | `Spec => []RingingWillEnd` |

**Argument.** Next to `IInv` the invariant `DInv` holds `DoomedIsQueued` and
`CandidatesFollowInitiate` themselves and

* `Acks`: an initiate counts as acknowledged only if an acknowledgement was made;
* `Carried`: a stanza in a queue was sent;
* `Begun`: before the first stanza of a sid nobody keeps anything of it;
* `Placed`: a call is placed once, before anything was sent for it. It is why a
  state that the promise calls new can only be reached by the caller;
* `Asked`: only the initiator waits for the response to an initiate;
* `Roles`: only the initiator is in `STATE_RECEIVEDACCEPT`.

A handler calls many operators, and what the rest of the proof needs of each is
little. Two relations between an endpoint before and after say it, and both
compose: `Touches` (the duties, messages, stanzas, waits and states the operator may
add) and `Turns` (what it makes of a session's state, and that `SENTACCEPT` comes
with an accept). `BecomeDuty` makes of any handler so described a step of
the invariant. Every step then is one of two, `Turned` (a handler ran, and one session
changed state as the code allows) or `Dropped` (the stanza was lost), and `TurnPromise` and
`DropPromise` map each to steps of `CallPromise`.

**A ringing phone is going to be hung up.** The callee has no timer, so its phone rings
until the caller's terminate. Several handlers stop the caller's no-answer timer or clear
its messages (`SetError`, an early ack, a late response, `DestroySession`), and none of
them says why the callee may be forgotten. `RingingWillEnd` says what has to be true
all the time: the terminate is on its way, or the caller has, on a session that will
send it, its timer or its `MSG_ERROR`. Two things limit it, and are in its statement:

* `Reliable`: the server delivers an initiate once, loses nothing and keeps the order
  (a property of the XMPP stream, not of this code). With an initiate delivered twice
  a phone rings for a call that was hung up before.
* The caller is online: the terminates of a caller that disconnects are given to a pump
  that the same handler deletes (`clientsignalingthread.cc:711`).

Next to `IInv` and `DInv` the invariant `RInv` holds

* `Parties`: only the two ends of a sid have it in a call;
* `Once`: an initiate is on its way at most once, to a responder that has no call for it;
* `Settled`: after the responder's answer it neither rings nor will. This is what
  allows a handler of the caller to drop its hang-up when an answer comes;
* `Guarded`: whoever rings, *or will* once its queue is read, has its hang-up on the
  way, in its queue *behind* the initiate, or still to be sent;
* `Offline`: a client that disconnected has nothing left to do.

The order in the queue is what makes the terminate work, so three lemmas
(`TailOrder`, `AppendOrder`, `KeptOrder`) say what taking, adding and clearing messages
do to it. As for the duties, one relation between an endpoint before and after
describes each operator and composes: `Minds` (the stanzas of the queue keep their places,
only a taken initiate makes a phone ring, a hang-up is kept, sent or may be dropped,
and what is sent for the session is an answer of a client that does not ring).
`BecomeRing` makes a step of `RInv` of every handler so described.

### 4.8 Only model-checked

* Liveness, which is beyond the prover: `RingingEnds`, `CalleeCallGoes`,
  `LoginSettles`, `ClosedEnds`, `SendsReturn`, `PostsDispatched`, `AbortedIsDeleted`.

Every invariant and every action property of the passing runs, and both refinements,
are proved. For most of the liveness properties so is the safety fact they rest on,
which says that what has to happen has not been forgotten; what is left to TLC is
that a fair schedule then makes it happen:

| Liveness | Rests on |
|---|---|
| `RingingEnds` | `RingingWillEnd`: a hang-up is on its way or will be sent |
| `CalleeCallGoes` | `DoomedIsQueued`: what deletes it is in the queue |
| `ClosedEnds` | `RightCallsEnd`: the command that ends the call is queued and will work |
| `LoginSettles` | `TimedUntilOpen`: a login that hangs has its timeout |
| `SendsReturn` | `NoLostWakeup` and `NoDeadlock`: a sender that sleeps will be woken |
| `AbortedIsDeleted` | `NobodyForgotten`: the runner will run again |

## 5. Not modelled

* In `CallSession`: redirects (`FindSessionRedirect`), `description-info`, view
  requests, video and data contents, failures of the voice engine in
  `AddSession`, muting and statistics (no call state), chat. An
  initiate that cannot be read or used (`session.cc:1267-1278`) is the offer
  `"unusable"`; candidates of an initiate that cannot be used (`1291-1293`) and an
  accept whose description or candidates cannot be read (`1307-1311`, `1327-1330`)
  are left out: the peers run this code, which writes what it can read. All of these
  answer with an error, those of candidates after the state has changed. The old and the new `Call` of a
  repeated initiate (`mediasessionclient.cc:152-157`) are one, being named by sid.
* In `VoiceLogin`: `ReplaceTurn`, the presence and roster tasks that `OnConnected`
  starts, the notifications to the main thread, the critical
  section that `TXmppPump::DoDisconnect` leaves after its pump was deleted, and what
  the program does with freed memory beyond dying, going on, or taking a later client
  for the deleted one. Of the handlers of the signalling thread only `LoginS` is
  cut. Chat needs only the pump, as `MsgSendXmppMessage` has it.
* In `CallScreen`: hold, mute and statistics buttons; what a call does between its
  reports is `CallSession`'s.
* In `ThreadSend`: a send to a thread that was joined and never destroyed,
  `Dispose` lists, `Peek`, the time-sensitive and the delayed messages.
* In `TaskRunner`: `Error` from outside, `child_error_`, `PollTasks` and how late a
  timeout is.
* In `ServerPing`: what the clock does after it wrapped, and what a call of a freed
  task does.
* The presence, roster and chat tasks, the socket and the authentication: one write
  and one callback each, with no state that two of them share.
* Transport negotiation, ports, STUN/TURN, DTLS and the media engines are vendored
  libjingle and WebRTC; `CallSession` sees them as writability changes and gathered
  candidates. XMPPFramework is a third-party library. They, with their unit tests,
  are most of the lines under `src`, so that the share of all lines that the
  modules stand for stays small although they cover the application's own call,
  login and interface logic and the parts of libjingle it runs on.

## 6. Plan

1. `CallSession`, `CallPromise`, their runs and theorems, the duties and the
   refinement among them: done.
2. `VoiceLogin`, `Account`, their runs and theorems: done.
3. `CallScreen`: done, with its theorems.
4. `ThreadSend` and `TaskRunner`, what the others take for granted: done, with their
   theorems.
5. `ServerPing`: done, with its theorems.
6. To be proved: what `Thread::Send` promises its caller, as an abstract
   specification that `ThreadSend` implements.
7. To be modelled: delayed messages of `MessageQueue` (order by time, `Clear`), the
   roster's bookkeeping as a pure algorithm, redirects.
