----------------------------- MODULE ThreadSend -----------------------------
(* talk_base::Thread::Send: a call that runs a handler on another thread and *)
(* waits for it.  A thread that waits serves the sends of others, whose      *)
(* handlers may send again, so each thread has a stack of frames: its loop   *)
(* at the bottom, then handlers and sends in turn.  A step of a thread is a  *)
(* step of its top frame, up to the next point where another thread's        *)
(* actions can matter.                                                       *)
EXTENDS Integers, Sequences, FiniteSets, SequencesExt

CONSTANTS
    Thread,
    Quitting,  \* the threads that may be told to quit
    MaxSends,  \* bound: calls of Send in a behaviour
    MaxPosts   \* bound: posted messages in a behaviour

ASSUME BoundsAssumption == /\ Thread # {} /\ Quitting \subseteq Thread
                           /\ MaxSends \in Nat /\ MaxPosts \in Nat

SendId == 1..MaxSends

VARIABLES
    stack,     \* of each thread, the frames, the running one last
    sendlist,  \* sendlist_: sends that nobody serves yet
    has_sends, \* has_sends_, which ReceiveSends reads without the lock
    posted,    \* messages in msgq_
    fStop,     \* fStop_: Quit was called
    wakeup,    \* the socket server was signalled since its last Wait
    gone,      \* threads that were joined and destroyed
    sender,    \* of each send, the thread that waits
    target,    \* of each send, the thread it is for
    ready,     \* of each send, what the flag on the sender's stack says
    telling,   \* of each thread, the send it just answered, 0 for none
    sends,     \* sends so far
    posts      \* posts so far
vars == <<stack, sendlist, has_sends, posted, fStop, wakeup, gone, sender,
          target, ready, telling, sends, posts>>

\* What a frame is doing: the loop and a send go round "receive" (before
\* ReceiveSends), "serving" (in it, the handler above) and "wait"; "queue" is
\* the rest of MessageQueue::Get, "push" and "wake" the start of a Send.
Frame == [kind : {"loop", "handler", "send"}, id : 0..MaxSends,
          at : {"receive", "serving", "queue", "wait", "push", "wake", "check", "run"},
          waited : BOOLEAN]
FrameOf(kind, id, at) == [kind |-> kind, id |-> id, at |-> at, waited |-> FALSE]
Loop == FrameOf("loop", 0, "receive")

\* A handler of a send, or (0) of a posted message or a direct call.
Handler(s) == FrameOf("handler", s, "run")

Init ==
    /\ stack = [t \in Thread |-> <<Loop>>]
    /\ sendlist = [t \in Thread |-> <<>>]
    /\ has_sends = [t \in Thread |-> FALSE]
    /\ posted = [t \in Thread |-> 0]
    /\ fStop = [t \in Thread |-> FALSE]
    /\ wakeup = [t \in Thread |-> FALSE]
    /\ gone = {}
    /\ sender = [s \in SendId |-> CHOOSE t \in Thread : TRUE]
    /\ target = [s \in SendId |-> CHOOSE t \in Thread : TRUE]
    /\ ready = [s \in SendId |-> FALSE]
    /\ telling = [t \in Thread |-> 0]
    /\ sends = 0
    /\ posts = 0

Top(t) == Last(stack[t])
Running(t, kind, at) == stack[t] # <<>> /\ Top(t).kind = kind /\ Top(t).at = at
Pop(st) == Front(st)
Goto(st, at) == [st EXCEPT ![Len(st)].at = at]

\* Where a frame goes when nobody is left to serve.
AfterReceive(st) == Goto(st, IF Last(st).kind = "loop" THEN "queue" ELSE "wait")

\* crit_ of u is held from the answer to a send up to the next handler.
Locked(u) == telling[u] # 0

Others == UNCHANGED <<sender, target, sends>>

-----------------------------------------------------------------------------
(* Thread::ReceiveSends *)

\* Mutant of Serve: the send stays on the list.
ServeKeeps(t, st) ==
    IF sendlist[t] # <<>>
    THEN /\ stack' = [stack EXCEPT ![t] =
                        Append(Goto(st, "serving"), Handler(Head(sendlist[t])))]
         /\ UNCHANGED <<sendlist, has_sends>>
    ELSE /\ stack' = [stack EXCEPT ![t] = AfterReceive(st)]
         /\ has_sends' = [has_sends EXCEPT ![t] = FALSE]
         /\ UNCHANGED sendlist

\* The next turn of its loop, under the lock; st is t's stack, its top frame the
\* one that serves.
Serve(t, st) ==
    IF sendlist[t] # <<>>
    THEN /\ stack' = [stack EXCEPT ![t] =
                        Append(Goto(st, "serving"), Handler(Head(sendlist[t])))]
         /\ sendlist' = [sendlist EXCEPT ![t] = Tail(@)]
         /\ UNCHANGED has_sends
    ELSE /\ stack' = [stack EXCEPT ![t] = AfterReceive(st)]
         /\ has_sends' = [has_sends EXCEPT ![t] = FALSE]
         /\ UNCHANGED sendlist

ReceiveSends(t) ==
    /\ stack[t] # <<>>
    /\ Top(t).at = "receive"
    /\ IF has_sends[t]
       THEN Serve(t, stack[t])
       ELSE /\ stack' = [stack EXCEPT ![t] = AfterReceive(@)]
            /\ UNCHANGED <<sendlist, has_sends>>
    /\ UNCHANGED <<posted, fStop, wakeup, gone, ready, telling, posts>>
    /\ Others

\* A handler returns; the sender of a send may go on when *ready is set.
HandlerReturns(t) ==
    LET s == Top(t).id IN
    /\ Running(t, "handler", "run")
    /\ stack' = [stack EXCEPT ![t] = Pop(@)]
    /\ IF s = 0
       THEN UNCHANGED <<ready, telling>>
       ELSE /\ ready' = [ready EXCEPT ![s] = TRUE]
            /\ telling' = [telling EXCEPT ![t] = s]
    /\ UNCHANGED <<sendlist, has_sends, posted, fStop, wakeup, gone, posts>>
    /\ Others

\* Its thread is signalled afterwards, where it may have left Send already.
TellSender(t) ==
    /\ stack[t] # <<>>
    /\ Top(t).at = "serving"
    /\ wakeup' = [wakeup EXCEPT ![sender[telling[t]]] = TRUE]
    /\ telling' = [telling EXCEPT ![t] = 0]
    /\ Serve(t, stack[t])
    /\ UNCHANGED <<posted, fStop, gone, ready, posts>>
    /\ Others

-----------------------------------------------------------------------------
(* Thread::Send *)

\* A handler calls Send on u; a send to its own thread is a direct call.
Send(t, u) ==
    /\ Running(t, "handler", "run")
    /\ ~fStop[u]
    /\ u \notin gone
    /\ sends < MaxSends
    /\ sends' = sends + 1
    /\ IF u = t
       THEN /\ stack' = [stack EXCEPT ![t] = Append(@, Handler(0))]
            /\ UNCHANGED <<sender, target>>
       ELSE /\ stack' = [stack EXCEPT ![t] =
                           Append(@, FrameOf("send", sends + 1, "push"))]
            /\ sender' = [sender EXCEPT ![sends + 1] = t]
            /\ target' = [target EXCEPT ![sends + 1] = u]
    /\ UNCHANGED <<sendlist, has_sends, posted, fStop, wakeup, gone, ready, telling, posts>>

PushSend(t) ==
    LET s == Top(t).id IN
    /\ Running(t, "send", "push")
    /\ ~Locked(target[s])
    /\ sendlist' = [sendlist EXCEPT ![target[s]] = Append(@, s)]
    /\ has_sends' = [has_sends EXCEPT ![target[s]] = TRUE]
    /\ stack' = [stack EXCEPT ![t] = Goto(@, "wake")]
    /\ UNCHANGED <<posted, fStop, wakeup, gone, ready, telling, posts>>
    /\ Others

WakeTarget(t) ==
    /\ Running(t, "send", "wake")
    /\ wakeup' = [wakeup EXCEPT ![target[Top(t).id]] = TRUE]
    /\ stack' = [stack EXCEPT ![t] = Goto(@, "check")]
    /\ UNCHANGED <<sendlist, has_sends, posted, fStop, gone, ready, telling, posts>>
    /\ Others

\* Mutant of CheckReady: the consumed wake-ups are not given back.
NoWakeupBack(t) ==
    /\ Running(t, "send", "check")
    /\ IF ready[Top(t).id]
       THEN stack' = [stack EXCEPT ![t] = Pop(@)]
       ELSE stack' = [stack EXCEPT ![t] = Goto(@, "receive")]
    /\ UNCHANGED <<sendlist, has_sends, posted, fStop, wakeup, gone, ready, telling, posts>>
    /\ Others

\* while (!ready); the wake-ups its waits consumed may have been for others.
CheckReady(t) ==
    /\ Running(t, "send", "check")
    /\ IF ready[Top(t).id]
       THEN /\ stack' = [stack EXCEPT ![t] = Pop(@)]
            /\ wakeup' = [wakeup EXCEPT ![t] = @ \/ Top(t).waited]
       ELSE /\ stack' = [stack EXCEPT ![t] = Goto(@, "receive")]
            /\ UNCHANGED wakeup
    /\ UNCHANGED <<sendlist, has_sends, posted, fStop, gone, ready, telling, posts>>
    /\ Others

\* SocketServer::Wait returns when it was signalled, even before it began.
Wait(t) ==
    /\ stack[t] # <<>>
    /\ Top(t).at = "wait"
    /\ wakeup[t]
    /\ wakeup' = [wakeup EXCEPT ![t] = FALSE]
    /\ stack' = [stack EXCEPT ![t] =
                   IF Top(t).kind = "loop" THEN Goto(@, "receive")
                   ELSE [Goto(@, "check") EXCEPT ![Len(@)].waited = TRUE]]
    /\ UNCHANGED <<sendlist, has_sends, posted, fStop, gone, ready, telling, posts>>
    /\ Others

-----------------------------------------------------------------------------
(* MessageQueue *)

\* Mutant of Get: a message is taken from an empty queue.
GetUnchecked(t) ==
    /\ Running(t, "loop", "queue")
    /\ posted' = [posted EXCEPT ![t] = @ - 1]
    /\ stack' = [stack EXCEPT ![t] = Append(Goto(@, "receive"), Handler(0))]
    /\ UNCHANGED <<sendlist, has_sends, fStop, wakeup, gone, ready, telling, posts>>
    /\ Others

\* Get takes a message, or (Quit posts the last one) the thread exits.
Get(t) ==
    /\ Running(t, "loop", "queue")
    /\ \/ /\ posted[t] > 0
          /\ posted' = [posted EXCEPT ![t] = @ - 1]
          /\ stack' = [stack EXCEPT ![t] = Append(Goto(@, "receive"), Handler(0))]
       \/ /\ posted[t] = 0
          /\ stack' = [stack EXCEPT ![t] = IF fStop[t] THEN <<>> ELSE Goto(@, "wait")]
          /\ UNCHANGED posted
    /\ UNCHANGED <<sendlist, has_sends, fStop, wakeup, gone, ready, telling, posts>>
    /\ Others

\* Mutant of Post: the socket server is not signalled.
PostSilently(u) ==
    /\ ~fStop[u]
    /\ ~Locked(u)
    /\ posts < MaxPosts
    /\ posts' = posts + 1
    /\ posted' = [posted EXCEPT ![u] = @ + 1]
    /\ UNCHANGED <<stack, sendlist, has_sends, fStop, wakeup, gone, ready, telling>>
    /\ Others

\* By a handler, or by a thread that is not one of these.
Post(u) ==
    /\ ~fStop[u]
    /\ ~Locked(u)
    /\ posts < MaxPosts
    /\ posts' = posts + 1
    /\ posted' = [posted EXCEPT ![u] = @ + 1]
    /\ wakeup' = [wakeup EXCEPT ![u] = TRUE]
    /\ UNCHANGED <<stack, sendlist, has_sends, fStop, gone, ready, telling>>
    /\ Others

Quit(u) ==
    /\ u \in Quitting
    /\ ~fStop[u]
    /\ fStop' = [fStop EXCEPT ![u] = TRUE]
    /\ wakeup' = [wakeup EXCEPT ![u] = TRUE]
    /\ UNCHANGED <<stack, sendlist, has_sends, posted, gone, ready, telling, posts>>
    /\ Others

-----------------------------------------------------------------------------
(* Thread::Clear *)

\* What q, which lists nothing twice, lists besides S, in the same order.
Without(q, S) ==
    {r \in UNION {[1..n -> ToSet(q) \ S] : n \in 0..Len(q)} :
        /\ ToSet(r) = ToSet(q) \ S
        /\ \A i, j \in DOMAIN r : i < j =>
              \E k, l \in DOMAIN q : k < l /\ q[k] = r[i] /\ q[l] = r[j]}

\* Mutants of ClearSends: the sends stay on the list, or nobody is told.
ClearKeeps(u, S) ==
    /\ ready' = [s \in SendId |-> ready[s] \/ s \in S]
    /\ wakeup' = [t \in Thread |-> wakeup[t] \/ \E s \in S : sender[s] = t]
    /\ UNCHANGED <<stack, sendlist, has_sends, posted, fStop, posts, telling>>
    /\ Others
ClearTellsNobody(u, S) ==
    /\ \E q \in Without(sendlist[u], S) : sendlist' = [sendlist EXCEPT ![u] = q]
    /\ UNCHANGED <<stack, has_sends, posted, fStop, wakeup, ready, telling, posts>>
    /\ Others

\* The sends in S are taken off u's list and their senders told.
ClearSends(u, S) ==
    /\ \E q \in Without(sendlist[u], S) : sendlist' = [sendlist EXCEPT ![u] = q]
    /\ ready' = [s \in SendId |-> ready[s] \/ s \in S]
    /\ wakeup' = [t \in Thread |-> wakeup[t] \/ \E s \in S : sender[s] = t]
    /\ UNCHANGED <<stack, has_sends, posted, fStop, posts, telling>>
    /\ Others

\* A handler dies, and with it a send that was waiting for it.
ClearHandler(u) ==
    /\ u \notin gone
    /\ ~Locked(u)
    /\ \E i \in DOMAIN sendlist[u] : ClearSends(u, {sendlist[u][i]})
    /\ UNCHANGED gone

\* ~Thread, after the thread was joined: nobody is about to use it.
Destroy(u) ==
    /\ stack[u] = <<>>
    /\ u \notin gone
    /\ \A t \in Thread : ~(Running(t, "send", "push") /\ target[Top(t).id] = u)
    /\ gone' = gone \cup {u}
    /\ ClearSends(u, ToSet(sendlist[u]))

-----------------------------------------------------------------------------
\* What a thread does by itself.
Step(t) == \/ ReceiveSends(t) \/ HandlerReturns(t) \/ TellSender(t)
           \/ PushSend(t) \/ WakeTarget(t) \/ CheckReady(t) \/ Wait(t) \/ Get(t)

Next == \/ \E t \in Thread : Step(t)
        \/ \E t, u \in Thread : Send(t, u)
        \/ \E u \in Thread : Post(u) \/ Quit(u) \/ ClearHandler(u) \/ Destroy(u)

Spec == Init /\ [][Next]_vars

\* Threads are scheduled, handlers return, a thread that was told to quit is
\* joined and destroyed.
FairSpec == Spec /\ \A t \in Thread : WF_vars(Step(t)) /\ WF_vars(Destroy(t))

-----------------------------------------------------------------------------
TypeOK ==
    /\ stack \in [Thread -> Seq(Frame)]
    /\ sendlist \in [Thread -> Seq(SendId)]
    /\ has_sends \in [Thread -> BOOLEAN]
    /\ posted \in [Thread -> Nat]
    /\ fStop \in [Thread -> BOOLEAN]
    /\ wakeup \in [Thread -> BOOLEAN]
    /\ gone \subseteq Thread
    /\ sender \in [SendId -> Thread]
    /\ target \in [SendId -> Thread]
    /\ ready \in [SendId -> BOOLEAN]
    /\ telling \in [Thread -> 0..MaxSends]
    /\ sends \in 0..MaxSends
    /\ posts \in 0..MaxPosts

Frames(t) == ToSet(stack[t])
Waits(s) == \E f \in Frames(sender[s]) : f.kind = "send" /\ f.id = s
Handled(s) == \E f \in Frames(target[s]) : f.kind = "handler" /\ f.id = s
Queued(s) == s \in ToSet(sendlist[target[s]])

\* The flag of a send lives on its sender's stack, and the handler uses what
\* the sender gave it: while the send is queued or handled its sender waits,
\* and when ready is set nobody will use that frame again: what is left to do
\* is to signal the sender's thread.
SenderWaits ==
    \A s \in 1..sends : Queued(s) \/ Handled(s) => Waits(s) /\ ~ready[s]

\* A send that was pushed is in one place until it returns: queued, handled or
\* answered.  None is lost and none is handled twice at a time.
InOnePlace ==
    \A s \in 1..sends :
        Waits(s) /\ ~Running(sender[s], "send", "push") =>
          Cardinality({p \in {"queued", "handled", "answered"} :
                        CASE p = "queued" -> Queued(s)
                          [] p = "handled" -> Handled(s)
                          [] p = "answered" -> ready[s]}) = 1

\* A thread sleeps only while there is nothing for it: no wake-up is lost,
\* though a nested Send consumes those of the frames below it.  Who sets ready,
\* and who has put a send on a list, is still to signal.
BeingTold(s) == telling[target[s]] = s
NoLostWakeup ==
    \A t \in Thread :
        stack[t] # <<>> /\ Top(t).at = "wait" /\ ~wakeup[t] =>
          /\ \A i \in DOMAIN sendlist[t] : Running(sender[sendlist[t][i]], "send", "wake")
          /\ IF Top(t).kind = "loop" THEN posted[t] = 0 /\ ~fStop[t]
             ELSE ready[Top(t).id] => BeingTold(Top(t).id)

Sleeping(t) == stack[t] # <<>> /\ Top(t).at = "wait" /\ ~wakeup[t]

\* Threads that sleep, and wait for none but each other, are idle loops: sends
\* that cross never wait in a circle, since who waits serves, and never for a
\* thread that has nothing to do.
NoDeadlock ==
    \A S \in SUBSET {t \in Thread : Sleeping(t)} :
        (\A t \in S : Top(t).kind = "send" => target[Top(t).id] \in S) =>
          \A t \in S : Top(t).kind = "loop"

\* Every Send returns, whatever sends cross it, and also when its handler or
\* the thread it was for goes away.
SendsReturn == \A s \in SendId : Waits(s) ~> ~Waits(s)

\* Every posted message is dispatched, before the thread exits.
PostsDispatched == \A t \in Thread : posted[t] > 0 ~> posted[t] = 0
=============================================================================
