----------------------------- MODULE ServerPing -----------------------------
(* PingTask and KeepAliveTask: two tasks of the pump that wake themselves   *)
(* with delayed messages, send to the server when a 32-bit clock says it is  *)
(* time, and end the connection when a ping is not answered.  A user's       *)
(* PingNow runs on the user's thread between the steps of the tasks.         *)
EXTENDS Integers, Sequences

CONSTANTS
    Period,    \* ping_period_millis_
    Timeout,   \* ping_timeout_millis_
    KeepAlive, \* keepalive_period_millis_
    Wrap,      \* the clock counts modulo Wrap (2^32)
    Start,     \* what the clock says at first
    Lag,       \* assumed: a thread is at most this late
    MaxTime,   \* bound: how long a behaviour is watched
    MaxNow,    \* bound: calls of PingNow
    Never      \* no time

ASSUME TimesAssumption ==
    /\ Timeout \in Nat \ {0} /\ Period \in Nat /\ Timeout <= Period
    /\ KeepAlive \in Nat \ {0}
    /\ Wrap \in Nat /\ Period < Wrap /\ KeepAlive < Wrap
    /\ Start \in 0..(Wrap - 1)
    /\ Lag \in Nat /\ MaxTime \in Nat /\ MaxNow \in Nat
    /\ Never \notin Nat

\* No thread is a whole period late.
ASSUME LagAssumption == Lag < Period

VARIABLES
    now,                    \* time since the tasks were started
    status,                 \* of the ping task, and how it ended
    next_ping_time,
    ping_response_deadline, \* 0 if the response has been received
    pinging,
    blocked,                \* blocked_ of the ping task
    stanzas,                \* responses in the ping task's stanza_queue_
    pingTimers,             \* when its delayed messages are due
    next_keepalive_time,
    keepBlocked,
    keepTimers,
    runs,                   \* since when a RunTasks is posted to the pump
    checked,                \* PingNow found no ping under way
    arming,                 \* the time PingNow read, while it is in SendPing
    calls,                  \* calls of PingNow
    asked,                  \* when the pings were sent that have no answer yet
    deadAt,                 \* when the server went away
    overtaken               \* its response was taken while PingNow was arming

ping == <<next_ping_time, ping_response_deadline, pinging, blocked, stanzas, pingTimers>>
keep == <<next_keepalive_time, keepBlocked, keepTimers>>
user == <<checked, arming, calls>>
vars == <<now, status, ping, keep, runs, user, asked, deadAt, overtaken>>

\* talk_base::Time(), and sums of its values.
Clock(t) == (Start + t) % Wrap
After(t, millis) == (Clock(t) + millis) % Wrap

\* Both tasks were given to the runner and have not run.
Init ==
    /\ now = 0 /\ status = "running"
    /\ next_ping_time = 0 /\ ping_response_deadline = 0 /\ pinging = FALSE
    /\ blocked = FALSE /\ stanzas = 0 /\ pingTimers = {}
    /\ next_keepalive_time = 0 /\ keepBlocked = FALSE /\ keepTimers = {}
    /\ runs = {0} /\ checked = FALSE /\ arming = Never /\ calls = 0
    /\ asked = <<>> /\ deadAt = Never /\ overtaken = FALSE

Running == status = "running"

\* TXmppPump::WakeTasks posts a RunTasks.
WakeTasks == runs' = IF runs = {} THEN {now} ELSE runs

\* Task::Wake
Wake == /\ blocked' = FALSE
        /\ IF blocked THEN WakeTasks ELSE UNCHANGED runs

-----------------------------------------------------------------------------
(* PingTask *)

\* Mutant of Delay: only the wake-up for the timeout.
DelayTimeoutOnly == {now + Timeout}
\* The two delayed messages of a SendPing.
Delay == {now + Timeout, now + Period}

\* Mutant of SendPing: the deadline of the period.
SendPingLate(t) ==
    /\ ping_response_deadline' = After(t, Period)
    /\ next_ping_time' = After(t, Period)
    /\ pingTimers' = pingTimers \cup Delay
\* What SendPing(t) writes after the stanza was sent.
SendPing(t) ==
    /\ ping_response_deadline' = After(t, Timeout)
    /\ next_ping_time' = After(t, Period)
    /\ pingTimers' = pingTimers \cup Delay

\* MakeIq and SendStanza; nobody hears of a failed write.
SendStanza == /\ asked' = Append(asked, now)
              /\ pinging' = TRUE

\* Mutant of DeadlineLeft: a response leaves the deadline alone.
DeadlineKept == ping_response_deadline
\* The deadline once a response was looked for.
DeadlineLeft == IF stanzas > 0 THEN 0 ELSE ping_response_deadline

Expired == DeadlineLeft # 0 /\ Clock(now) >= DeadlineLeft
Due == Clock(now) >= next_ping_time

\* The end of the task: the runner deletes it, with its messages.
TimedOut ==
    /\ Expired
    /\ status' = "timedout"
    /\ UNCHANGED <<next_ping_time, ping_response_deadline, pinging, pingTimers,
                   asked, overtaken>>

SendsPing ==
    /\ ~Expired /\ Due
    /\ SendStanza
    /\ SendPing(now)
    /\ overtaken' = (overtaken /\ arming # Never)
    /\ UNCHANGED status

Rests ==
    /\ ~Expired /\ ~Due
    /\ ping_response_deadline' = DeadlineLeft
    /\ pinging' = (pinging /\ stanzas = 0)
    /\ overtaken' = IF stanzas > 0 THEN arming # Never ELSE overtaken
    /\ UNCHANGED <<status, next_ping_time, pingTimers, asked>>

\* Mutant of ProcessStart: a response is taken that is not there.
ProcessStartUnchecked ==
    /\ blocked' = TRUE
    /\ stanzas' = stanzas - 1
    /\ TimedOut \/ SendsPing \/ Rests
\* A Step of the task.  It takes one response, and is blocked after it.
ProcessStart ==
    /\ blocked' = TRUE
    /\ stanzas' = IF stanzas > 0 THEN stanzas - 1 ELSE 0
    /\ TimedOut \/ SendsPing \/ Rests

-----------------------------------------------------------------------------
(* KeepAliveTask *)

KeepAliveStart ==
    /\ keepBlocked' = TRUE
    /\ IF Clock(now) >= next_keepalive_time
       THEN /\ next_keepalive_time' = After(now, KeepAlive)
            /\ keepTimers' = keepTimers \cup {now + KeepAlive}
       ELSE UNCHANGED <<next_keepalive_time, keepTimers>>

-----------------------------------------------------------------------------
(* The signalling thread *)

\* TXmppPump::OnMessage: every task that is not blocked runs.
RunTasks ==
    /\ Running /\ runs # {}
    /\ runs' = {}
    /\ IF keepBlocked THEN UNCHANGED keep ELSE KeepAliveStart
    /\ IF blocked THEN UNCHANGED <<status, ping, asked, overtaken>> ELSE ProcessStart
    /\ UNCHANGED <<now, user, deadAt>>

\* PingTask::OnMessage
PingTimer ==
    /\ Running
    /\ \E t \in pingTimers : t <= now /\ pingTimers' = pingTimers \ {t}
    /\ Wake
    /\ UNCHANGED <<now, status, next_ping_time, ping_response_deadline, pinging,
                   stanzas, keep, user, asked, deadAt, overtaken>>

\* KeepAliveTask::OnMessage
KeepAliveTimer ==
    /\ Running
    /\ \E t \in keepTimers : t <= now /\ keepTimers' = keepTimers \ {t}
    /\ keepBlocked' = FALSE
    /\ IF keepBlocked THEN WakeTasks ELSE UNCHANGED runs
    /\ UNCHANGED <<now, status, ping, next_keepalive_time, user, asked, deadAt, overtaken>>

\* HandleStanza: a result or an error with the id of the task, which all its
\* pings share.
HandleStanza ==
    /\ Running /\ asked # <<>> /\ deadAt = Never
    /\ asked' = Tail(asked)
    /\ stanzas' = stanzas + 1
    /\ Wake
    /\ UNCHANGED <<now, status, next_ping_time, ping_response_deadline, pinging,
                   pingTimers, keep, user, deadAt, overtaken>>

\* XmppClient::Disconnect aborts its children.
Abort ==
    /\ Running
    /\ status' = "aborted"
    /\ UNCHANGED <<now, ping, keep, runs, user, asked, deadAt, overtaken>>

-----------------------------------------------------------------------------
(* ClientSignalingThread::Ping, on the thread of the user *)

\* pinging_ is read without a lock.
PingNow ==
    /\ Running /\ ~checked /\ arming = Never /\ calls < MaxNow
    /\ ~pinging
    /\ checked' = TRUE
    /\ UNCHANGED <<now, status, ping, keep, runs, arming, calls, asked, deadAt,
                   overtaken>>

\* Clear, and SendPing up to the point where the ping is on its way, at one
\* reading of the clock.  The task may have sent a ping since the check.
PingNowSends ==
    /\ Running /\ checked /\ calls < MaxNow
    /\ checked' = FALSE
    /\ calls' = calls + 1
    /\ pingTimers' = {}
    /\ SendStanza
    /\ arming' = now
    /\ UNCHANGED <<now, status, next_ping_time, ping_response_deadline, blocked,
                   stanzas, keep, runs, deadAt, overtaken>>

PingNowArms ==
    /\ Running /\ arming # Never
    /\ SendPing(arming)
    /\ arming' = Never
    /\ UNCHANGED <<now, status, pinging, blocked, stanzas, keep, runs, checked,
                   calls, asked, deadAt, overtaken>>

\* ping_task_ is not reset when the task ends: what a call does to it then is
\* undefined.
PingNowFreed ==
    /\ status \in {"timedout", "aborted"}
    /\ status' = "corrupt"
    /\ UNCHANGED <<now, ping, keep, runs, user, asked, deadAt, overtaken>>

-----------------------------------------------------------------------------
(* The world *)

ServerDies ==
    /\ Running /\ deadAt = Never
    /\ deadAt' = now
    /\ UNCHANGED <<now, status, ping, keep, runs, user, asked, overtaken>>

\* Time passes while nobody is more than Lag late.
Tick ==
    /\ Running /\ now < MaxTime
    /\ \A t \in pingTimers \cup keepTimers \cup runs : now < t + Lag
    /\ arming # Never => now < arming + Lag
    /\ now' = now + 1
    /\ UNCHANGED <<status, ping, keep, runs, user, asked, deadAt, overtaken>>

Next == \/ RunTasks \/ PingTimer \/ KeepAliveTimer \/ HandleStanza \/ Abort
        \/ PingNow \/ PingNowSends \/ PingNowArms \/ PingNowFreed
        \/ ServerDies \/ Tick

Spec == Init /\ [][Next]_vars

-----------------------------------------------------------------------------
Reading == 0..(Wrap - 1)

TypeOK ==
    /\ now \in Nat
    /\ status \in {"running", "timedout", "aborted", "corrupt"}
    /\ next_ping_time \in Reading /\ ping_response_deadline \in Reading
    /\ pinging \in BOOLEAN /\ blocked \in BOOLEAN /\ stanzas \in Nat
    /\ pingTimers \subseteq Nat
    /\ next_keepalive_time \in Reading /\ keepBlocked \in BOOLEAN /\ keepTimers \subseteq Nat
    /\ runs \subseteq 0..now
    /\ checked \in BOOLEAN /\ (checked => arming = Never)
    /\ arming \in 0..now \cup {Never} /\ calls \in 0..MaxNow
    /\ asked \in Seq(0..now)
    /\ deadAt \in 0..now \cup {Never}
    /\ overtaken \in BOOLEAN

\* Neither the clock nor a sum made of it has wrapped.  The code compares its
\* readings with >=, so nothing below is promised afterwards.
Unwrapped == Start + now + Period < Wrap /\ Start + now + KeepAlive < Wrap

\* SignalTimeout, which disconnects the user, is raised only when the oldest
\* ping without a response is Timeout old ("Raised if there is no response to a
\* ping within ping_timeout_millis"), or when a response was taken before the
\* PingNow it belongs to had set its deadline.
TimeoutExplained ==
    status = "timedout" /\ Unwrapped =>
      overtaken \/ (asked # <<>> /\ now >= Head(asked) + Timeout)

\* Both tasks wake themselves only with the messages they post while they run,
\* and PingNow clears those of the ping task: yet each task always has a
\* wake-up to come, so neither chain of pings ever breaks.
NeverForgotten ==
    Running /\ Unwrapped =>
      /\ pingTimers # {} \/ arming # Never \/ (~blocked /\ runs # {})
      /\ keepTimers # {} \/ (~keepBlocked /\ runs # {})

\* A server that went away is noticed within a period and a timeout, and the
\* delays of two wake-ups and of the runs they post.  Each PingNow may cost
\* another period with its delays: the response of its ping can stay in the
\* queue of the task, which takes one response a step, and be taken for that of
\* a later ping.
DeadServerNoticed ==
    Running /\ Unwrapped /\ deadAt # Never =>
      now <= deadAt + Period + Timeout + 4 * Lag + calls * (Period + 3 * Lag)
=============================================================================
