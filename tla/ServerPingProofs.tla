-------------------------- MODULE ServerPingProofs --------------------------
(***************************************************************************)
(* Theorems about ServerPing, for every period, timeout, lateness and      *)
(* number of calls of PingNow.                                             *)
(***************************************************************************)
EXTENDS ServerPing, TLAPS

(* The inductive invariant of the wake-ups: a task always has one to come,  *)
(* and that one is late enough for the next thing it has to send.           *)

PingWakes ==
    Running /\ Unwrapped =>
        /\ ~blocked => runs # {}
        /\ \/ arming # Never
           \/ \E t \in pingTimers : Start + t >= next_ping_time
           \/ ~blocked /\ Start + now >= next_ping_time

KeepWakes ==
    Running /\ Unwrapped =>
        /\ ~keepBlocked => runs # {}
        /\ \/ \E t \in keepTimers : Start + t >= next_keepalive_time
           \/ ~keepBlocked /\ Start + now >= next_keepalive_time

WInv == TypeOK /\ PingWakes /\ KeepWakes

-----------------------------------------------------------------------------
(* The clock *)

LEMMA ClockType ==
    ASSUME NEW t \in Nat, NEW millis \in Nat
    PROVE  Clock(t) \in Reading /\ After(t, millis) \in Reading
  <1>1. /\ Start \in Nat /\ Wrap \in Nat \ {0}
        /\ \A n \in Nat : n % Wrap \in 0..(Wrap - 1)
    BY TimesAssumption
  <1>2. Clock(t) \in 0..(Wrap - 1)
    BY <1>1 DEF Clock
  <1>3. (Clock(t) + millis) % Wrap \in 0..(Wrap - 1)
    BY <1>1, <1>2
  <1> QED BY <1>2, <1>3 DEF After, Reading

\* Before the wrap the clock is the time since Start.
LEMMA ClockValue ==
    ASSUME NEW t \in Nat, NEW millis \in Nat, Start + t + millis < Wrap
    PROVE  Clock(t) = Start + t /\ After(t, millis) = Start + t + millis
  <1>1. /\ Start \in Nat /\ Wrap \in Nat \ {0}
        /\ \A n \in Nat : n < Wrap => n % Wrap = n
    BY TimesAssumption
  <1>2. Clock(t) = Start + t
    BY <1>1 DEF Clock
  <1>3. (Start + t + millis) % Wrap = Start + t + millis
    BY <1>1
  <1> QED BY <1>2, <1>3 DEF After

LEMMA Times ==
    /\ Start \in Nat /\ Period \in Nat /\ Timeout \in Nat /\ KeepAlive \in Nat
    /\ Timeout > 0 /\ Timeout <= Period /\ KeepAlive > 0
    /\ Never \notin Nat /\ Lag \in Nat
  BY TimesAssumption

-----------------------------------------------------------------------------
(* Types *)

LEMMA WakeType ==
    ASSUME TypeOK, Wake, UNCHANGED now
    PROVE  blocked' \in BOOLEAN /\ runs' \subseteq 0..now
  <1>1. blocked' = FALSE /\ (runs' = runs \/ runs' = {now})
    BY DEF Wake, WakeTasks
  <1>2. now \in Nat /\ runs \subseteq 0..now
    BY DEF TypeOK
  <1>3. {now} \subseteq 0..now
    BY <1>2
  <1> QED BY <1>1, <1>2, <1>3

LEMMA SendType ==
    ASSUME TypeOK, NEW t \in 0..now, SendPing(t)
    PROVE  /\ next_ping_time' \in Reading /\ ping_response_deadline' \in Reading
           /\ pingTimers' \subseteq Nat
  <1>1. /\ t \in Nat /\ now \in Nat /\ Period \in Nat /\ Timeout \in Nat
        /\ pingTimers \subseteq Nat
    BY Times DEF TypeOK
  <1>2. After(t, Period) \in Reading /\ After(t, Timeout) \in Reading
    BY <1>1, ClockType
  <1> QED BY <1>1, <1>2 DEF SendPing, Delay

LEMMA ProcessType ==
    ASSUME TypeOK, ProcessStart, UNCHANGED now
    PROVE  /\ status' \in {"running", "timedout", "aborted", "corrupt"}
           /\ next_ping_time' \in Reading /\ ping_response_deadline' \in Reading
           /\ pinging' \in BOOLEAN /\ blocked' \in BOOLEAN /\ stanzas' \in Nat
           /\ pingTimers' \subseteq Nat /\ asked' \in Seq(0..now)
           /\ overtaken' \in BOOLEAN
  <1>1. blocked' \in BOOLEAN /\ stanzas' \in Nat
    BY DEF TypeOK, ProcessStart
  <1>2. DeadlineLeft \in Reading
    BY TimesAssumption DEF TypeOK, DeadlineLeft, Reading
  <1>3. CASE TimedOut
    BY <1>1, <1>3 DEF TypeOK, TimedOut
  <1>4. CASE SendsPing
    <2>1. /\ next_ping_time' \in Reading /\ ping_response_deadline' \in Reading
          /\ pingTimers' \subseteq Nat
      BY <1>4, SendType DEF TypeOK, SendsPing
    <2>2. asked' \in Seq(0..now) /\ pinging' = TRUE
      BY <1>4 DEF TypeOK, SendsPing, SendStanza
    <2>3. overtaken' \in BOOLEAN /\ status' = status
      BY <1>4 DEF TypeOK, SendsPing
    <2> QED BY <1>1, <2>1, <2>2, <2>3 DEF TypeOK
  <1>5. CASE Rests
    BY <1>1, <1>2, <1>5 DEF TypeOK, Rests
  <1> QED BY <1>3, <1>4, <1>5 DEF ProcessStart

LEMMA KeepType ==
    ASSUME TypeOK, KeepAliveStart
    PROVE  /\ next_keepalive_time' \in Reading /\ keepBlocked' \in BOOLEAN
           /\ keepTimers' \subseteq Nat
  <1>1. now \in Nat /\ KeepAlive \in Nat /\ keepTimers \subseteq Nat
    BY Times DEF TypeOK
  <1>2. After(now, KeepAlive) \in Reading
    BY <1>1, ClockType
  <1>3. keepBlocked' = TRUE
    BY DEF KeepAliveStart
  <1>4. CASE Clock(now) >= next_keepalive_time
    <2>1. /\ next_keepalive_time' = After(now, KeepAlive)
          /\ keepTimers' = keepTimers \cup {now + KeepAlive}
      BY <1>4 DEF KeepAliveStart
    <2>2. now + KeepAlive \in Nat
      BY <1>1
    <2> QED BY <1>1, <1>2, <1>3, <2>1, <2>2
  <1>5. CASE ~(Clock(now) >= next_keepalive_time)
    BY <1>3, <1>5 DEF KeepAliveStart, TypeOK
  <1> QED BY <1>4, <1>5

LEMMA InitType == Init => TypeOK
  <1> SUFFICES ASSUME Init PROVE TypeOK
    OBVIOUS
  <1>1. 0 \in Reading
    BY TimesAssumption DEF Reading
  <1>2. /\ now = 0 /\ runs = {0} /\ runs \subseteq 0..now
        /\ calls \in 0..MaxNow
    BY TimesAssumption DEF Init
  <1>3. asked = <<>> /\ asked \in Seq(0..now)
    BY DEF Init
  <1>4. /\ pinging \in BOOLEAN /\ blocked \in BOOLEAN /\ keepBlocked \in BOOLEAN
        /\ overtaken \in BOOLEAN /\ stanzas = 0 /\ status = "running"
        /\ pingTimers = {} /\ keepTimers = {} /\ arming = Never /\ deadAt = Never
        /\ checked = FALSE
        /\ next_ping_time \in Reading /\ ping_response_deadline \in Reading
        /\ next_keepalive_time \in Reading
    BY <1>1 DEF Init
  <1> QED BY <1>2, <1>3, <1>4 DEF TypeOK

LEMMA NextType == TypeOK /\ [Next]_vars => TypeOK'
  <1> SUFFICES ASSUME TypeOK, [Next]_vars PROVE TypeOK'
    OBVIOUS
  <1> USE DEF ping, keep, user
  <1>1. CASE RunTasks
    <2>1. /\ UNCHANGED <<now, checked, arming, calls, deadAt>> /\ runs' = {}
      BY <1>1 DEF RunTasks
    <2>2. /\ next_keepalive_time' \in Reading /\ keepBlocked' \in BOOLEAN
          /\ keepTimers' \subseteq Nat
      BY <1>1, KeepType DEF RunTasks, TypeOK
    <2>3. /\ status' \in {"running", "timedout", "aborted", "corrupt"}
          /\ next_ping_time' \in Reading /\ ping_response_deadline' \in Reading
          /\ pinging' \in BOOLEAN /\ blocked' \in BOOLEAN /\ stanzas' \in Nat
          /\ pingTimers' \subseteq Nat /\ asked' \in Seq(0..now)
          /\ overtaken' \in BOOLEAN
      <3>1. CASE blocked
        BY <1>1, <3>1 DEF RunTasks, TypeOK
      <3>2. CASE ~blocked
        BY <1>1, <2>1, <3>2, ProcessType DEF RunTasks
      <3> QED BY <3>1, <3>2
    <2> QED BY <2>1, <2>2, <2>3 DEF TypeOK
  <1>2. CASE PingTimer
    <2>1. /\ Wake /\ pingTimers' \subseteq pingTimers
          /\ UNCHANGED <<now, status, next_ping_time, ping_response_deadline,
                 pinging, stanzas, keep, user, asked, deadAt, overtaken>>
      BY <1>2 DEF PingTimer
    <2>2. blocked' \in BOOLEAN /\ runs' \subseteq 0..now
      BY <2>1, WakeType
    <2> QED BY <2>1, <2>2 DEF TypeOK
  <1>3. CASE KeepAliveTimer
    <2>1. /\ keepTimers' \subseteq keepTimers /\ keepBlocked' = FALSE
          /\ UNCHANGED <<now, status, ping, next_keepalive_time, user, asked,
                         deadAt, overtaken>>
      BY <1>3 DEF KeepAliveTimer
    <2>2. runs' \subseteq 0..now
      <3>1. runs' = runs \/ runs' = {now}
        BY <1>3 DEF KeepAliveTimer, WakeTasks
      <3>2. now \in Nat /\ runs \subseteq 0..now
        BY DEF TypeOK
      <3>3. {now} \subseteq 0..now
        BY <3>2
      <3> QED BY <3>1, <3>2, <3>3
    <2> QED BY <2>1, <2>2 DEF TypeOK
  <1>4. CASE HandleStanza
    <2>1. /\ Wake /\ asked # <<>> /\ asked' = Tail(asked) /\ stanzas' = stanzas + 1
          /\ UNCHANGED <<now, status, next_ping_time, ping_response_deadline,
                 pinging, pingTimers, keep, user, deadAt, overtaken>>
      BY <1>4 DEF HandleStanza
    <2>2. blocked' \in BOOLEAN /\ runs' \subseteq 0..now
      BY <2>1, WakeType
    <2>3. asked' \in Seq(0..now) /\ stanzas' \in Nat
      BY <2>1 DEF TypeOK
    <2> QED BY <2>1, <2>2, <2>3 DEF TypeOK
  <1>5. CASE Abort \/ PingNowFreed
    <2>1. /\ status' \in {"aborted", "corrupt"}
          /\ UNCHANGED <<now, ping, keep, runs, user, asked, deadAt, overtaken>>
      BY <1>5 DEF Abort, PingNowFreed
    <2> QED BY <2>1 DEF TypeOK
  <1>6. CASE PingNowSends
    <2>1. /\ calls < MaxNow /\ checked' = FALSE /\ calls' = calls + 1 /\ pingTimers' = {}
          /\ asked' = Append(asked, now) /\ pinging' = TRUE /\ arming' = now
          /\ UNCHANGED <<now, status, next_ping_time, ping_response_deadline,
                 blocked, stanzas, keep, runs, deadAt, overtaken>>
      BY <1>6 DEF PingNowSends, SendStanza
    <2>2. /\ asked' \in Seq(0..now) /\ calls' \in 0..MaxNow
          /\ arming' \in 0..now \cup {Never}
      BY <2>1, TimesAssumption DEF TypeOK
    <2> QED BY <2>1, <2>2 DEF TypeOK
  <1>7. CASE PingNowArms
    <2>1. /\ arming # Never /\ SendPing(arming) /\ arming' = Never
          /\ UNCHANGED <<now, status, pinging, blocked, stanzas, keep, runs,
                         checked, calls, asked, deadAt, overtaken>>
      BY <1>7 DEF PingNowArms
    <2>2. arming \in 0..now
      BY <2>1 DEF TypeOK
    <2>3. /\ next_ping_time' \in Reading /\ ping_response_deadline' \in Reading
          /\ pingTimers' \subseteq Nat
      BY <2>1, <2>2, SendType
    <2> QED BY <2>1, <2>3 DEF TypeOK
  <1>8. CASE ServerDies
    <2>1. /\ deadAt' = now
          /\ UNCHANGED <<now, status, ping, keep, runs, user, asked, overtaken>>
      BY <1>8 DEF ServerDies
    <2> QED BY <2>1 DEF TypeOK
  <1>9. CASE Tick
    <2>1. /\ now' = now + 1
          /\ UNCHANGED <<status, ping, keep, runs, user, asked, deadAt, overtaken>>
      BY <1>9 DEF Tick
    <2>2. 0..now \subseteq 0..now' /\ now' \in Nat
      BY <2>1 DEF TypeOK
    <2>3. asked \in Seq(0..now')
      BY <2>2 DEF TypeOK
    <2> QED BY <2>1, <2>2, <2>3 DEF TypeOK
  <1>10. CASE PingNow
    <2>1. /\ checked' = TRUE /\ arming = Never
          /\ UNCHANGED <<now, status, ping, keep, runs, arming, calls, asked,
                         deadAt, overtaken>>
      BY <1>10 DEF PingNow
    <2> QED BY <2>1 DEF TypeOK
  <1>11. CASE UNCHANGED vars
    BY <1>11 DEF vars, TypeOK
  <1> QED
    BY <1>1, <1>2, <1>3, <1>4, <1>5, <1>6, <1>7, <1>8, <1>9, <1>10, <1>11 DEF Next

\* Every variable keeps its type: the readings stay below the wrap, and the
\* task never takes a response that is not there.
THEOREM TypeCorrectness == Spec => []TypeOK
  BY InitType, NextType, PTL DEF Spec

-----------------------------------------------------------------------------
(* The wake-ups *)

LEMMA InitWakes == Init => PingWakes /\ KeepWakes
  <1> SUFFICES ASSUME Init PROVE PingWakes /\ KeepWakes
    OBVIOUS
  <1>1. /\ now = 0 /\ runs = {0} /\ blocked = FALSE /\ keepBlocked = FALSE
        /\ next_ping_time = 0 /\ next_keepalive_time = 0
    BY DEF Init
  <1>2. Start + now >= 0
    BY <1>1, Times
  <1> QED BY <1>1, <1>2 DEF PingWakes, KeepWakes

\* Nothing starts a task again, and the clock only advances.
LEMMA Earlier ==
    ASSUME TypeOK, [Next]_vars, (Running /\ Unwrapped)'
    PROVE  /\ Running /\ Unwrapped
           /\ (now' = now) \/ (now' = now + 1)
  <1> USE DEF ping, keep, user
  <1>1. status' = "running"
    BY DEF Running
  <1>2. status = "running" /\ ((now' = now) \/ (now' = now + 1))
    <2>1. CASE RunTasks
      BY <2>1 DEF RunTasks, Running
    <2>2. CASE PingTimer \/ KeepAliveTimer \/ HandleStanza
      BY <1>1, <2>2 DEF PingTimer, KeepAliveTimer, HandleStanza
    <2>3. CASE Abort \/ PingNowFreed
      BY <1>1, <2>3 DEF Abort, PingNowFreed
    <2>4. CASE PingNowSends \/ PingNowArms
      BY <1>1, <2>4 DEF PingNowSends, PingNowArms
    <2>5. CASE ServerDies \/ Tick
      BY <1>1, <2>5 DEF ServerDies, Tick
    <2>6. CASE PingNow \/ UNCHANGED vars
      BY <1>1, <2>6 DEF PingNow, vars
    <2> QED BY <2>1, <2>2, <2>3, <2>4, <2>5, <2>6 DEF Next
  <1>3. now \in Nat
    BY DEF TypeOK
  <1> QED BY <1>2, <1>3, TimesAssumption DEF Running, Unwrapped

\* What a Wake leaves: the task is not blocked, and a run is posted.
LEMMA Woken ==
    ASSUME Wake, ~blocked => runs # {}
    PROVE  blocked' = FALSE /\ runs' # {}
  BY DEF Wake, WakeTasks

\* After SendPing the later of its messages comes when the next ping is due.
LEMMA SentWakes ==
    ASSUME TypeOK, NEW t \in 0..now, SendPing(t), Unwrapped
    PROVE  \E d \in pingTimers' : Start + d >= next_ping_time'
  <1>1. /\ now \in Nat /\ t \in Nat /\ t <= now /\ Start \in Nat /\ Period \in Nat
        /\ Start + t + Period < Wrap
    BY Times, TimesAssumption DEF TypeOK, Unwrapped
  <1>2. After(t, Period) = Start + t + Period
    BY <1>1, ClockValue
  <1>3. next_ping_time' = After(t, Period) /\ now + Period \in pingTimers'
    BY DEF SendPing, Delay
  <1>4. Start + (now + Period) >= Start + t + Period
    BY <1>1
  <1> QED BY <1>2, <1>3, <1>4

LEMMA KeptWakes ==
    ASSUME TypeOK, KeepAliveStart, Unwrapped,
           \/ \E t \in keepTimers : Start + t >= next_keepalive_time
           \/ Start + now >= next_keepalive_time
    PROVE  \E t \in keepTimers' : Start + t >= next_keepalive_time'
  <1>1. /\ now \in Nat /\ Start \in Nat /\ KeepAlive \in Nat
        /\ Start + now + 0 < Wrap /\ Start + now + KeepAlive < Wrap
    BY Times, TimesAssumption DEF TypeOK, Unwrapped
  <1>2. Clock(now) = Start + now /\ After(now, KeepAlive) = Start + now + KeepAlive
    BY <1>1, ClockValue
  <1>3. CASE Clock(now) >= next_keepalive_time
    <2>1. /\ next_keepalive_time' = After(now, KeepAlive)
          /\ now + KeepAlive \in keepTimers'
      BY <1>3 DEF KeepAliveStart
    <2>2. Start + (now + KeepAlive) >= Start + now + KeepAlive
      BY <1>1
    <2> QED BY <1>2, <2>1, <2>2
  <1>4. CASE ~(Clock(now) >= next_keepalive_time)
    <2>1. UNCHANGED next_keepalive_time /\ UNCHANGED keepTimers
      BY <1>4 DEF KeepAliveStart
    <2> QED BY <1>2, <1>4, <2>1
  <1> QED BY <1>3, <1>4

LEMMA PingWakesNext ==
    ASSUME TypeOK, PingWakes, [Next]_vars
    PROVE  PingWakes'
  <1> SUFFICES ASSUME (Running /\ Unwrapped)'
               PROVE  /\ (~blocked => runs # {})'
                      /\ \/ arming' # Never
                         \/ \E t \in pingTimers' : Start + t >= next_ping_time'
                         \/ ~blocked' /\ Start + now' >= next_ping_time'
    BY DEF PingWakes
  <1> USE DEF ping, keep, user
  <1>1. Running /\ Unwrapped /\ ((now' = now) \/ (now' = now + 1))
    BY Earlier
  <1>2. /\ ~blocked => runs # {}
        /\ \/ arming # Never
           \/ \E t \in pingTimers : Start + t >= next_ping_time
           \/ ~blocked /\ Start + now >= next_ping_time
    BY <1>1 DEF PingWakes
  <1>3. /\ now \in Nat /\ Start \in Nat /\ Start + now + 0 < Wrap
        /\ pingTimers \subseteq Nat
        /\ next_ping_time \in Nat
    BY <1>1, TimesAssumption DEF TypeOK, Unwrapped, Reading
  <1>4. CASE RunTasks
    <2>1. runs' = {} /\ now' = now /\ arming' = arming
      BY <1>4 DEF RunTasks
    <2>2. CASE blocked
      <3>1. UNCHANGED <<blocked, pingTimers, next_ping_time>>
        BY <1>4, <2>2 DEF RunTasks
      <3> QED BY <1>2, <2>1, <2>2, <3>1
    <2>3. CASE ~blocked
      <3>1. ProcessStart /\ blocked' = TRUE
        BY <1>4, <2>3 DEF RunTasks, ProcessStart
      <3>2. CASE TimedOut
        BY <3>2 DEF TimedOut, Running
      <3>3. CASE SendsPing
        <4>1. now \in 0..now
          BY <1>3
        <4>2. SendPing(now)
          BY <3>3 DEF SendsPing
        <4> QED BY <1>1, <3>1, <4>1, <4>2, SentWakes
      <3>4. CASE Rests
        <4>1. /\ ~(Clock(now) >= next_ping_time)
              /\ UNCHANGED next_ping_time /\ UNCHANGED pingTimers
          BY <3>4 DEF Rests, Due
        <4>2. Clock(now) = Start + now
          BY <1>3, ClockValue
        <4> QED BY <1>2, <2>1, <3>1, <4>1, <4>2
      <3> QED BY <3>1, <3>2, <3>3, <3>4 DEF ProcessStart
    <2> QED BY <2>2, <2>3
  <1>5. CASE PingTimer
    <2>1. /\ Wake /\ UNCHANGED now /\ UNCHANGED next_ping_time /\ UNCHANGED arming
      BY <1>5 DEF PingTimer
    <2>2. blocked' = FALSE /\ runs' # {}
      BY <1>2, <2>1, Woken
    <2>3. PICK t \in pingTimers : t <= now /\ pingTimers' = pingTimers \ {t}
      BY <1>5 DEF PingTimer
    <2>4. CASE \E d \in pingTimers : Start + d >= next_ping_time
      <3>1. PICK d \in pingTimers : Start + d >= next_ping_time
        BY <2>4
      <3>2. CASE d = t
        <4>1. t \in Nat /\ Start + now >= Start + t
          BY <1>3, <2>3
        <4>2. Start + now >= next_ping_time
          BY <1>3, <3>1, <3>2, <4>1
        <4> QED BY <2>1, <2>2, <4>2
      <3>3. CASE d # t
        BY <2>1, <2>2, <2>3, <3>1, <3>3
      <3> QED BY <3>2, <3>3
    <2>5. CASE arming # Never \/ (~blocked /\ Start + now >= next_ping_time)
      BY <2>1, <2>2, <2>5
    <2> QED BY <1>2, <2>4, <2>5
  <1>6. CASE HandleStanza
    <2>1. /\ Wake /\ UNCHANGED now /\ UNCHANGED next_ping_time /\ UNCHANGED arming
          /\ UNCHANGED pingTimers
      BY <1>6 DEF HandleStanza
    <2>2. blocked' = FALSE /\ runs' # {}
      BY <1>2, <2>1, Woken
    <2> QED BY <1>2, <2>1, <2>2
  <1>7. CASE KeepAliveTimer
    <2>1. /\ UNCHANGED now /\ UNCHANGED next_ping_time /\ UNCHANGED arming
          /\ UNCHANGED blocked /\ UNCHANGED pingTimers
      BY <1>7 DEF KeepAliveTimer
    <2>2. runs # {} => runs' # {}
      BY <1>7 DEF KeepAliveTimer, WakeTasks
    <2> QED BY <1>2, <2>1, <2>2
  <1>8. CASE PingNowSends
    <2>1. UNCHANGED blocked /\ UNCHANGED runs /\ arming' = now
      BY <1>8 DEF PingNowSends
    <2> QED BY <1>2, <1>3, <2>1, Times
  <1>9. CASE PingNowArms
    <2>1. UNCHANGED blocked /\ UNCHANGED runs /\ arming # Never /\ SendPing(arming)
      BY <1>9 DEF PingNowArms
    <2>2. arming \in 0..now
      BY <2>1 DEF TypeOK
    <2>3. \E d \in pingTimers' : Start + d >= next_ping_time'
      BY <1>1, <2>1, <2>2, SentWakes
    <2> QED BY <1>2, <2>1, <2>3
  <1>10. CASE Tick
    <2>1. /\ now' = now + 1 /\ UNCHANGED next_ping_time /\ UNCHANGED arming
          /\ UNCHANGED blocked /\ UNCHANGED pingTimers /\ UNCHANGED runs
      BY <1>10 DEF Tick
    <2>2. Start + now >= next_ping_time => Start + now' >= next_ping_time
      BY <1>3, <2>1
    <2> QED BY <1>2, <2>1, <2>2
  <1>11. CASE ServerDies \/ PingNow \/ UNCHANGED vars
    <2>1. /\ UNCHANGED now /\ UNCHANGED next_ping_time /\ UNCHANGED arming
          /\ UNCHANGED blocked /\ UNCHANGED pingTimers /\ UNCHANGED runs
      BY <1>11 DEF ServerDies, PingNow, vars
    <2> QED BY <1>2, <2>1
  <1>12. CASE Abort \/ PingNowFreed
    BY <1>12 DEF Abort, PingNowFreed, Running
  <1> QED BY <1>4, <1>5, <1>6, <1>7, <1>8, <1>9, <1>10, <1>11, <1>12 DEF Next

LEMMA KeepWakesNext ==
    ASSUME TypeOK, KeepWakes, [Next]_vars
    PROVE  KeepWakes'
  <1> SUFFICES ASSUME (Running /\ Unwrapped)'
               PROVE  /\ (~keepBlocked => runs # {})'
                      /\ \/ \E t \in keepTimers' : Start + t >= next_keepalive_time'
                         \/ ~keepBlocked' /\ Start + now' >= next_keepalive_time'
    BY DEF KeepWakes
  <1> USE DEF ping, keep, user
  <1>1. Running /\ Unwrapped /\ ((now' = now) \/ (now' = now + 1))
    BY Earlier
  <1>2. /\ ~keepBlocked => runs # {}
        /\ \/ \E t \in keepTimers : Start + t >= next_keepalive_time
           \/ ~keepBlocked /\ Start + now >= next_keepalive_time
    BY <1>1 DEF KeepWakes
  <1>3. /\ now \in Nat /\ Start \in Nat /\ keepTimers \subseteq Nat
        /\ next_keepalive_time \in Nat
    BY TimesAssumption DEF TypeOK, Reading
  <1>4. CASE RunTasks
    <2>1. runs' = {} /\ now' = now
      BY <1>4 DEF RunTasks
    <2>2. CASE keepBlocked
      <3>1. UNCHANGED <<keepBlocked, keepTimers, next_keepalive_time>>
        BY <1>4, <2>2 DEF RunTasks
      <3> QED BY <1>2, <2>1, <2>2, <3>1
    <2>3. CASE ~keepBlocked
      <3>1. KeepAliveStart /\ keepBlocked' = TRUE
        BY <1>4, <2>3 DEF RunTasks, KeepAliveStart
      <3> QED BY <1>1, <1>2, <3>1, KeptWakes
    <2> QED BY <2>2, <2>3
  <1>5. CASE KeepAliveTimer
    <2>1. UNCHANGED now /\ UNCHANGED next_keepalive_time /\ keepBlocked' = FALSE
      BY <1>5 DEF KeepAliveTimer
    <2>2. runs' # {}
      BY <1>2, <1>5 DEF KeepAliveTimer, WakeTasks
    <2>3. PICK t \in keepTimers : t <= now /\ keepTimers' = keepTimers \ {t}
      BY <1>5 DEF KeepAliveTimer
    <2>4. CASE \E d \in keepTimers : Start + d >= next_keepalive_time
      <3>1. PICK d \in keepTimers : Start + d >= next_keepalive_time
        BY <2>4
      <3>2. CASE d = t
        <4>1. t \in Nat /\ Start + now >= Start + t
          BY <1>3, <2>3
        <4>2. Start + now >= next_keepalive_time
          BY <1>3, <3>1, <3>2, <4>1
        <4> QED BY <2>1, <2>2, <4>2
      <3>3. CASE d # t
        BY <2>1, <2>2, <2>3, <3>1, <3>3
      <3> QED BY <3>2, <3>3
    <2>5. CASE ~keepBlocked /\ Start + now >= next_keepalive_time
      BY <2>1, <2>2, <2>5
    <2> QED BY <1>2, <2>4, <2>5
  <1>6. CASE PingTimer \/ HandleStanza
    <2>1. /\ Wake /\ UNCHANGED now /\ UNCHANGED next_keepalive_time
          /\ UNCHANGED keepBlocked /\ UNCHANGED keepTimers
      BY <1>6 DEF PingTimer, HandleStanza
    <2>2. runs # {} => runs' # {}
      BY <2>1 DEF Wake, WakeTasks
    <2> QED BY <1>2, <2>1, <2>2
  <1>7. CASE Tick
    <2>1. /\ now' = now + 1 /\ UNCHANGED next_keepalive_time
          /\ UNCHANGED keepBlocked /\ UNCHANGED keepTimers /\ UNCHANGED runs
      BY <1>7 DEF Tick
    <2>2. Start + now >= next_keepalive_time => Start + now' >= next_keepalive_time
      BY <1>3, <2>1
    <2> QED BY <1>2, <2>1, <2>2
  <1>8. CASE PingNowSends \/ PingNowArms \/ ServerDies \/ PingNow \/ UNCHANGED vars
    <2>1. /\ UNCHANGED now /\ UNCHANGED next_keepalive_time
          /\ UNCHANGED keepBlocked /\ UNCHANGED keepTimers /\ UNCHANGED runs
      BY <1>8 DEF PingNowSends, PingNowArms, ServerDies, PingNow, vars
    <2> QED BY <1>2, <2>1
  <1>9. CASE Abort \/ PingNowFreed
    BY <1>9 DEF Abort, PingNowFreed, Running
  <1> QED BY <1>4, <1>5, <1>6, <1>7, <1>8, <1>9 DEF Next

LEMMA Wakes == Spec => []WInv
  <1>1. Init => WInv
    BY InitType, InitWakes DEF WInv
  <1>2. WInv /\ [Next]_vars => WInv'
    <2> SUFFICES ASSUME WInv, [Next]_vars PROVE WInv'
      OBVIOUS
    <2>1. TypeOK'
      BY NextType DEF WInv
    <2>2. PingWakes'
      BY PingWakesNext DEF WInv
    <2>3. KeepWakes'
      BY KeepWakesNext DEF WInv
    <2> QED BY <2>1, <2>2, <2>3 DEF WInv
  <1> QED BY <1>1, <1>2, PTL DEF Spec

\* Neither chain of wake-ups ever breaks, whatever PingNow clears and however
\* late the messages are.
THEOREM ChainsGoOn == Spec => []NeverForgotten
  <1>1. WInv => NeverForgotten
    BY DEF WInv, PingWakes, KeepWakes, NeverForgotten
  <1> QED BY <1>1, Wakes, PTL

-----------------------------------------------------------------------------
(* The timeout.  A deadline is explained by the oldest ping that has no      *)
(* answer: either the ping is so old that the deadline is right for it, or   *)
(* the task cannot run before the ping is old enough.                        *)

LateFor(t) == /\ blocked \/ now >= t + Timeout
              /\ \A d \in pingTimers : d >= t + Timeout

\* While PingNow is on its way the task sends at most once.
Armed ==
    Running /\ Unwrapped /\ arming # Never =>
        /\ now <= arming + Lag /\ calls > 0
        /\ pingTimers = {} \/ next_ping_time >= Start + arming + Period

DeadlineExplained ==
    ping_response_deadline # 0 =>
        /\ asked # <<>>
        /\ \/ Start + Head(asked) + Timeout <= ping_response_deadline
           \/ LateFor(Head(asked))

ArmingExplained ==
    arming # Never => asked # <<>> /\ (Head(asked) <= arming \/ LateFor(Head(asked)))

Explained ==
    Running /\ Unwrapped /\ stanzas = 0 /\ ~overtaken =>
        DeadlineExplained /\ ArmingExplained

\* What the clock says before it wraps.
LEMMA Told ==
    ASSUME TypeOK, Unwrapped
    PROVE  /\ now \in Nat /\ Clock(now) = Start + now
           /\ \A t \in 0..now : /\ t \in Nat
                                /\ After(t, Period) = Start + t + Period
                                /\ After(t, Timeout) = Start + t + Timeout
  <1>1. /\ now \in Nat /\ Start \in Nat /\ Start + now + 0 < Wrap
        /\ Start + now + Period < Wrap /\ Period \in Nat /\ Timeout \in Nat
        /\ Timeout <= Period /\ Wrap \in Nat
    BY TimesAssumption DEF TypeOK, Unwrapped
  <1>2. Clock(now) = Start + now
    BY <1>1, ClockValue
  <1>3. ASSUME NEW t \in 0..now
        PROVE  /\ t \in Nat
               /\ After(t, Period) = Start + t + Period
               /\ After(t, Timeout) = Start + t + Timeout
    <2>1. /\ t \in Nat /\ Start + t + Period < Wrap /\ Start + t + Timeout < Wrap
      BY <1>1
    <2> QED BY <1>1, <2>1, ClockValue
  <1> QED BY <1>1, <1>2, <1>3

\* A ping that is sent leaves the oldest one the oldest.
LEMMA Oldest ==
    ASSUME TypeOK, SendStanza
    PROVE  /\ asked' # <<>> /\ Head(asked') \in 0..now
           /\ asked # <<>> => Head(asked') = Head(asked)
           /\ asked = <<>> => Head(asked') = now
           /\ Len(asked') = Len(asked) + 1
  <1>1. now \in Nat /\ asked \in Seq(0..now) /\ asked' = Append(asked, now)
    BY DEF TypeOK, SendStanza
  <1>2. now \in 0..now
    BY <1>1
  <1>3. CASE asked = <<>>
    <2>1. asked' = <<now>>
      BY <1>1, <1>3
    <2> QED BY <1>2, <1>3, <2>1
  <1>4. CASE asked # <<>>
    <2>1. /\ asked' # <<>> /\ Len(asked') = Len(asked) + 1
          /\ Head(asked') = asked'[1] /\ Head(asked) = asked[1]
          /\ Len(asked) >= 1 /\ asked'[1] = asked[1] /\ asked[1] \in 0..now
      BY <1>1, <1>2, <1>4
    <2> QED BY <1>4, <2>1
  <1> QED BY <1>3, <1>4

LEMMA InitExplained == Init => Armed /\ Explained /\ TimeoutExplained
  BY DEF Init, Armed, Explained, DeadlineExplained, ArmingExplained,
         TimeoutExplained

LEMMA ArmedNext ==
    ASSUME TypeOK, Armed, [Next]_vars
    PROVE  Armed'
  <1> SUFFICES ASSUME (Running /\ Unwrapped)', arming' # Never
               PROVE  /\ now' <= arming' + Lag /\ calls' > 0
                      /\ \/ pingTimers' = {}
                         \/ next_ping_time' >= Start + arming' + Period
    BY DEF Armed
  <1> USE DEF ping, keep, user
  <1>1. Running /\ Unwrapped
    BY Earlier
  <1>2. /\ now \in Nat /\ Lag \in Nat /\ calls \in Nat /\ Start \in Nat /\ Period \in Nat
        /\ arming \in 0..now \cup {Never} /\ next_ping_time \in Nat
        /\ pingTimers \subseteq Nat
    BY Times, TimesAssumption DEF TypeOK, Reading
  <1>3. arming # Never =>
          /\ now <= arming + Lag /\ calls > 0
          /\ pingTimers = {} \/ next_ping_time >= Start + arming + Period
    BY <1>1 DEF Armed
  <1>4. CASE RunTasks
    <2>1. UNCHANGED now /\ UNCHANGED arming /\ UNCHANGED calls
      BY <1>4 DEF RunTasks
    <2>2. CASE UNCHANGED <<pingTimers, next_ping_time>>
      BY <1>3, <2>1, <2>2
    <2>3. CASE SendsPing
      <3>1. /\ next_ping_time' = Start + now + Period
        <4>1. now \in 0..now
          BY <1>2
        <4> QED BY <1>1, <2>3, <4>1, Told DEF SendsPing, SendPing
      <3>2. next_ping_time' >= Start + arming' + Period
        BY <1>2, <2>1, <3>1
      <3> QED BY <1>3, <2>1, <3>2
    <2> QED BY <1>4, <2>2, <2>3 DEF RunTasks, ProcessStart, TimedOut, Rests
  <1>5. CASE PingTimer
    <2>1. /\ UNCHANGED now /\ UNCHANGED arming /\ UNCHANGED calls
          /\ UNCHANGED next_ping_time /\ pingTimers' \subseteq pingTimers
      BY <1>5 DEF PingTimer
    <2> QED BY <1>3, <2>1
  <1>6. CASE PingNowSends
    <2>1. /\ UNCHANGED now /\ arming' = now /\ calls' = calls + 1 /\ pingTimers' = {}
      BY <1>6 DEF PingNowSends
    <2> QED BY <1>2, <2>1
  <1>7. CASE Tick
    <2>1. /\ now' = now + 1 /\ UNCHANGED arming /\ UNCHANGED calls
          /\ UNCHANGED next_ping_time /\ UNCHANGED pingTimers
          /\ arming # Never => now < arming + Lag
      BY <1>7 DEF Tick
    <2>2. arming \in Nat
      BY <1>2, <2>1
    <2>3. now' <= arming + Lag
      BY <1>2, <2>1, <2>2
    <2> QED BY <1>3, <2>1, <2>3
  <1>8. CASE \/ KeepAliveTimer \/ HandleStanza \/ Abort \/ PingNowFreed
             \/ ServerDies \/ PingNow \/ UNCHANGED vars
    <2>1. /\ UNCHANGED now /\ UNCHANGED arming /\ UNCHANGED calls
          /\ UNCHANGED next_ping_time /\ UNCHANGED pingTimers
      BY <1>8 DEF KeepAliveTimer, HandleStanza, Abort, PingNowFreed, ServerDies, PingNow, vars
    <2> QED BY <1>3, <2>1
  <1>9. CASE PingNowArms
    BY <1>9 DEF PingNowArms
  <1> QED BY <1>4, <1>5, <1>6, <1>7, <1>8, <1>9 DEF Next

LEMMA ExplainedNext ==
    ASSUME TypeOK, Armed, Explained, [Next]_vars
    PROVE  Explained'
  <1> SUFFICES ASSUME (Running /\ Unwrapped)', stanzas' = 0, ~overtaken'
               PROVE  DeadlineExplained' /\ ArmingExplained'
    BY DEF Explained
  <1> USE DEF ping, keep, user
  <1>1. Running /\ Unwrapped /\ ((now' = now) \/ (now' = now + 1))
    BY Earlier
  <1>2. /\ now \in Nat /\ Start \in Nat /\ Period \in Nat /\ Timeout \in Nat
        /\ Timeout <= Period /\ stanzas \in Nat /\ asked \in Seq(0..now)
        /\ arming \in 0..now \cup {Never} /\ Lag \in Nat /\ Lag < Period
        /\ pingTimers \subseteq Nat /\ Never \notin Nat
        /\ next_ping_time \in Nat /\ ping_response_deadline \in Nat
    BY Times, TimesAssumption, LagAssumption DEF TypeOK, Reading
  <1>3. asked # <<>> => Head(asked) \in 0..now
    BY <1>2
  <1>4. CASE RunTasks
    <2>1. UNCHANGED now /\ UNCHANGED arming
      BY <1>4 DEF RunTasks
    <2>2. CASE blocked
      <3>1. UNCHANGED <<ping, asked, overtaken>>
        BY <1>4, <2>2 DEF RunTasks
      <3> QED
        BY <1>1, <2>1, <3>1 DEF Explained, DeadlineExplained, ArmingExplained, LateFor
    <2>3. CASE ~blocked
      <3>1. /\ ProcessStart /\ blocked' = TRUE
            /\ stanzas' = IF stanzas > 0 THEN stanzas - 1 ELSE 0
        BY <1>4, <2>3 DEF RunTasks, ProcessStart
      <3>2. CASE TimedOut
        BY <3>2 DEF TimedOut, Running
      <3>3. CASE SendsPing
        <4>1. /\ Due /\ SendStanza /\ SendPing(now)
              /\ overtaken' = (overtaken /\ arming # Never)
          BY <3>3 DEF SendsPing
        <4>2. /\ asked' # <<>> /\ Head(asked') \in 0..now
              /\ asked # <<>> => Head(asked') = Head(asked)
          BY <4>1, Oldest
        <4>3. /\ now \in 0..now
              /\ ping_response_deadline' = Start + now + Timeout
              /\ pingTimers' = pingTimers \cup {now + Timeout, now + Period}
          BY <1>1, <1>2, <4>1, Told DEF SendPing, Delay
        <4>4. DeadlineExplained'
          <5>1. Start + Head(asked') + Timeout <= ping_response_deadline'
            BY <1>2, <4>2, <4>3
          <5> QED BY <4>2, <5>1 DEF DeadlineExplained
        <4>5. arming' # Never => LateFor(Head(asked))' \/ Head(asked') <= arming'
          <5> SUFFICES ASSUME arming' # Never
                       PROVE  LateFor(Head(asked))'
            OBVIOUS
          <5>1. Clock(now) = Start + now /\ Start + now >= next_ping_time
            BY <1>1, <4>1, Told DEF Due
          <5>2. /\ now <= arming + Lag /\ arming \in Nat
                /\ pingTimers = {} \/ next_ping_time >= Start + arming + Period
            BY <1>1, <1>2, <2>1 DEF Armed
          <5>3. pingTimers = {}
            BY <1>2, <5>1, <5>2
          <5>4. \A d \in pingTimers' : d >= Head(asked') + Timeout
            BY <1>2, <4>2, <4>3, <5>3
          <5> QED BY <3>1, <5>4 DEF LateFor
        <4> QED BY <4>2, <4>4, <4>5 DEF ArmingExplained
      <3>4. CASE Rests
        <4>1. /\ ping_response_deadline' = DeadlineLeft
              /\ overtaken' = IF stanzas > 0 THEN arming # Never ELSE overtaken
              /\ UNCHANGED asked /\ UNCHANGED pingTimers
          BY <3>4 DEF Rests
        <4>2. CASE stanzas > 0
          <5>1. ping_response_deadline' = 0 /\ arming' = Never
            BY <2>1, <4>1, <4>2 DEF DeadlineLeft
          <5> QED BY <5>1 DEF DeadlineExplained, ArmingExplained
        <4>3. CASE ~(stanzas > 0)
          <5>1. /\ stanzas = 0 /\ ~overtaken
                /\ ping_response_deadline' = ping_response_deadline
            BY <1>2, <4>1, <4>3 DEF DeadlineLeft
          <5>2. DeadlineExplained /\ ArmingExplained
            BY <1>1, <5>1 DEF Explained
          <5> QED BY <2>1, <3>1, <4>1, <5>1, <5>2
                  DEF DeadlineExplained, ArmingExplained, LateFor
        <4> QED BY <4>2, <4>3
      <3> QED BY <3>1, <3>2, <3>3, <3>4 DEF ProcessStart
    <2> QED BY <2>2, <2>3
  <1>5. CASE PingTimer
    <2>1. /\ UNCHANGED <<now, ping_response_deadline, stanzas, arming, asked, overtaken>>
          /\ \E t \in pingTimers : t <= now /\ pingTimers' = pingTimers \ {t}
      BY <1>5 DEF PingTimer
    <2>2. DeadlineExplained /\ ArmingExplained
      BY <1>1, <2>1 DEF Explained
    <2>3. ASSUME asked # <<>>, LateFor(Head(asked))
          PROVE  LateFor(Head(asked))'
      <3>1. now >= Head(asked) + Timeout
        BY <1>2, <1>3, <2>1, <2>3 DEF LateFor
      <3> QED BY <2>1, <2>3, <3>1 DEF LateFor
    <2> QED BY <2>1, <2>2, <2>3 DEF DeadlineExplained, ArmingExplained
  <1>6. CASE HandleStanza
    BY <1>2, <1>6 DEF HandleStanza
  <1>7. CASE PingNowSends
    <2>1. /\ SendStanza /\ arming' = now /\ pingTimers' = {}
          /\ UNCHANGED <<now, ping_response_deadline, blocked, stanzas, overtaken>>
      BY <1>7 DEF PingNowSends
    <2>2. DeadlineExplained
      BY <1>1, <2>1 DEF Explained
    <2>3. /\ asked' # <<>> /\ Head(asked') \in 0..now
          /\ asked # <<>> => Head(asked') = Head(asked)
      BY <2>1, Oldest
    <2>4. DeadlineExplained'
      <3> SUFFICES ASSUME ping_response_deadline # 0
                   PROVE  \/ Start + Head(asked') + Timeout <= ping_response_deadline
                          \/ LateFor(Head(asked))'
        BY <2>1, <2>3 DEF DeadlineExplained
      <3> QED BY <2>1, <2>2, <2>3 DEF DeadlineExplained, LateFor
    <2>5. ArmingExplained'
      BY <2>1, <2>3 DEF ArmingExplained
    <2> QED BY <2>4, <2>5
  <1>8. CASE PingNowArms
    <2>1. /\ arming # Never /\ arming' = Never /\ SendPing(arming)
          /\ UNCHANGED <<now, blocked, stanzas, asked, overtaken>>
      BY <1>8 DEF PingNowArms
    <2>2. ArmingExplained /\ asked # <<>>
      BY <1>1, <2>1 DEF Explained, ArmingExplained
    <2>3. /\ arming \in 0..now
          /\ ping_response_deadline' = Start + arming + Timeout
          /\ pingTimers' = pingTimers \cup {now + Timeout, now + Period}
      BY <1>1, <1>2, <2>1, Told DEF SendPing, Delay
    <2>4. LateFor(Head(asked)) => LateFor(Head(asked))'
      BY <1>2, <1>3, <2>1, <2>2, <2>3 DEF LateFor
    <2>5. Head(asked) <= arming =>
            Start + Head(asked) + Timeout <= ping_response_deadline'
      BY <1>2, <1>3, <2>2, <2>3
    <2> QED BY <2>1, <2>2, <2>4, <2>5 DEF DeadlineExplained, ArmingExplained
  <1>9. CASE Tick
    <2>1. /\ now' = now + 1
          /\ UNCHANGED <<ping_response_deadline, blocked, stanzas, pingTimers,
                         arming, asked, overtaken>>
      BY <1>9 DEF Tick
    <2>2. DeadlineExplained /\ ArmingExplained
      BY <1>1, <2>1 DEF Explained
    <2>3. asked # <<>> /\ LateFor(Head(asked)) => LateFor(Head(asked))'
      BY <1>2, <1>3, <2>1 DEF LateFor
    <2> QED BY <2>1, <2>2, <2>3 DEF DeadlineExplained, ArmingExplained
  <1>10. CASE KeepAliveTimer \/ ServerDies \/ PingNow \/ UNCHANGED vars
    <2>1. UNCHANGED <<now, ping_response_deadline, blocked, stanzas, pingTimers,
                      arming, asked, overtaken>>
      BY <1>10 DEF KeepAliveTimer, ServerDies, PingNow, vars
    <2>2. DeadlineExplained /\ ArmingExplained
      BY <1>1, <2>1 DEF Explained
    <2> QED BY <2>1, <2>2 DEF DeadlineExplained, ArmingExplained, LateFor
  <1>11. CASE Abort \/ PingNowFreed
    BY <1>11 DEF Abort, PingNowFreed, Running
  <1> QED BY <1>4, <1>5, <1>6, <1>7, <1>8, <1>9, <1>10, <1>11 DEF Next

LEMMA TimeoutNext ==
    ASSUME TypeOK, Explained, TimeoutExplained, [Next]_vars
    PROVE  TimeoutExplained'
  <1> SUFFICES ASSUME status' = "timedout", Unwrapped', ~overtaken'
               PROVE  asked' # <<>> /\ now' >= Head(asked') + Timeout
    BY DEF TimeoutExplained
  <1> USE DEF ping, keep, user
  <1>1. CASE status = "timedout"
    <2>1. UNCHANGED vars
      BY <1>1 DEF Next, RunTasks, PingTimer, KeepAliveTimer, HandleStanza, Abort,
                  PingNow, PingNowSends, PingNowArms, PingNowFreed, ServerDies, Tick, Running
    <2> QED BY <1>1, <2>1 DEF vars, TimeoutExplained, Unwrapped
  <1>2. CASE status # "timedout"
    <2>1. RunTasks /\ ~blocked /\ TimedOut
      <3>1. RunTasks
        BY <1>2 DEF Next, vars, PingTimer, KeepAliveTimer, HandleStanza, Abort,
                    PingNow, PingNowSends, PingNowArms, PingNowFreed, ServerDies, Tick
      <3>2. ~blocked /\ ProcessStart
        BY <1>2, <3>1 DEF RunTasks
      <3> QED BY <1>2, <3>1, <3>2 DEF ProcessStart, SendsPing, Rests
    <2>2. /\ Running /\ UNCHANGED now /\ Expired /\ UNCHANGED asked
          /\ UNCHANGED overtaken
      BY <2>1 DEF RunTasks, TimedOut
    <2>3. Unwrapped
      BY <2>2 DEF Unwrapped
    <2>4. /\ stanzas = 0 /\ ping_response_deadline # 0
          /\ Start + now >= ping_response_deadline
      <3>1. DeadlineLeft # 0 /\ Clock(now) >= DeadlineLeft /\ Clock(now) = Start + now
        BY <2>2, <2>3, Told DEF Expired
      <3>2. ~(stanzas > 0)
        BY <3>1 DEF DeadlineLeft
      <3>3. stanzas \in Nat
        BY DEF TypeOK
      <3> QED BY <3>1, <3>2, <3>3 DEF DeadlineLeft
    <2>5. DeadlineExplained
      BY <2>2, <2>3, <2>4 DEF Explained
    <2>6. /\ now \in Nat /\ Start \in Nat /\ Timeout \in Nat
          /\ ping_response_deadline \in Nat /\ asked \in Seq(0..now)
      BY Times, TimesAssumption DEF TypeOK, Reading
    <2>7. asked # <<>> /\ Head(asked) \in 0..now
      BY <2>4, <2>5, <2>6 DEF DeadlineExplained
    <2>8. CASE Start + Head(asked) + Timeout <= ping_response_deadline
      BY <2>2, <2>4, <2>6, <2>7, <2>8
    <2>9. CASE LateFor(Head(asked))
      BY <2>1, <2>2, <2>7, <2>9 DEF LateFor
    <2> QED BY <2>4, <2>5, <2>8, <2>9 DEF DeadlineExplained
  <1> QED BY <1>1, <1>2

LEMMA Explains == Spec => [](TypeOK /\ Armed /\ Explained /\ TimeoutExplained)
  <1>1. Init => TypeOK /\ Armed /\ Explained /\ TimeoutExplained
    BY InitType, InitExplained
  <1>2. TypeOK /\ Armed /\ Explained /\ TimeoutExplained /\ [Next]_vars
          => (TypeOK /\ Armed /\ Explained /\ TimeoutExplained)'
    BY NextType, ArmedNext, ExplainedNext, TimeoutNext
  <1> QED BY <1>1, <1>2, PTL DEF Spec

\* Before the clock wraps, the user is disconnected only for a ping that is
\* Timeout old, or for an answer that overtook PingNow.
THEOREM TimeoutsAreExplained == Spec => []TimeoutExplained
  BY Explains, PTL

-----------------------------------------------------------------------------
(* The dead server.  Once no answer comes any more, each period sends a ping *)
(* that takes an answer out of the queue or is never answered.  How many     *)
(* answers there are to take is bounded by the calls of PingNow.             *)

Round == Period + 2 * Lag
Rounds(k) == k * Round
Delays(k) == k * Lag

\* 1 while a ping waits for its answer, and once it is sent.
Open == IF ping_response_deadline # 0 /\ pinging THEN 1 ELSE 0
Sent == IF pinging THEN 1 ELSE 0

\* The last SendPing, and the call of PingNow that is on its way, were not
\* later than these.
LastSend == IF deadAt = Never THEN now
            ELSE deadAt + Rounds(calls + Open - stanzas) + Delays(calls)
LastCall == IF deadAt = Never THEN now
            ELSE deadAt + Rounds(calls + Sent - stanzas) + Delays(calls - 1)

\* A run of the task is to come when "due" is over, woken no later than "last".
Soon(due, last) ==
    \/ \E t \in pingTimers : Start + t >= due /\ t <= last
    \/ ~blocked /\ Start + now >= due /\ \E r \in runs : r <= last + Lag

Punctual == Running => \A t \in pingTimers \cup runs : now <= t + Lag

DeadlineFirst ==
    Running /\ Unwrapped /\ ping_response_deadline # 0 =>
        ping_response_deadline <= next_ping_time

\* Each ping that has no answer or an answer that was not taken, but one, was
\* sent beside a PingNow.
AnswersCounted == Running /\ Unwrapped => Len(asked) + stanzas <= calls + Open

SendsSoon ==
    arming = Never =>
        /\ Soon(next_ping_time, LastSend + Period)
        /\ ping_response_deadline # 0 => Soon(ping_response_deadline, LastSend + Timeout)

Noticed == Running /\ Unwrapped => SendsSoon /\ (arming # Never => arming <= LastCall)

DInv == /\ TypeOK /\ PingWakes /\ Armed
        /\ Punctual /\ DeadlineFirst /\ AnswersCounted /\ Noticed

LEMMA Sums ==
    /\ Round \in Nat /\ Round = Period + 2 * Lag
    /\ \A k \in Int : Rounds(k) \in Int /\ Rounds(k + 1) = Rounds(k) + Round
    /\ \A k \in Nat : Rounds(k) >= 0
    /\ \A k, l \in Int : k <= l => Rounds(k) <= Rounds(l)
    /\ \A k \in Int : Delays(k) \in Int /\ Delays(k) = Delays(k - 1) + Lag
    /\ \A k \in Nat : Delays(k) >= 0
    /\ \A k \in Nat : Rounds(k + 1) + Delays(k) = Period + 2 * Lag + k * (Period + 3 * Lag)
  <1>1. /\ Period \in Nat /\ Lag \in Nat /\ Round \in Nat
    BY Times DEF Round
  <1>2. \A k \in Int : Rounds(k) \in Int /\ Rounds(k + 1) = Rounds(k) + Round
    BY <1>1 DEF Rounds
  <1>3. \A k \in Nat : Rounds(k) >= 0 /\ Delays(k) >= 0
    BY <1>1 DEF Rounds, Delays
  <1>4. ASSUME NEW k \in Int, NEW l \in Int, k <= l
        PROVE  Rounds(k) <= Rounds(l)
    <2>1. (l - k) \in Nat
      BY <1>4
    <2>2. (l - k) * Round >= 0
      BY <1>1, <2>1
    <2>3. (l - k) * Round = l * Round - k * Round
      BY <1>1
    <2> QED BY <1>1, <2>2, <2>3 DEF Rounds
  <1>5. \A k \in Int : Delays(k) \in Int /\ Delays(k) = Delays(k - 1) + Lag
    BY <1>1 DEF Delays
  <1>6. \A k \in Nat : Rounds(k + 1) + Delays(k) = Period + 2 * Lag + k * (Period + 3 * Lag)
    BY <1>1 DEF Rounds, Delays, Round
  <1> QED BY <1>1, <1>2, <1>3, <1>4, <1>5, <1>6 DEF Round

LEMMA Typed ==
    ASSUME TypeOK
    PROVE  /\ now \in Nat /\ calls \in Nat /\ stanzas \in Nat
           /\ Start \in Nat /\ Period \in Nat /\ Timeout \in Nat /\ Lag \in Nat
           /\ Timeout > 0 /\ Timeout <= Period /\ Never \notin Nat
           /\ pingTimers \subseteq Nat /\ runs \subseteq 0..now
           /\ next_ping_time \in Nat /\ ping_response_deadline \in Nat
           /\ asked \in Seq(0..now) /\ Len(asked) \in Nat
           /\ (deadAt # Never => deadAt \in Nat)
           /\ (arming # Never => arming \in 0..now)
           /\ Open \in {0, 1} /\ Sent \in {0, 1} /\ Open <= Sent
           /\ LastSend \in Int /\ LastCall \in Int
  <1>1. /\ Start \in Nat /\ Period \in Nat /\ Timeout \in Nat /\ Lag \in Nat
        /\ Timeout > 0 /\ Timeout <= Period /\ Never \notin Nat
    BY Times
  <1>2. /\ now \in Nat /\ calls \in Nat /\ stanzas \in Nat
        /\ pingTimers \subseteq Nat /\ runs \subseteq 0..now
        /\ asked \in Seq(0..now) /\ Len(asked) \in Nat
        /\ deadAt \in 0..now \cup {Never} /\ arming \in 0..now \cup {Never}
    BY TimesAssumption DEF TypeOK
  <1>3. next_ping_time \in Nat /\ ping_response_deadline \in Nat
    BY TimesAssumption DEF TypeOK, Reading
  <1>4. Open \in {0, 1} /\ Sent \in {0, 1} /\ Open <= Sent
    BY DEF Open, Sent
  <1>5. /\ Rounds(calls + Open - stanzas) \in Int /\ Rounds(calls + Sent - stanzas) \in Int
        /\ Delays(calls) \in Int /\ Delays(calls - 1) \in Int
    <2>1. /\ calls + Open - stanzas \in Int /\ calls + Sent - stanzas \in Int
          /\ calls \in Int /\ calls - 1 \in Int
      BY <1>2, <1>4
    <2> QED BY <2>1, Sums
  <1>6. LastSend \in Int /\ LastCall \in Int
    BY <1>2, <1>5 DEF LastSend, LastCall
  <1> QED BY <1>1, <1>2, <1>3, <1>4, <1>6

\* Nobody is more than Lag late, so what is to come soon comes soon.
LEMMA SoonComes ==
    ASSUME TypeOK, Running, Punctual, NEW due \in Nat, NEW last \in Int, Soon(due, last)
    PROVE  now <= last + 2 * Lag
  <1>1. /\ now \in Nat /\ Lag \in Nat /\ pingTimers \subseteq Nat /\ runs \subseteq 0..now
    BY Typed
  <1>2. CASE \E t \in pingTimers : Start + t >= due /\ t <= last
    <2>1. PICK t \in pingTimers : t <= last
      BY <1>2
    <2>2. now <= t + Lag /\ t \in Nat
      BY <1>1, <2>1 DEF Punctual
    <2> QED BY <1>1, <2>1, <2>2
  <1>3. CASE \E r \in runs : r <= last + Lag
    <2>1. PICK r \in runs : r <= last + Lag
      BY <1>3
    <2>2. now <= r + Lag /\ r \in Nat
      BY <1>1, <2>1 DEF Punctual
    <2> QED BY <1>1, <2>1, <2>2
  <1> QED BY <1>2, <1>3 DEF Soon

\* Whatever does not run the task leaves it to come.
LEMMA SoonStays ==
    ASSUME TypeOK, Running, Punctual, ~blocked => runs # {},
           NEW due \in Nat, NEW last \in Int, Soon(due, last),
           \/ PingTimer \/ KeepAliveTimer \/ HandleStanza \/ ServerDies \/ Tick
           \/ PingNow \/ UNCHANGED vars
    PROVE  \/ \E t \in pingTimers' : Start + t >= due /\ t <= last
           \/ ~blocked' /\ Start + now' >= due /\ \E r \in runs' : r <= last + Lag
  <1> USE DEF ping, keep, user
  <1>1. /\ now \in Nat /\ Start \in Nat /\ Lag \in Nat
        /\ pingTimers \subseteq Nat /\ runs \subseteq 0..now
    BY Typed
  <1>2. CASE PingTimer
    <2>1. /\ Wake /\ UNCHANGED now
          /\ \E t \in pingTimers : t <= now /\ pingTimers' = pingTimers \ {t}
      BY <1>2 DEF PingTimer
    <2>2. /\ blocked' = FALSE /\ runs' # {} /\ runs' \subseteq 0..now
          /\ ~blocked => runs' = runs
      BY <1>1, <2>1, Woken, WakeType DEF Wake
    <2>3. CASE ~blocked /\ Start + now >= due /\ \E r \in runs : r <= last + Lag
      BY <2>1, <2>2, <2>3
    <2>4. CASE \E t \in pingTimers : Start + t >= due /\ t <= last
      <3>1. PICK t \in pingTimers : Start + t >= due /\ t <= last
        BY <2>4
      <3>2. CASE t \in pingTimers'
        BY <3>1, <3>2
      <3>3. CASE t \notin pingTimers'
        <4>1. t <= now /\ now <= t + Lag /\ t \in Nat
          BY <1>1, <2>1, <3>1, <3>3 DEF Punctual
        <4>2. \A r \in runs' : r <= last + Lag
          BY <1>1, <2>2, <3>1, <4>1
        <4>3. Start + now' >= due
          BY <1>1, <2>1, <3>1, <4>1
        <4> QED BY <2>2, <4>2, <4>3
      <3> QED BY <3>2, <3>3
    <2> QED BY <2>3, <2>4 DEF Soon
  <1>3. CASE HandleStanza
    <2>1. /\ Wake /\ UNCHANGED now /\ UNCHANGED pingTimers
      BY <1>3 DEF HandleStanza
    <2>2. ~blocked => blocked' = FALSE /\ runs' = runs
      BY <2>1 DEF Wake
    <2> QED BY <2>1, <2>2 DEF Soon
  <1>4. CASE KeepAliveTimer
    <2>1. /\ UNCHANGED now /\ UNCHANGED pingTimers /\ UNCHANGED blocked
          /\ runs # {} => runs' = runs
      BY <1>4 DEF KeepAliveTimer, WakeTasks
    <2> QED BY <2>1 DEF Soon
  <1>5. CASE ServerDies \/ PingNow \/ UNCHANGED vars
    BY <1>5 DEF ServerDies, PingNow, vars, Soon
  <1>6. CASE Tick
    <2>1. /\ now' = now + 1 /\ UNCHANGED pingTimers /\ UNCHANGED blocked
          /\ UNCHANGED runs
      BY <1>6 DEF Tick
    <2>2. Start + now >= due => Start + now' >= due
      BY <1>1, <2>1
    <2> QED BY <2>1, <2>2 DEF Soon
  <1> QED BY <1>2, <1>3, <1>4, <1>5, <1>6

\* A run that sends a ping takes the answer of the one before it, if any.
LEMMA Sending ==
    ASSUME TypeOK, Running, Unwrapped, DeadlineFirst, ProcessStart, SendsPing
    PROVE  /\ stanzas' <= stanzas - Open /\ stanzas' \in Nat
           /\ next_ping_time' = Start + now + Period
           /\ ping_response_deadline' = Start + now + Timeout
           /\ pingTimers' = pingTimers \cup {now + Timeout, now + Period}
           /\ Open' = 1 /\ Sent' = 1
           /\ Len(asked') = Len(asked) + 1
           /\ Start + now >= next_ping_time
           /\ stanzas > 0 => stanzas' = stanzas - 1
           /\ stanzas = 0 => Open = 0 /\ stanzas' = 0
           /\ status' = status
  <1>1. /\ ~Expired /\ Due /\ SendStanza /\ SendPing(now) /\ status' = status
    BY DEF SendsPing
  <1>2. /\ now \in Nat /\ stanzas \in Nat /\ Start \in Nat /\ Timeout \in Nat
        /\ Timeout > 0 /\ next_ping_time \in Nat /\ ping_response_deadline \in Nat
        /\ Open \in {0, 1}
    BY Typed
  <1>3. now \in 0..now /\ Clock(now) = Start + now
    BY <1>2, Told
  <1>4. /\ next_ping_time' = Start + now + Period
        /\ ping_response_deadline' = Start + now + Timeout
        /\ pingTimers' = pingTimers \cup {now + Timeout, now + Period}
    BY <1>1, <1>3, Told DEF SendPing, Delay
  <1>5. Len(asked') = Len(asked) + 1 /\ pinging' = TRUE
    BY <1>1, Oldest DEF SendStanza
  <1>6. Open' = 1 /\ Sent' = 1
    <2>1. ping_response_deadline' # 0
      BY <1>2, <1>4
    <2> QED BY <1>5, <2>1 DEF Open, Sent
  <1>7. Start + now >= next_ping_time
    BY <1>1, <1>3 DEF Due
  <1>8. stanzas = 0 => ping_response_deadline = 0
    <2> SUFFICES ASSUME stanzas = 0, ping_response_deadline # 0 PROVE FALSE
      OBVIOUS
    <2>1. ping_response_deadline <= next_ping_time
      BY DEF DeadlineFirst
    <2>2. Start + now >= ping_response_deadline
      BY <1>2, <1>7, <2>1
    <2> QED BY <1>1, <1>3, <2>2 DEF Expired, DeadlineLeft
  <1>9. stanzas = 0 => Open = 0
    BY <1>8 DEF Open
  <1>10. stanzas' = IF stanzas > 0 THEN stanzas - 1 ELSE 0
    BY DEF ProcessStart
  <1>11. stanzas' <= stanzas - Open /\ stanzas' \in Nat
    BY <1>2, <1>9, <1>10
  <1> QED BY <1>1, <1>2, <1>4, <1>5, <1>6, <1>7, <1>9, <1>10, <1>11

\* A run that rests takes an answer too, and nothing is then open.
LEMMA Resting ==
    ASSUME TypeOK, ProcessStart, Rests
    PROVE  /\ UNCHANGED <<status, next_ping_time, pingTimers, asked>>
           /\ \/ /\ stanzas > 0 /\ stanzas' = stanzas - 1
                 /\ ping_response_deadline' = 0 /\ Open' = 0 /\ Sent' = 0
              \/ /\ stanzas = 0 /\ stanzas' = 0 /\ Open' = Open /\ Sent' = Sent
                 /\ ping_response_deadline' = ping_response_deadline
           /\ ~Due /\ (stanzas = 0 => ~Expired)
  <1>1. stanzas \in Nat /\ stanzas' = IF stanzas > 0 THEN stanzas - 1 ELSE 0
    BY Typed DEF ProcessStart
  <1>2. /\ ping_response_deadline' = DeadlineLeft /\ ~Expired /\ ~Due
        /\ pinging' = (pinging /\ stanzas = 0)
        /\ UNCHANGED <<status, next_ping_time, pingTimers, asked>>
    BY DEF Rests
  <1>3. CASE stanzas > 0
    <2>1. stanzas # 0
      BY <1>1, <1>3
    <2>2. ~pinging' /\ ping_response_deadline' = 0
      BY <1>2, <1>3, <2>1 DEF DeadlineLeft
    <2>3. Open' = 0 /\ Sent' = 0
      BY <2>2 DEF Open, Sent
    <2> QED BY <1>1, <1>2, <1>3, <2>1, <2>2, <2>3
  <1>4. CASE ~(stanzas > 0)
    <2>1. /\ stanzas = 0 /\ ping_response_deadline' = ping_response_deadline
      BY <1>1, <1>2, <1>4 DEF DeadlineLeft
    <2>2. pinging' = pinging
      BY <1>2, <2>1 DEF TypeOK
    <2>3. Open' = Open /\ Sent' = Sent
      BY <2>1, <2>2 DEF Open, Sent
    <2> QED BY <1>1, <1>2, <2>1, <2>3
  <1> QED BY <1>3, <1>4

\* What PingNow does when it arms the timeout.
LEMMA Arming ==
    ASSUME TypeOK, Unwrapped, PingNowArms
    PROVE  /\ next_ping_time' = Start + arming + Period
           /\ ping_response_deadline' = Start + arming + Timeout
           /\ pingTimers' = pingTimers \cup {now + Timeout, now + Period}
           /\ arming # Never /\ arming \in 0..now /\ arming' = Never
           /\ Open' = Sent /\ Open' >= Open /\ Open' \in {0, 1}
           /\ ping_response_deadline' # 0
  <1>1. /\ arming # Never /\ arming' = Never /\ SendPing(arming) /\ pinging' = pinging
    BY DEF PingNowArms
  <1>2. /\ arming \in 0..now /\ Start \in Nat /\ Timeout \in Nat /\ Timeout > 0
        /\ Open \in {0, 1} /\ Sent \in {0, 1} /\ Open <= Sent /\ now \in Nat
    BY <1>1, Typed
  <1>3. /\ next_ping_time' = Start + arming + Period
        /\ ping_response_deadline' = Start + arming + Timeout
        /\ pingTimers' = pingTimers \cup {now + Timeout, now + Period}
    BY <1>1, <1>2, Told DEF SendPing, Delay
  <1>4. ping_response_deadline' # 0
    BY <1>2, <1>3
  <1>5. Open' = Sent
    BY <1>1, <1>4 DEF Open, Sent
  <1> QED BY <1>1, <1>2, <1>3, <1>4, <1>5

LEMMA InitNoticed == Init => DInv
  <1> SUFFICES ASSUME Init PROVE DInv
    OBVIOUS
  <1>1. TypeOK /\ PingWakes /\ Armed
    BY InitType, InitWakes, InitExplained
  <1>2. /\ now = 0 /\ runs = {0} /\ pingTimers = {} /\ blocked = FALSE
        /\ ping_response_deadline = 0 /\ next_ping_time = 0 /\ arming = Never
        /\ asked = <<>> /\ stanzas = 0 /\ calls = 0 /\ deadAt = Never
    BY DEF Init
  <1>3. /\ Lag \in Nat /\ Start \in Nat /\ Period \in Nat
    BY Times
  <1>4. Punctual /\ DeadlineFirst
    BY <1>2, <1>3 DEF Punctual, DeadlineFirst
  <1>5. AnswersCounted
    <2>1. Open = 0 /\ Len(asked) = 0
      BY <1>2 DEF Open
    <2> QED BY <1>2, <2>1 DEF AnswersCounted
  <1>6. Noticed
    <2>1. LastSend = 0
      BY <1>2 DEF LastSend
    <2>2. Soon(next_ping_time, LastSend + Period)
      <3>1. 0 \in runs /\ 0 <= LastSend + Period + Lag /\ Start + now >= next_ping_time
        BY <1>2, <1>3, <2>1
      <3> QED BY <1>2, <3>1 DEF Soon
    <2> QED BY <1>2, <2>2 DEF Noticed, SendsSoon
  <1> QED BY <1>1, <1>4, <1>5, <1>6 DEF DInv

LEMMA PunctualNext ==
    ASSUME TypeOK, Punctual, [Next]_vars
    PROVE  Punctual'
  <1> SUFFICES ASSUME Running', NEW t \in pingTimers' \cup runs'
               PROVE  now' <= t + Lag
    BY DEF Punctual
  <1> USE DEF ping, keep, user
  <1>1. /\ now \in Nat /\ Lag \in Nat /\ Period \in Nat /\ Timeout \in Nat
        /\ pingTimers \subseteq Nat /\ runs \subseteq 0..now
    BY Typed
  <1>2. Running => \A d \in pingTimers \cup runs : now <= d + Lag
    BY DEF Punctual
  <1>3. CASE Running /\ now' = now
             /\ t \in pingTimers \cup runs \cup {now, now + Timeout, now + Period}
    BY <1>1, <1>2, <1>3
  <1>4. CASE RunTasks
    <2>1. Running /\ now' = now /\ runs' = {}
      BY <1>4 DEF RunTasks
    <2>2. pingTimers' \subseteq pingTimers \cup {now + Timeout, now + Period}
      BY <1>4 DEF RunTasks, ProcessStart, TimedOut, SendsPing, Rests, SendPing, Delay
    <2> QED BY <1>3, <2>1, <2>2
  <1>5. CASE PingTimer \/ HandleStanza \/ KeepAliveTimer
    <2>1. /\ Running /\ now' = now /\ pingTimers' \subseteq pingTimers
          /\ runs' = runs \/ runs' = {now}
      BY <1>5 DEF PingTimer, HandleStanza, KeepAliveTimer, Wake, WakeTasks
    <2> QED BY <1>3, <2>1
  <1>6. CASE PingNowSends \/ PingNowArms
    <2>1. /\ Running /\ now' = now /\ runs' = runs
          /\ pingTimers' \subseteq pingTimers \cup {now + Timeout, now + Period}
      BY <1>6 DEF PingNowSends, PingNowArms, SendPing, Delay
    <2> QED BY <1>3, <2>1
  <1>7. CASE Tick
    <2>1. /\ now' = now + 1 /\ UNCHANGED pingTimers /\ UNCHANGED runs
          /\ \A d \in pingTimers \cup keepTimers \cup runs : now < d + Lag
      BY <1>7 DEF Tick
    <2>2. t \in Nat /\ now < t + Lag
      BY <1>1, <2>1
    <2> QED BY <1>1, <2>1, <2>2
  <1>8. CASE ServerDies \/ PingNow \/ UNCHANGED vars
    <2>1. Running /\ now' = now /\ UNCHANGED pingTimers /\ UNCHANGED runs
      BY <1>8 DEF ServerDies, PingNow, vars, Running
    <2> QED BY <1>3, <2>1
  <1>9. CASE Abort \/ PingNowFreed
    BY <1>9 DEF Abort, PingNowFreed, Running
  <1> QED BY <1>4, <1>5, <1>6, <1>7, <1>8, <1>9 DEF Next

LEMMA DeadlineFirstNext ==
    ASSUME TypeOK, DeadlineFirst, [Next]_vars
    PROVE  DeadlineFirst'
  <1> SUFFICES ASSUME (Running /\ Unwrapped)', ping_response_deadline' # 0
               PROVE  ping_response_deadline' <= next_ping_time'
    BY DEF DeadlineFirst
  <1> USE DEF ping, keep, user
  <1>1. Running /\ Unwrapped
    BY Earlier
  <1>2. /\ now \in Nat /\ Start \in Nat /\ Period \in Nat /\ Timeout \in Nat
        /\ Timeout <= Period
    BY Typed
  <1>3. ping_response_deadline # 0 => ping_response_deadline <= next_ping_time
    BY <1>1 DEF DeadlineFirst
  <1>4. CASE UNCHANGED <<ping_response_deadline, next_ping_time>>
    BY <1>3, <1>4
  <1>5. CASE RunTasks
    <2>1. CASE blocked
      BY <1>4, <1>5, <2>1 DEF RunTasks
    <2>2. CASE ~blocked
      <3>1. ProcessStart
        BY <1>5, <2>2 DEF RunTasks
      <3>2. CASE TimedOut
        BY <3>2 DEF TimedOut, Running
      <3>3. CASE SendsPing
        BY <1>1, <1>2, <3>1, <3>3, Sending
      <3>4. CASE Rests
        BY <1>3, <3>1, <3>4, Resting
      <3> QED BY <3>1, <3>2, <3>3, <3>4 DEF ProcessStart
    <2> QED BY <2>1, <2>2
  <1>6. CASE PingNowArms
    BY <1>1, <1>2, <1>6, Arming
  <1>7. CASE \/ PingTimer \/ KeepAliveTimer \/ HandleStanza \/ Abort \/ PingNowSends
             \/ PingNowFreed \/ ServerDies \/ Tick \/ PingNow \/ UNCHANGED vars
    BY <1>4, <1>7 DEF PingTimer, KeepAliveTimer, HandleStanza, Abort, PingNowSends,
                      PingNowFreed, ServerDies, Tick, PingNow, vars
  <1> QED BY <1>5, <1>6, <1>7 DEF Next

LEMMA AnswersCountedNext ==
    ASSUME TypeOK, DeadlineFirst, AnswersCounted, [Next]_vars
    PROVE  AnswersCounted'
  <1> SUFFICES ASSUME (Running /\ Unwrapped)'
               PROVE  Len(asked') + stanzas' <= calls' + Open'
    BY DEF AnswersCounted
  <1> USE DEF ping, keep, user
  <1>1. Running /\ Unwrapped
    BY Earlier
  <1>2. /\ calls \in Nat /\ stanzas \in Nat /\ Len(asked) \in Nat /\ Open \in {0, 1}
        /\ asked \in Seq(0..now)
    BY Typed
  <1>3. Len(asked) + stanzas <= calls + Open
    BY <1>1 DEF AnswersCounted
  <1>4. CASE RunTasks
    <2>1. UNCHANGED calls
      BY <1>4 DEF RunTasks
    <2>2. CASE blocked
      BY <1>3, <1>4, <2>1, <2>2 DEF RunTasks, Open
    <2>3. CASE ~blocked
      <3>1. ProcessStart
        BY <1>4, <2>3 DEF RunTasks
      <3>2. CASE TimedOut
        BY <3>2 DEF TimedOut, Running
      <3>3. CASE SendsPing
        <4>1. /\ stanzas' <= stanzas - Open /\ stanzas' \in Nat
              /\ Open' = 1 /\ Len(asked') = Len(asked) + 1
          BY <1>1, <3>1, <3>3, Sending
        <4> QED BY <1>2, <1>3, <2>1, <4>1
      <3>4. CASE Rests
        <4>1. /\ UNCHANGED asked
              /\ \/ stanzas > 0 /\ stanzas' = stanzas - 1 /\ Open' = 0
                 \/ stanzas = 0 /\ stanzas' = 0 /\ Open' = Open
          BY <3>1, <3>4, Resting
        <4> QED BY <1>2, <1>3, <2>1, <4>1
      <3> QED BY <3>1, <3>2, <3>3, <3>4 DEF ProcessStart
    <2> QED BY <2>2, <2>3
  <1>5. CASE HandleStanza
    <2>1. /\ asked # <<>> /\ asked' = Tail(asked) /\ stanzas' = stanzas + 1
          /\ UNCHANGED calls /\ UNCHANGED ping_response_deadline /\ UNCHANGED pinging
      BY <1>5 DEF HandleStanza
    <2>2. Len(asked') = Len(asked) - 1
      BY <1>2, <2>1
    <2>3. Open' = Open
      BY <2>1 DEF Open
    <2> QED BY <1>2, <1>3, <2>1, <2>2, <2>3
  <1>6. CASE PingNowSends
    <2>1. /\ SendStanza /\ calls' = calls + 1 /\ UNCHANGED stanzas
          /\ pinging' = TRUE /\ UNCHANGED ping_response_deadline
      BY <1>6 DEF PingNowSends, SendStanza
    <2>2. Open' >= Open
      BY <2>1 DEF Open
    <2>3. Len(asked') = Len(asked) + 1
      BY <2>1, Oldest
    <2>4. Open' \in {0, 1}
      BY DEF Open
    <2> QED BY <1>2, <1>3, <2>1, <2>2, <2>3, <2>4
  <1>7. CASE PingNowArms
    <2>1. UNCHANGED calls /\ UNCHANGED stanzas /\ UNCHANGED asked
      BY <1>7 DEF PingNowArms
    <2>2. Open' >= Open /\ Open' \in {0, 1}
      BY <1>1, <1>7, Arming
    <2> QED BY <1>2, <1>3, <2>1, <2>2
  <1>8. CASE \/ PingTimer \/ KeepAliveTimer \/ Abort
             \/ PingNowFreed \/ ServerDies \/ Tick \/ PingNow \/ UNCHANGED vars
    <2>1. UNCHANGED <<calls, stanzas, asked, ping_response_deadline, pinging>>
      BY <1>8 DEF PingTimer, KeepAliveTimer, Abort,
                  PingNowFreed, ServerDies, Tick, PingNow, vars
    <2> QED BY <1>3, <2>1 DEF Open
  <1> QED BY <1>4, <1>5, <1>6, <1>7, <1>8 DEF Next

\* The next SendPing is a round after the last one.
LEMMA SendsInTime ==
    ASSUME TypeOK, Running, Unwrapped, Punctual, Noticed, arming = Never
    PROVE  /\ now <= LastSend + Round
           /\ ping_response_deadline # 0 => now <= LastSend + Timeout + 2 * Lag
  <1>1. /\ LastSend \in Int /\ Period \in Nat /\ Timeout \in Nat /\ Lag \in Nat
        /\ now \in Nat /\ next_ping_time \in Nat /\ ping_response_deadline \in Nat
    BY Typed
  <1>2. /\ Soon(next_ping_time, LastSend + Period)
        /\ ping_response_deadline # 0 => Soon(ping_response_deadline, LastSend + Timeout)
    BY DEF Noticed, SendsSoon
  <1>3. now <= LastSend + Period + 2 * Lag
    <2>1. LastSend + Period \in Int
      BY <1>1
    <2> QED BY <1>1, <1>2, <2>1, SoonComes
  <1>4. ping_response_deadline # 0 => now <= LastSend + Timeout + 2 * Lag
    <2>1. LastSend + Timeout \in Int
      BY <1>1
    <2> QED BY <1>1, <1>2, <2>1, SoonComes
  <1>5. now <= LastSend + Round
    BY <1>1, <1>3, Sums
  <1> QED BY <1>4, <1>5

LEMMA Shifted ==
    \A a, b \in Int, n \in Nat : a <= b => a + n \in Int /\ b + n \in Int /\ a + n <= b + n
  OBVIOUS

LEMMA Ordered == \A a, b, c \in Int : a <= b /\ b <= c => a <= c
  OBVIOUS

\* How many answers are to be taken after one was.
LEMMA Taken ==
    \A c, s, t \in Nat, o \in {0, 1} :
        /\ c + o - s \in Int /\ c + 1 - t \in Int
        /\ t <= s => c + o - s <= c + 1 - t
        /\ t <= s - o => (c + o - s) + 1 <= c + 1 - t
  OBVIOUS

LEMMA NextRound ==
    ASSUME NEW k \in Int, NEW l \in Int, k + 1 <= l
    PROVE  /\ Rounds(k) \in Int /\ Rounds(l) \in Int /\ Round \in Nat
           /\ Rounds(k) + Round <= Rounds(l)
  <1>1. k + 1 \in Int /\ Rounds(k + 1) = Rounds(k) + Round
    BY Sums
  <1>2. Rounds(k + 1) <= Rounds(l) /\ Rounds(k) \in Int /\ Rounds(l) \in Int
    BY <1>1, Sums
  <1> QED BY <1>1, <1>2, Sums

\* A ping sent now is not later than LastSend allows: then its wake-ups come soon.
LEMMA SentSoon ==
    ASSUME TypeOK, [Next]_vars, NEW t \in 0..now, now' = now,
           next_ping_time' = Start + t + Period,
           ping_response_deadline' = Start + t + Timeout,
           pingTimers' = pingTimers \cup {now + Timeout, now + Period},
           now <= LastSend'
    PROVE  SendsSoon'
  <1>1. /\ now \in Nat /\ t \in Nat /\ t <= now /\ Start \in Nat /\ Period \in Nat
        /\ Timeout \in Nat
    BY Typed
  <1>2. LastSend' \in Int
    <2>1. TypeOK'
      BY NextType
    <2>2. /\ now' \in Nat /\ calls' \in Nat /\ stanzas' \in Nat
          /\ deadAt' \in 0..now' \cup {Never}
      BY <2>1, TimesAssumption DEF TypeOK
    <2>3. Open' \in {0, 1}
      BY DEF Open
    <2>4. /\ calls' + Open' - stanzas' \in Int /\ calls' \in Int
      BY <2>2, <2>3
    <2>5. Rounds(calls' + Open' - stanzas') \in Int /\ Delays(calls') \in Int
      BY <2>4, Sums
    <2> QED BY <2>2, <2>5 DEF LastSend
  <1>3. now + Period \in pingTimers' /\ now + Timeout \in pingTimers'
    OBVIOUS
  <1>4. /\ Start + (now + Period) >= next_ping_time'
        /\ Start + (now + Timeout) >= ping_response_deadline'
    BY <1>1
  <1>5. now + Period <= LastSend' + Period /\ now + Timeout <= LastSend' + Timeout
    <2>1. now \in Int
      BY <1>1
    <2> QED BY <1>1, <1>2, <2>1, Shifted
  <1> QED BY <1>3, <1>4, <1>5 DEF SendsSoon, Soon

\* A step that does not run the task and leaves what LastSend counts alone.
LEMMA SoonLater ==
    ASSUME TypeOK, [Next]_vars, Running, Unwrapped, Punctual, PingWakes, Armed,
           AnswersCounted, Noticed, arming' = arming,
           \/ PingTimer \/ KeepAliveTimer \/ HandleStanza \/ ServerDies \/ Tick
           \/ PingNow \/ UNCHANGED vars
    PROVE  SendsSoon' /\ (arming' # Never => arming' <= LastCall')
  <1> USE DEF ping, keep, user
  <1>1. /\ now \in Nat /\ calls \in Nat /\ stanzas \in Nat /\ Lag \in Nat
        /\ Period \in Nat /\ Timeout \in Nat
        /\ next_ping_time \in Nat /\ ping_response_deadline \in Nat
        /\ Open \in {0, 1} /\ Sent \in {0, 1} /\ Open <= Sent
        /\ LastSend \in Int /\ LastCall \in Int /\ Len(asked) \in Nat
        /\ (arming # Never => arming \in 0..now)
    BY Typed
  <1>2. /\ UNCHANGED next_ping_time /\ UNCHANGED ping_response_deadline
        /\ UNCHANGED pinging /\ UNCHANGED calls
        /\ now' = now \/ now' = now + 1
    BY <1>1 DEF PingTimer, KeepAliveTimer, HandleStanza, ServerDies, Tick, PingNow, vars
  <1>3. Open' = Open /\ Sent' = Sent
    BY <1>2 DEF Open, Sent
  <1>4. /\ LastSend' \in Int /\ LastSend <= LastSend'
        /\ LastCall' \in Int /\ (arming # Never => arming <= LastCall')
    <2>1. CASE HandleStanza
      <3>1. deadAt = Never /\ UNCHANGED deadAt /\ UNCHANGED now
        BY <2>1 DEF HandleStanza
      <3> QED BY <1>1, <3>1 DEF LastSend, LastCall
    <2>2. CASE ServerDies
      <3>1. deadAt = Never /\ deadAt' = now /\ UNCHANGED stanzas
        BY <2>2 DEF ServerDies
      <3>2. now # Never
        BY <1>1, Times
      <3>3. /\ LastSend = now
            /\ LastSend' = now + Rounds(calls + Open - stanzas) + Delays(calls)
            /\ LastCall' = now + Rounds(calls + Sent - stanzas) + Delays(calls - 1)
        BY <1>2, <1>3, <3>1, <3>2 DEF LastSend, LastCall
      <3>4. /\ calls + Open - stanzas \in Nat /\ calls + Sent - stanzas \in Nat
        <4>1. Len(asked) + stanzas <= calls + Open
          BY DEF AnswersCounted
        <4> QED BY <1>1, <4>1
      <3>5. /\ Rounds(calls + Open - stanzas) \in Int /\ Rounds(calls + Open - stanzas) >= 0
            /\ Rounds(calls + Sent - stanzas) \in Int /\ Rounds(calls + Sent - stanzas) >= 0
            /\ Delays(calls) \in Int /\ Delays(calls) >= 0 /\ Delays(calls - 1) \in Int
        <4>1. calls \in Int /\ calls - 1 \in Int /\ calls + Open - stanzas \in Int
              /\ calls + Sent - stanzas \in Int
          BY <1>1
        <4>2. /\ Rounds(calls + Open - stanzas) \in Int
              /\ Rounds(calls + Open - stanzas) >= 0
          BY <3>4, <4>1, Sums
        <4>3. /\ Rounds(calls + Sent - stanzas) \in Int
              /\ Rounds(calls + Sent - stanzas) >= 0
          BY <3>4, <4>1, Sums
        <4>4. Delays(calls) \in Int /\ Delays(calls - 1) \in Int
          BY <4>1, Sums
        <4>5. Delays(calls) >= 0
          BY <1>1, Sums
        <4> QED BY <4>2, <4>3, <4>4, <4>5
      <3>6. arming # Never => Delays(calls - 1) >= 0
        <4> SUFFICES ASSUME arming # Never PROVE Delays(calls - 1) >= 0
          OBVIOUS
        <4>1. calls > 0
          BY DEF Armed
        <4>2. calls - 1 \in Nat
          BY <1>1, <4>1
        <4> QED BY <4>2, Sums
      <3> QED BY <1>1, <3>3, <3>5, <3>6
    <2>3. CASE UNCHANGED deadAt /\ UNCHANGED stanzas
      <3>1. CASE deadAt = Never
        BY <1>1, <1>2, <2>3, <3>1 DEF LastSend, LastCall
      <3>2. CASE deadAt # Never
        <4>1. LastSend' = LastSend /\ LastCall' = LastCall
          BY <1>2, <1>3, <2>3, <3>2 DEF LastSend, LastCall
        <4> QED BY <1>1, <4>1 DEF Noticed
      <3> QED BY <3>1, <3>2
    <2> QED BY <2>1, <2>2, <2>3 DEF PingTimer, KeepAliveTimer, Tick, PingNow, vars
  <1>5. SendsSoon'
    <2> SUFFICES ASSUME arming = Never
                 PROVE  /\ Soon(next_ping_time, LastSend + Period)'
                        /\ ping_response_deadline # 0 =>
                             Soon(ping_response_deadline, LastSend + Timeout)'
      BY <1>2 DEF SendsSoon
    <2>1. /\ Soon(next_ping_time, LastSend + Period)
          /\ ping_response_deadline # 0 => Soon(ping_response_deadline, LastSend + Timeout)
      BY DEF Noticed, SendsSoon
    <2>2. /\ LastSend + Period \in Int /\ LastSend + Timeout \in Int
          /\ ~blocked => runs # {}
      BY <1>1 DEF PingWakes
    <2>3. /\ runs' \subseteq Nat /\ pingTimers' \subseteq Nat
      <3>1. TypeOK'
        BY NextType
      <3> QED BY <3>1 DEF TypeOK
    <2>4. ASSUME NEW e \in Int, NEW f \in Int, NEW due \in Nat, e <= f, Soon(due, e)
          PROVE  \/ \E t \in pingTimers' : Start + t >= due /\ t <= f
                 \/ ~blocked' /\ Start + now' >= due /\ \E r \in runs' : r <= f + Lag
      <3>1. \/ \E t \in pingTimers' : Start + t >= due /\ t <= e
            \/ ~blocked' /\ Start + now' >= due /\ \E r \in runs' : r <= e + Lag
        BY <2>2, <2>4, SoonStays
      <3>2. \A t \in pingTimers' : t <= e => t <= f
        BY <2>3, <2>4
      <3>3. \A r \in runs' : r <= e + Lag => r <= f + Lag
        BY <1>1, <2>3, <2>4
      <3> QED BY <3>1, <3>2, <3>3
    <2>5. /\ LastSend' + Period \in Int /\ LastSend + Period <= LastSend' + Period
          /\ LastSend' + Timeout \in Int /\ LastSend + Timeout <= LastSend' + Timeout
      BY <1>1, <1>4, Shifted
    <2>6. Soon(next_ping_time, LastSend + Period)'
      BY <1>1, <1>2, <2>1, <2>2, <2>4, <2>5 DEF Soon
    <2>7. ASSUME ping_response_deadline # 0
          PROVE  Soon(ping_response_deadline, LastSend + Timeout)'
      BY <1>1, <1>2, <2>1, <2>2, <2>4, <2>5, <2>7 DEF Soon
    <2> QED BY <2>6, <2>7
  <1> QED BY <1>4, <1>5

LEMMA NoticedNext ==
    ASSUME DInv, [Next]_vars
    PROVE  Noticed'
  <1> SUFFICES ASSUME (Running /\ Unwrapped)'
               PROVE  SendsSoon' /\ (arming' # Never => arming' <= LastCall')
    BY DEF Noticed
  <1> USE DEF ping, keep, user
  <1>1. Running /\ Unwrapped
    BY Earlier DEF DInv
  <1>2. /\ TypeOK /\ PingWakes /\ Armed /\ Punctual /\ DeadlineFirst
        /\ AnswersCounted /\ Noticed
    BY DEF DInv
  <1>3. /\ now \in Nat /\ calls \in Nat /\ stanzas \in Nat /\ Lag \in Nat
        /\ Period \in Nat /\ Never \notin Nat /\ pingTimers \subseteq Nat
        /\ Open \in {0, 1} /\ Sent \in {0, 1} /\ Open <= Sent
        /\ LastSend \in Int /\ LastCall \in Int
        /\ (deadAt # Never => deadAt \in Nat)
        /\ (arming # Never => arming \in 0..now)
    BY <1>2, Typed
  <1>4. arming # Never => arming <= LastCall
    BY <1>1, <1>2 DEF Noticed
  <1>5. arming = Never => now <= LastSend + Round
    BY <1>1, <1>2, SendsInTime
  <1>6. /\ Round \in Nat
        /\ \A k, l \in Int : /\ Rounds(k) \in Int /\ Rounds(k + 1) = Rounds(k) + Round
                             /\ k <= l => Rounds(k) <= Rounds(l)
        /\ \A k \in Int : Delays(k) \in Int /\ Delays(k) = Delays(k - 1) + Lag
    BY Sums
  <1>7. CASE RunTasks
    <2>1. UNCHANGED <<now, calls, arming, deadAt>>
      BY <1>7 DEF RunTasks
    <2>2. CASE blocked
      <3>1. /\ UNCHANGED <<ping, LastSend, LastCall>> /\ blocked' = blocked
        <4>1. UNCHANGED ping
          BY <1>7, <2>2 DEF RunTasks
        <4> QED BY <2>1, <4>1 DEF LastSend, LastCall, Open, Sent
      <3>2. SendsSoon'
        BY <1>1, <1>2, <2>1, <2>2, <3>1 DEF Noticed, SendsSoon, Soon
      <3> QED BY <1>4, <2>1, <3>1, <3>2
    <2>3. CASE ~blocked
      <3>1. ProcessStart /\ blocked' = TRUE
        BY <1>7, <2>3 DEF RunTasks, ProcessStart
      <3>2. CASE TimedOut
        BY <3>2 DEF TimedOut, Running
      <3>3. CASE SendsPing
        <4>1. /\ stanzas' <= stanzas - Open /\ stanzas' \in Nat /\ stanzas' <= stanzas
              /\ next_ping_time' = Start + now + Period
              /\ ping_response_deadline' = Start + now + Timeout
              /\ pingTimers' = pingTimers \cup {now + Timeout, now + Period}
              /\ Open' = 1 /\ Sent' = 1
          BY <1>1, <1>2, <1>3, <3>1, <3>3, Sending
        <4>2. ASSUME arming = Never PROVE now <= LastSend'
          <5>1. CASE deadAt = Never
            BY <1>3, <2>1, <5>1 DEF LastSend
          <5>2. CASE deadAt # Never
            <6>1. /\ calls + Open - stanzas \in Int /\ calls + 1 - stanzas' \in Int
                  /\ (calls + Open - stanzas) + 1 <= calls + 1 - stanzas'
              BY <1>3, <4>1, Taken
            <6>2. /\ Rounds(calls + Open - stanzas) + Round <= Rounds(calls + 1 - stanzas')
                  /\ Rounds(calls + Open - stanzas) \in Int /\ Round \in Nat
                  /\ Rounds(calls + 1 - stanzas') \in Int
              BY <6>1, NextRound
            <6>3. /\ LastSend = deadAt + Rounds(calls + Open - stanzas) + Delays(calls)
                  /\ LastSend' = deadAt + Rounds(calls + 1 - stanzas') + Delays(calls)
              BY <2>1, <4>1, <5>2 DEF LastSend
            <6>4. Delays(calls) \in Int /\ deadAt \in Nat /\ now <= LastSend + Round
              BY <1>3, <1>5, <1>6, <4>2, <5>2
            <6> QED BY <1>3, <6>2, <6>3, <6>4
          <5> QED BY <5>1, <5>2
        <4>3. SendsSoon'
          <5>1. CASE arming = Never
            BY <1>2, <1>3, <2>1, <4>1, <4>2, <5>1, SentSoon
          <5>2. CASE arming # Never
            BY <2>1, <5>2 DEF SendsSoon
          <5> QED BY <5>1, <5>2
        <4>4. LastCall <= LastCall' /\ LastCall' \in Int
          <5>1. CASE deadAt = Never
            BY <1>3, <2>1, <5>1 DEF LastCall
          <5>2. CASE deadAt # Never
            <6>1. /\ calls + Sent - stanzas \in Int /\ calls + 1 - stanzas' \in Int
                  /\ calls + Sent - stanzas <= calls + 1 - stanzas'
              <7>1. /\ calls \in Nat /\ stanzas \in Nat /\ Sent \in {0, 1}
                    /\ stanzas' \in Nat /\ stanzas' <= stanzas
                BY <1>3, <4>1
              <7> QED BY <7>1, Taken
            <6>2. /\ LastCall = deadAt + Rounds(calls + Sent - stanzas) + Delays(calls - 1)
                  /\ LastCall' = deadAt + Rounds(calls + 1 - stanzas') + Delays(calls - 1)
              BY <2>1, <4>1, <5>2 DEF LastCall
            <6>3. /\ Rounds(calls + Sent - stanzas) \in Int /\ Delays(calls - 1) \in Int
                  /\ Rounds(calls + 1 - stanzas') \in Int
                  /\ Rounds(calls + Sent - stanzas) <= Rounds(calls + 1 - stanzas')
              <7>1. calls - 1 \in Int
                BY <1>3
              <7> QED BY <1>6, <6>1, <7>1
            <6> QED BY <1>3, <5>2, <6>2, <6>3
          <5> QED BY <5>1, <5>2
        <4> QED BY <1>3, <1>4, <2>1, <4>3, <4>4
      <3>4. CASE Rests
        <4>1. /\ UNCHANGED next_ping_time /\ UNCHANGED pingTimers
              /\ \/ /\ stanzas > 0 /\ stanzas' = stanzas - 1
                    /\ ping_response_deadline' = 0 /\ Open' = 0 /\ Sent' = 0
                 \/ /\ stanzas = 0 /\ stanzas' = 0 /\ Open' = Open /\ Sent' = Sent
                    /\ ping_response_deadline' = ping_response_deadline
              /\ ~Due /\ (stanzas = 0 => ~Expired)
          BY <1>2, <3>1, <3>4, Resting
        <4>2. /\ calls + Open - stanzas \in Int /\ calls + Sent - stanzas \in Int
              /\ calls + Open' - stanzas' \in Int /\ calls + Sent' - stanzas' \in Int
              /\ calls + Open - stanzas <= calls + Open' - stanzas'
              /\ calls + Sent - stanzas <= calls + Sent' - stanzas'
              /\ calls \in Int /\ calls - 1 \in Int
          BY <1>3, <4>1
        <4>3. /\ LastSend <= LastSend' /\ LastSend' \in Int
              /\ LastCall <= LastCall' /\ LastCall' \in Int
          <5>1. CASE deadAt = Never
            BY <1>3, <2>1, <5>1 DEF LastCall, LastSend
          <5>2. CASE deadAt # Never
            <6>1. /\ LastCall = deadAt + Rounds(calls + Sent - stanzas) + Delays(calls - 1)
                  /\ LastCall' = deadAt + Rounds(calls + Sent' - stanzas') + Delays(calls - 1)
                  /\ LastSend = deadAt + Rounds(calls + Open - stanzas) + Delays(calls)
                  /\ LastSend' = deadAt + Rounds(calls + Open' - stanzas') + Delays(calls)
              BY <2>1, <5>2 DEF LastCall, LastSend
            <6>2. /\ Rounds(calls + Sent - stanzas) \in Int
                  /\ Rounds(calls + Sent' - stanzas') \in Int
                  /\ Rounds(calls + Sent - stanzas) <= Rounds(calls + Sent' - stanzas')
              BY <1>6, <4>2
            <6>3. /\ Rounds(calls + Open - stanzas) \in Int
                  /\ Rounds(calls + Open' - stanzas') \in Int
                  /\ Rounds(calls + Open - stanzas) <= Rounds(calls + Open' - stanzas')
              BY <1>6, <4>2
            <6>4. Delays(calls) \in Int /\ Delays(calls - 1) \in Int
              BY <1>6, <4>2
            <6> QED BY <1>3, <5>2, <6>1, <6>2, <6>3, <6>4
          <5> QED BY <5>1, <5>2
        <4>4. SendsSoon'
          <5> SUFFICES ASSUME arming = Never
                       PROVE  /\ Soon(next_ping_time, LastSend + Period)'
                              /\ ping_response_deadline' # 0 =>
                                   Soon(ping_response_deadline, LastSend + Timeout)'
            BY <2>1 DEF SendsSoon
          <5>1. /\ Soon(next_ping_time, LastSend + Period)
                /\ ping_response_deadline # 0 => Soon(ping_response_deadline, LastSend + Timeout)
            BY <1>1, <1>2 DEF Noticed, SendsSoon
          <5>2. Clock(now) = Start + now
            BY <1>1, <1>2, Told
          <5>3. \E t \in pingTimers : Start + t >= next_ping_time /\ t <= LastSend + Period
            BY <4>1, <5>1, <5>2 DEF Due, Soon
          <5>4. /\ LastSend + Period \in Int /\ LastSend' + Period \in Int
                /\ LastSend + Period <= LastSend' + Period
                /\ LastSend + Timeout \in Int /\ LastSend' + Timeout \in Int
                /\ LastSend + Timeout <= LastSend' + Timeout
                /\ pingTimers \subseteq Int
            <6>1. Period \in Nat /\ Timeout \in Nat /\ pingTimers \subseteq Int
              BY <1>2, Typed
            <6> QED BY <1>3, <4>3, <6>1, Shifted
          <5>5. Soon(next_ping_time, LastSend + Period)'
            <6>1. PICK t \in pingTimers : Start + t >= next_ping_time /\ t <= LastSend + Period
              BY <5>3
            <6>2. t \in pingTimers' /\ next_ping_time' = next_ping_time
              BY <4>1, <6>1
            <6>3. t <= LastSend' + Period
              BY <5>4, <6>1, Ordered
            <6> QED BY <6>1, <6>2, <6>3 DEF Soon
          <5>6. ASSUME ping_response_deadline' # 0
                PROVE  Soon(ping_response_deadline, LastSend + Timeout)'
            <6>1. /\ stanzas = 0 /\ ping_response_deadline' = ping_response_deadline
              BY <4>1, <5>6
            <6>2. /\ Soon(ping_response_deadline, LastSend + Timeout) /\ ~Expired
              BY <4>1, <5>1, <5>6, <6>1
            <6>3. DeadlineLeft = ping_response_deadline
              BY <6>1 DEF DeadlineLeft
            <6>4. ~(Start + now >= ping_response_deadline)
              BY <5>2, <5>6, <6>1, <6>2, <6>3 DEF Expired
            <6>5. \E t \in pingTimers :
                    Start + t >= ping_response_deadline /\ t <= LastSend + Timeout
              BY <6>2, <6>4 DEF Soon
            <6>6. PICK t \in pingTimers :
                    Start + t >= ping_response_deadline /\ t <= LastSend + Timeout
              BY <6>5
            <6>7. t \in pingTimers'
              BY <4>1, <6>6
            <6>8. t <= LastSend' + Timeout
              BY <5>4, <6>6, Ordered
            <6> QED BY <6>1, <6>6, <6>7, <6>8 DEF Soon
          <5> QED BY <5>5, <5>6
        <4> QED BY <1>3, <1>4, <2>1, <4>3, <4>4
      <3> QED BY <3>1, <3>2, <3>3, <3>4 DEF ProcessStart
    <2> QED BY <2>2, <2>3
  <1>8. CASE PingNowSends
    <2>1. /\ arming = Never /\ calls' = calls + 1 /\ arming' = now
          /\ pinging' = TRUE /\ UNCHANGED <<now, stanzas, deadAt>>
      BY <1>2, <1>8 DEF PingNowSends, SendStanza, TypeOK
    <2>2. now # Never
      BY <1>3
    <2>3. now <= LastCall'
      <3>1. CASE deadAt = Never
        BY <1>3, <2>1, <3>1 DEF LastCall
      <3>2. CASE deadAt # Never
        <4>1. Sent' = 1 /\ calls' - 1 = calls
          BY <1>3, <2>1 DEF Sent
        <4>2. /\ LastCall' = deadAt + Rounds(calls + 1 + 1 - stanzas) + Delays(calls)
              /\ LastSend = deadAt + Rounds(calls + Open - stanzas) + Delays(calls)
          BY <2>1, <3>2, <4>1 DEF LastCall, LastSend
        <4>3. /\ calls + Open - stanzas \in Int /\ calls + 1 + 1 - stanzas \in Int
              /\ (calls + Open - stanzas) + 1 <= calls + 1 + 1 - stanzas /\ calls \in Int
          BY <1>3
        <4>4. /\ Rounds(calls + Open - stanzas) + Round <= Rounds(calls + 1 + 1 - stanzas)
              /\ Rounds(calls + Open - stanzas) \in Int
              /\ Rounds(calls + 1 + 1 - stanzas) \in Int
              /\ Round \in Nat
          BY <4>3, NextRound
        <4>5. Delays(calls) \in Int /\ deadAt \in Nat /\ now <= LastSend + Round
          BY <1>3, <1>5, <1>6, <2>1, <3>2, <4>3
        <4> QED BY <1>3, <4>2, <4>4, <4>5
      <3> QED BY <3>1, <3>2
    <2> QED BY <2>1, <2>2, <2>3 DEF SendsSoon
  <1>9. CASE PingNowArms
    <2>1. UNCHANGED <<now, calls, stanzas, deadAt>>
      BY <1>9 DEF PingNowArms
    <2>2. /\ next_ping_time' = Start + arming + Period
          /\ ping_response_deadline' = Start + arming + Timeout
          /\ pingTimers' = pingTimers \cup {now + Timeout, now + Period}
          /\ arming # Never /\ arming \in 0..now /\ arming' = Never /\ Open' = Sent
      BY <1>1, <1>2, <1>9, Arming
    <2>3. now <= LastSend'
      <3>1. CASE deadAt = Never
        BY <1>3, <2>1, <3>1 DEF LastSend
      <3>2. CASE deadAt # Never
        <4>1. now <= arming + Lag /\ arming <= LastCall
          BY <1>1, <1>2, <1>4, <2>2 DEF Armed
        <4>2. /\ LastSend' = deadAt + Rounds(calls + Sent - stanzas) + Delays(calls)
              /\ LastCall = deadAt + Rounds(calls + Sent - stanzas) + Delays(calls - 1)
          BY <2>1, <2>2, <3>2 DEF LastSend, LastCall
        <4>3. /\ calls + Sent - stanzas \in Int /\ calls \in Int /\ calls - 1 \in Int
          BY <1>3
        <4>4. Rounds(calls + Sent - stanzas) \in Int
          BY <1>6, <4>3
        <4>5. /\ Delays(calls) \in Int /\ Delays(calls - 1) \in Int
              /\ Delays(calls) = Delays(calls - 1) + Lag
          BY <1>6, <4>3
        <4> QED BY <1>3, <2>2, <3>2, <4>1, <4>2, <4>4, <4>5
      <3> QED BY <3>1, <3>2
    <2>4. SendsSoon'
      BY <1>2, <2>1, <2>2, <2>3, SentSoon
    <2> QED BY <2>2, <2>4
  <1>10. CASE \/ PingTimer \/ KeepAliveTimer \/ HandleStanza \/ ServerDies \/ Tick
              \/ PingNow \/ UNCHANGED vars
    <2>1. UNCHANGED arming
      BY <1>10 DEF PingTimer, KeepAliveTimer, HandleStanza, ServerDies, Tick, PingNow, vars
    <2> QED BY <1>1, <1>2, <1>10, <2>1, SoonLater
  <1>11. CASE Abort \/ PingNowFreed
    BY <1>11 DEF Abort, PingNowFreed, Running
  <1> QED BY <1>7, <1>8, <1>9, <1>10, <1>11 DEF Next

LEMMA Notices == Spec => []DInv
  <1>1. Init => DInv
    BY InitNoticed
  <1>2. DInv /\ [Next]_vars => DInv'
    <2> SUFFICES ASSUME DInv, [Next]_vars PROVE DInv'
      OBVIOUS
    <2>1. /\ TypeOK /\ PingWakes /\ Armed /\ Punctual /\ DeadlineFirst
          /\ AnswersCounted
      BY DEF DInv
    <2>2. TypeOK' /\ PingWakes' /\ Armed'
      BY <2>1, NextType, PingWakesNext, ArmedNext
    <2>3. Punctual' /\ DeadlineFirst' /\ AnswersCounted'
      BY <2>1, PunctualNext, DeadlineFirstNext, AnswersCountedNext
    <2>4. Noticed'
      BY NoticedNext
    <2> QED BY <2>2, <2>3, <2>4 DEF DInv
  <1> QED BY <1>1, <1>2, PTL DEF Spec

\* Whatever answers the task still has in its queue, it ends in time once the
\* server is gone.
THEOREM DeadServersAreNoticed == Spec => []DeadServerNoticed
  <1>1. DInv => DeadServerNoticed
    <2> SUFFICES ASSUME DInv, Running, Unwrapped, deadAt # Never
                 PROVE  now <= deadAt + Period + Timeout + 4 * Lag
                                + calls * (Period + 3 * Lag)
      BY DEF DeadServerNoticed
    <2>1. /\ TypeOK /\ Armed /\ Punctual /\ Noticed
      BY DEF DInv
    <2>2. /\ now \in Nat /\ calls \in Nat /\ stanzas \in Nat /\ Lag \in Nat
          /\ Period \in Nat /\ Timeout \in Nat /\ Timeout > 0 /\ deadAt \in Nat
          /\ Open \in {0, 1} /\ Sent \in {0, 1}
          /\ LastSend \in Int /\ LastCall \in Int
          /\ (arming # Never => arming \in 0..now)
      BY <2>1, Typed
    <2> DEFINE most == deadAt + Rounds(calls + 1) + Delays(calls)
    <2>3. /\ calls \in Int /\ calls - 1 \in Int /\ calls + 1 \in Int
          /\ calls + Open - stanzas \in Int /\ calls + Sent - stanzas \in Int
          /\ calls + Open - stanzas <= calls + 1 /\ calls + Sent - stanzas <= calls + 1
      BY <2>2
    <2>4. /\ Rounds(calls + 1) \in Int /\ Delays(calls) \in Int
          /\ Delays(calls - 1) \in Int /\ Delays(calls) = Delays(calls - 1) + Lag
          /\ Rounds(calls + Open - stanzas) \in Int /\ Rounds(calls + Sent - stanzas) \in Int
          /\ Rounds(calls + Open - stanzas) <= Rounds(calls + 1)
          /\ Rounds(calls + Sent - stanzas) <= Rounds(calls + 1)
      <3>1. /\ Rounds(calls + 1) \in Int /\ Rounds(calls + Open - stanzas) \in Int
            /\ Rounds(calls + Open - stanzas) <= Rounds(calls + 1)
        BY <2>3, Sums
      <3>2. /\ Rounds(calls + Sent - stanzas) \in Int
            /\ Rounds(calls + Sent - stanzas) <= Rounds(calls + 1)
        BY <2>3, Sums
      <3>3. /\ Delays(calls) \in Int /\ Delays(calls - 1) \in Int
            /\ Delays(calls) = Delays(calls - 1) + Lag
        BY <2>3, Sums
      <3> QED BY <3>1, <3>2, <3>3
    <2>5. /\ LastSend = deadAt + Rounds(calls + Open - stanzas) + Delays(calls)
          /\ LastCall = deadAt + Rounds(calls + Sent - stanzas) + Delays(calls - 1)
      BY DEF LastSend, LastCall
    <2>6. now <= most + Timeout + 2 * Lag
      <3>1. CASE arming # Never
        <4>1. now <= arming + Lag /\ arming <= LastCall /\ arming \in Nat
          BY <2>1, <2>2, <3>1 DEF Armed, Noticed
        <4> QED BY <2>2, <2>4, <2>5, <4>1
      <3>2. CASE arming = Never /\ ping_response_deadline # 0
        <4>1. now <= LastSend + Timeout + 2 * Lag
          BY <2>1, <3>2, SendsInTime
        <4> QED BY <2>2, <2>4, <2>5, <4>1
      <3>3. CASE arming = Never /\ ping_response_deadline = 0
        <4>1. Open = 0
          BY <3>3 DEF Open
        <4>2. now <= LastSend + Round
          BY <2>1, <3>3, SendsInTime
        <4>3. (calls + Open - stanzas) + 1 <= calls + 1
          BY <2>2, <4>1
        <4>4. Rounds(calls + Open - stanzas) + Round <= Rounds(calls + 1) /\ Round \in Nat
          BY <2>3, <4>3, NextRound
        <4> QED BY <2>2, <2>4, <2>5, <4>2, <4>4
      <3> QED BY <3>1, <3>2, <3>3
    <2>7. Rounds(calls + 1) + Delays(calls) = Period + 2 * Lag + calls * (Period + 3 * Lag)
      BY <2>2, Sums
    <2>8. calls * (Period + 3 * Lag) \in Nat
      BY <2>2
    <2> QED BY <2>2, <2>4, <2>6, <2>7, <2>8
  <1> QED BY <1>1, Notices, PTL

=============================================================================
