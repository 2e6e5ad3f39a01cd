--------------------------- MODULE ThreadWakeProofs ---------------------------
(***************************************************************************)
(* ThreadSend loses no wake-up, for every set of threads and every bound.  *)
(***************************************************************************)
EXTENDS ThreadSendProofs

(* What is invariant besides IInv of ThreadSendProofs: what the frames below  *)
(* the running one do, and what a thread that sleeps may still wait for.      *)

\* A frame below a handler of a send serves, a send that is not on top too.
Shape(st) ==
    \A i \in DOMAIN st :
        /\ st[i].kind = "handler" => st[i].at = "run"
        /\ i < Len(st) => /\ st[i].at \in {"run", "receive", "serving"}
                          /\ st[i].kind = "send" => st[i].at = "serving"
        /\ \A j \in DOMAIN st :
             j = i + 1 /\ st[j].kind = "handler" /\ st[j].id # 0 => st[i].at = "serving"

Shapes == \A t \in Thread : Shape(stack[t])

\* ReceiveSends may believe has_sends_.
Known == \A t \in Thread : sendlist[t] # <<>> => has_sends[t]

\* The sender of s is about to signal the thread that s is for.
Waking(s) == Running(sender[s], "send", "wake") /\ Top(sender[s]).id = s

\* Who is about to sleep, or sleeps, will be woken for what is on its list.
Listening ==
    \A t \in Thread :
        stack[t] # <<>> /\ Top(t).at \in {"queue", "wait"} /\ ~wakeup[t] =>
          \A s \in ToSet(sendlist[t]) : Waking(s)

\* A thread that is about to tell a sender is in ReceiveSends.
Tells == \A t \in Thread : telling[t] # 0 => stack[t] # <<>> /\ Top(t).at = "serving"

\* The sends whose senders were told.
told == [s \in SendId |-> ready[s] /\ ~BeingTold(s)]

\* A send that was told and does not look is still signalled, or a send above it
\* took the signal and will give it back.
Alert(st, rd, w) ==
    \A i \in DOMAIN st :
        st[i].kind = "send" /\ rd[st[i].id] /\ st[i].at \in {"receive", "serving", "wait"} =>
          w \/ \E j \in DOMAIN st : i < j /\ st[j].kind = "send" /\ st[j].waited

Alerts == \A t \in Thread : Alert(stack[t], told, wakeup[t])

\* A loop sleeps with nothing to dispatch.
Idle ==
    \A t \in Thread :
        stack[t] # <<>> /\ Top(t).kind = "loop" /\ Top(t).at = "wait" /\ ~wakeup[t] =>
          posted[t] = 0 /\ ~fStop[t]

\* Sends are numbered as they are made, so a send is younger than the handlers
\* below it.
Rising(st) ==
    \A i, j \in DOMAIN st :
        i < j /\ st[i].kind = "handler" /\ st[j].kind = "send" => st[i].id < st[j].id

Nested == \A t \in Thread : Rising(stack[t])

-----------------------------------------------------------------------------
(* Stacks *)

LEMMA StackIs ==
    ASSUME NEW st \in Seq(Frame), st # <<>>
    PROVE  /\ DOMAIN st = 1..Len(st) /\ Len(st) \in Nat \ {0} /\ Len(st) \in DOMAIN st
           /\ Last(st) = st[Len(st)]
           /\ \A i \in DOMAIN st : i \in Nat /\ st[i] \in Frame
  BY DEF Last

LEMMA GotoIs ==
    ASSUME NEW st \in Seq(Frame), st # <<>>, NEW at \in Ats
    PROVE  LET x == Goto(st, at) IN
           /\ x \in Seq(Frame) /\ x # <<>> /\ DOMAIN x = DOMAIN st /\ Len(x) = Len(st)
           /\ \A i \in DOMAIN st :
                /\ x[i].kind = st[i].kind /\ x[i].id = st[i].id /\ x[i].waited = st[i].waited
                /\ x[i].at = IF i = Len(st) THEN at ELSE st[i].at
           /\ Last(x) = x[Len(st)]
  <1> DEFINE x == Goto(st, at)
  <1>1. /\ DOMAIN st = 1..Len(st) /\ Len(st) \in Nat \ {0}
        /\ \A i \in DOMAIN st : st[i] \in Frame
    BY StackIs
  <1>2. /\ DOMAIN x = DOMAIN st /\ Len(x) = Len(st)
        /\ \A i \in DOMAIN st : i # Len(st) => x[i] = st[i]
        /\ x[Len(st)] = [st[Len(st)] EXCEPT !.at = at]
    BY <1>1 DEF Goto
  <1>3. \A i \in DOMAIN st :
          /\ x[i].kind = st[i].kind /\ x[i].id = st[i].id /\ x[i].waited = st[i].waited
          /\ x[i].at = IF i = Len(st) THEN at ELSE st[i].at
          /\ x[i] \in Frame
    BY <1>1, <1>2 DEF Frame, Ats
  <1>4. x \in Seq(Frame) /\ x # <<>>
    BY <1>1, <1>2, <1>3 DEF Goto
  <1>5. Last(x) = x[Len(st)]
    BY <1>2 DEF Last
  <1> QED BY <1>2, <1>3, <1>4, <1>5

LEMMA AppendIs ==
    ASSUME NEW st \in Seq(Frame), NEW f \in Frame
    PROVE  LET x == Append(st, f) IN
           /\ x \in Seq(Frame) /\ x # <<>> /\ Len(x) = Len(st) + 1 /\ Len(st) \in Nat
           /\ DOMAIN st = 1..Len(st) /\ DOMAIN x = 1..(Len(st) + 1)
           /\ \A i \in DOMAIN st : x[i] = st[i]
           /\ x[Len(st) + 1] = f
           /\ Last(x) = f
  BY DEF Last

LEMMA PopIs ==
    ASSUME NEW st \in Seq(Frame), st # <<>>
    PROVE  LET x == Pop(st) IN
           /\ x \in Seq(Frame) /\ Len(x) = Len(st) - 1
           /\ DOMAIN st = 1..Len(st) /\ DOMAIN x = 1..(Len(st) - 1) /\ Len(st) \in Nat \ {0}
           /\ \A i \in DOMAIN x : x[i] = st[i]
  <1>1. DOMAIN st = 1..Len(st) /\ Len(st) \in Nat \ {0}
    BY StackIs
  <1>2. Pop(st) \in Seq(Frame) /\ Len(Pop(st)) = Len(st) - 1
    BY <1>1 DEF Pop, Front
  <1>3. \A i \in 1..(Len(st) - 1) : Pop(st)[i] = st[i]
    BY <1>1 DEF Pop, Front
  <1> QED BY <1>1, <1>2, <1>3

LEMMA WaitedIs ==
    ASSUME NEW st \in Seq(Frame), st # <<>>
    PROVE  LET x == Waited(st, TRUE) IN
           /\ DOMAIN x = DOMAIN st /\ Len(x) = Len(st)
           /\ \A i \in DOMAIN st :
                /\ x[i].kind = st[i].kind /\ x[i].id = st[i].id /\ x[i].at = st[i].at
                /\ st[i].waited => x[i].waited
           /\ x[Len(st)].waited
           /\ Last(x) = x[Len(st)]
  <1>1. ASSUME NEW v \in BOOLEAN, v
        PROVE  LET x == Waited(st, v) IN
               /\ DOMAIN x = DOMAIN st /\ Len(x) = Len(st)
               /\ \A i \in DOMAIN st :
                    /\ x[i].kind = st[i].kind /\ x[i].id = st[i].id /\ x[i].at = st[i].at
                    /\ st[i].waited => x[i].waited
               /\ x[Len(st)].waited
               /\ Last(x) = x[Len(st)]
    <2> DEFINE x == Waited(st, v)
    <2>1. /\ DOMAIN st = 1..Len(st) /\ Len(st) \in Nat \ {0}
          /\ \A i \in DOMAIN st : st[i] \in Frame
      BY StackIs
    <2>2. /\ DOMAIN x = DOMAIN st /\ Len(x) = Len(st)
          /\ \A i \in DOMAIN st : i # Len(st) => x[i] = st[i]
          /\ x[Len(st)] = [st[Len(st)] EXCEPT !.waited = v]
      BY <2>1 DEF Waited
    <2>3. x[Len(st)].waited = v
      BY <2>1, <2>2 DEF Frame
    <2>4. \A i \in DOMAIN st :
            x[i].kind = st[i].kind /\ x[i].id = st[i].id /\ x[i].at = st[i].at
      BY <2>1, <2>2 DEF Frame
    <2>5. \A i \in DOMAIN st : st[i].waited => x[i].waited
      BY <1>1, <2>2, <2>3
    <2>6. Last(x) = x[Len(st)]
      BY <2>2 DEF Last
    <2> HIDE DEF x
    <2> QED BY <1>1, <2>2, <2>3, <2>4, <2>5, <2>6 DEF x
  <1> QED BY <1>1

-----------------------------------------------------------------------------
(* Shapes *)

LEMMA ShapeGoto ==
    ASSUME NEW st \in Seq(Frame), st # <<>>, Shape(st), NEW at \in Ats,
           Last(st).kind # "handler"
    PROVE  Shape(Goto(st, at))
  <1> DEFINE x == Goto(st, at)
  <1>1. /\ DOMAIN x = DOMAIN st /\ Len(x) = Len(st)
        /\ \A i \in DOMAIN st :
             /\ x[i].kind = st[i].kind /\ x[i].id = st[i].id
             /\ x[i].at = IF i = Len(st) THEN at ELSE st[i].at
    BY GotoIs
  <1> HIDE DEF x
  <1>2. DOMAIN st = 1..Len(st) /\ Len(st) \in Nat \ {0} /\ st[Len(st)].kind # "handler"
    BY StackIs
  <1>3. \A i, j \in DOMAIN st : j = i + 1 => i # Len(st)
    BY <1>2
  <1>4. Shape(x)
    BY <1>1, <1>2, <1>3 DEF Shape
  <1> QED BY <1>4 DEF x

LEMMA ShapeAppend ==
    ASSUME NEW st \in Seq(Frame), st # <<>>, Shape(st), NEW f \in Frame,
           f.kind = "handler" => f.at = "run",
           Last(st).at \in {"run", "receive", "serving"},
           Last(st).kind = "send" => Last(st).at = "serving",
           f.kind = "handler" /\ f.id # 0 => Last(st).at = "serving"
    PROVE  Shape(Append(st, f))
  <1> DEFINE x == Append(st, f)
             n == Len(st)
  <1>1. /\ DOMAIN st = 1..n /\ DOMAIN x = 1..(n + 1) /\ n \in Nat \ {0} /\ Len(x) = n + 1
        /\ \A i \in DOMAIN st : x[i] = st[i]
        /\ x[n + 1] = f /\ Last(st) = st[n]
    BY AppendIs, StackIs
  <1> HIDE DEF x, n
  <1>2. ASSUME NEW i \in 1..n
        PROVE  /\ x[i].kind = "handler" => x[i].at = "run"
               /\ i < Len(x) => /\ x[i].at \in {"run", "receive", "serving"}
                                /\ x[i].kind = "send" => x[i].at = "serving"
               /\ \A j \in DOMAIN x :
                    j = i + 1 /\ x[j].kind = "handler" /\ x[j].id # 0 => x[i].at = "serving"
    <2>1. CASE i = n
      BY <1>1, <2>1 DEF Shape
    <2>2. CASE i # n
      <3>1. i < n /\ i + 1 \in DOMAIN st /\ i \in DOMAIN st
        BY <1>1, <2>2
      <3> QED BY <1>1, <3>1 DEF Shape, n
    <2> QED BY <2>1, <2>2
  <1>3. \A j \in DOMAIN x : j # n + 2 /\ ~(n + 1 < Len(x))
    BY <1>1
  <1>4. Shape(x)
    BY <1>1, <1>2, <1>3 DEF Shape
  <1> QED BY <1>4 DEF x

LEMMA ShapePop ==
    ASSUME NEW st \in Seq(Frame), st # <<>>, Shape(st)
    PROVE  /\ Shape(Pop(st))
           /\ Pop(st) # <<>> =>
                /\ Last(Pop(st)).at \in {"run", "receive", "serving"}
                /\ Last(st).kind = "handler" /\ Last(st).id # 0 => Last(Pop(st)).at = "serving"
  <1> DEFINE x == Pop(st)
             n == Len(st)
  <1>1. /\ DOMAIN st = 1..n /\ DOMAIN x = 1..(n - 1) /\ n \in Nat \ {0} /\ Len(x) = n - 1
        /\ \A i \in DOMAIN x : x[i] = st[i]
        /\ Last(st) = st[n] /\ x \in Seq(Frame)
    BY PopIs, StackIs
  <1>2. x # <<>> => n - 1 \in DOMAIN x /\ Last(x) = st[n - 1] /\ n - 1 \in DOMAIN st
    BY <1>1 DEF Last
  <1> HIDE DEF x, n
  <1>3. \A i \in DOMAIN x : i \in DOMAIN st /\ i < n
    BY <1>1
  <1>4. Shape(x)
    BY <1>1, <1>3 DEF Shape, n
  <1>5. x # <<>> => /\ Last(x).at \in {"run", "receive", "serving"}
                    /\ Last(st).kind = "handler" /\ Last(st).id # 0 => Last(x).at = "serving"
    BY <1>1, <1>2, <1>3 DEF Shape, n
  <1> QED BY <1>4, <1>5 DEF x

LEMMA ShapeWaited ==
    ASSUME NEW st \in Seq(Frame), st # <<>>, Shape(st)
    PROVE  Shape(Waited(st, TRUE))
  <1> DEFINE x == Waited(st, TRUE)
  <1>1. /\ DOMAIN x = DOMAIN st /\ Len(x) = Len(st)
        /\ \A i \in DOMAIN st :
             x[i].kind = st[i].kind /\ x[i].id = st[i].id /\ x[i].at = st[i].at
    BY WaitedIs
  <1> HIDE DEF x
  <1>2. Shape(x)
    BY <1>1 DEF Shape
  <1> QED BY <1>2 DEF x

-----------------------------------------------------------------------------
(* Alerts *)

Asleep == {"receive", "serving", "wait"}

LEMMA AlertGoto ==
    ASSUME NEW st \in Seq(Frame), st # <<>>, NEW at \in Ats, NEW rd, NEW w \in BOOLEAN,
           Alert(st, rd, w),
           at \notin Asleep \/ Last(st).at \in Asleep \/ Last(st).kind # "send"
             \/ ~rd[Last(st).id]
    PROVE  Alert(Goto(st, at), rd, w)
  <1> DEFINE x == Goto(st, at)
  <1>1. /\ DOMAIN x = DOMAIN st
        /\ \A i \in DOMAIN st :
             /\ x[i].kind = st[i].kind /\ x[i].id = st[i].id /\ x[i].waited = st[i].waited
             /\ x[i].at = IF i = Len(st) THEN at ELSE st[i].at
        /\ Last(st) = st[Len(st)]
    BY GotoIs, StackIs
  <1> HIDE DEF x
  <1>2. ASSUME NEW i \in DOMAIN x, x[i].kind = "send", rd[x[i].id], x[i].at \in Asleep
        PROVE  w \/ \E j \in DOMAIN x : i < j /\ x[j].kind = "send" /\ x[j].waited
    <2>1. st[i].kind = "send" /\ rd[st[i].id] /\ st[i].at \in Asleep
      BY <1>1, <1>2
    <2>2. CASE w
      BY <2>2
    <2>3. CASE ~w
      <3>1. PICK j \in DOMAIN st : i < j /\ st[j].kind = "send" /\ st[j].waited
        BY <1>1, <2>1, <2>3 DEF Alert, Asleep
      <3> QED BY <1>1, <3>1
    <2> QED BY <2>2, <2>3
  <1>3. Alert(x, rd, w)
    BY <1>2 DEF Alert, Asleep
  <1> QED BY <1>3 DEF x

LEMMA AlertAppend ==
    ASSUME NEW st \in Seq(Frame), NEW f \in Frame, NEW rd, NEW w \in BOOLEAN,
           Alert(st, rd, w), f.kind # "send" \/ f.at \notin Asleep
    PROVE  Alert(Append(st, f), rd, w)
  <1> DEFINE x == Append(st, f)
             n == Len(st)
  <1>1. /\ DOMAIN st = 1..n /\ DOMAIN x = 1..(n + 1) /\ n \in Nat
        /\ \A i \in DOMAIN st : x[i] = st[i]
        /\ x[n + 1] = f
    BY AppendIs
  <1> HIDE DEF x, n
  <1>2. ASSUME NEW i \in DOMAIN x, x[i].kind = "send", rd[x[i].id], x[i].at \in Asleep
        PROVE  w \/ \E j \in DOMAIN x : i < j /\ x[j].kind = "send" /\ x[j].waited
    <2>1. i \in DOMAIN st /\ DOMAIN st \subseteq DOMAIN x
      BY <1>1, <1>2
    <2>2. CASE w
      BY <2>2
    <2>3. CASE ~w
      <3>1. PICK j \in DOMAIN st : i < j /\ st[j].kind = "send" /\ st[j].waited
        BY <1>1, <1>2, <2>1, <2>3 DEF Alert, Asleep
      <3> QED BY <1>1, <2>1, <3>1
    <2> QED BY <2>2, <2>3
  <1>3. Alert(x, rd, w)
    BY <1>2 DEF Alert, Asleep
  <1> QED BY <1>3 DEF x

\* Who returns gives back the signal that it took.
LEMMA AlertPop ==
    ASSUME NEW st \in Seq(Frame), st # <<>>, NEW rd, NEW w \in BOOLEAN, NEW v \in BOOLEAN,
           Alert(st, rd, w), w => v, Last(st).kind = "send" /\ Last(st).waited => v
    PROVE  Alert(Pop(st), rd, v)
  <1> DEFINE x == Pop(st)
             n == Len(st)
  <1>1. /\ DOMAIN st = 1..n /\ DOMAIN x = 1..(n - 1) /\ n \in Nat \ {0}
        /\ \A i \in DOMAIN x : x[i] = st[i]
        /\ Last(st) = st[n]
    BY PopIs, StackIs
  <1> HIDE DEF x, n
  <1>2. ASSUME NEW i \in DOMAIN x, x[i].kind = "send", rd[x[i].id], x[i].at \in Asleep
        PROVE  v \/ \E j \in DOMAIN x : i < j /\ x[j].kind = "send" /\ x[j].waited
    <2>1. i \in DOMAIN st
      BY <1>1, <1>2
    <2>2. CASE w
      BY <2>2
    <2>3. CASE ~w
      <3>1. PICK j \in DOMAIN st : i < j /\ st[j].kind = "send" /\ st[j].waited
        BY <1>1, <1>2, <2>1, <2>3 DEF Alert, Asleep
      <3>2. CASE j = n
        BY <1>1, <3>1, <3>2
      <3>3. CASE j # n
        <4>1. j \in DOMAIN x
          BY <1>1, <3>3
        <4> QED BY <1>1, <3>1, <4>1
      <3> QED BY <3>2, <3>3
    <2> QED BY <2>2, <2>3
  <1>3. Alert(x, rd, v)
    BY <1>2 DEF Alert, Asleep
  <1> QED BY <1>3 DEF x

\* Who takes the signal remembers that it did.
LEMMA AlertWaited ==
    ASSUME NEW st \in Seq(Frame), st # <<>>, NEW rd, NEW w,
           Last(st).kind = "send", Last(st).at \notin Asleep
    PROVE  Alert(Waited(st, TRUE), rd, w)
  <1> DEFINE x == Waited(st, TRUE)
             n == Len(st)
  <1>1. /\ DOMAIN x = 1..n /\ n \in Nat \ {0} /\ Last(st) = st[n]
        /\ x[n].kind = st[n].kind /\ x[n].at = st[n].at
        /\ x[n].waited
    BY WaitedIs, StackIs
  <1> HIDE DEF x, n
  <1>2. ASSUME NEW i \in DOMAIN x, x[i].kind = "send", rd[x[i].id], x[i].at \in Asleep
        PROVE  \E j \in DOMAIN x : i < j /\ x[j].kind = "send" /\ x[j].waited
    <2>1. i < n /\ n \in DOMAIN x
      BY <1>1, <1>2
    <2> QED BY <1>1, <2>1
  <1>3. Alert(x, rd, w)
    BY <1>2 DEF Alert, Asleep
  <1> QED BY <1>3 DEF x

-----------------------------------------------------------------------------
(* Nesting *)

LEMMA RisingSame ==
    ASSUME NEW st \in Seq(Frame), NEW x, DOMAIN x = DOMAIN st, Rising(st),
           \A i \in DOMAIN st : x[i].kind = st[i].kind /\ x[i].id = st[i].id
    PROVE  Rising(x)
  BY DEF Rising

LEMMA RisingGoto ==
    ASSUME NEW st \in Seq(Frame), st # <<>>, NEW at \in Ats, Rising(st)
    PROVE  Rising(Goto(st, at))
  <1> DEFINE x == Goto(st, at)
  <1>1. DOMAIN x = DOMAIN st /\ \A i \in DOMAIN st : x[i].kind = st[i].kind /\ x[i].id = st[i].id
    BY GotoIs
  <1> HIDE DEF x
  <1>2. Rising(x)
    BY <1>1, RisingSame
  <1> QED BY <1>2 DEF x

LEMMA RisingWaited ==
    ASSUME NEW st \in Seq(Frame), st # <<>>, Rising(st)
    PROVE  Rising(Waited(st, TRUE))
  <1> DEFINE x == Waited(st, TRUE)
  <1>1. DOMAIN x = DOMAIN st /\ \A i \in DOMAIN st : x[i].kind = st[i].kind /\ x[i].id = st[i].id
    BY WaitedIs
  <1> HIDE DEF x
  <1>2. Rising(x)
    BY <1>1, RisingSame
  <1> QED BY <1>2 DEF x

LEMMA RisingPop ==
    ASSUME NEW st \in Seq(Frame), st # <<>>, Rising(st)
    PROVE  Rising(Pop(st))
  <1> DEFINE x == Pop(st)
  <1>1. /\ DOMAIN x \subseteq DOMAIN st
        /\ \A i \in DOMAIN x : x[i] = st[i]
    BY PopIs
  <1> HIDE DEF x
  <1>2. Rising(x)
    BY <1>1 DEF Rising
  <1> QED BY <1>2 DEF x

\* The new frame is no send, or a send with a number of its own.
LEMMA RisingAppend ==
    ASSUME NEW st \in Seq(Frame), NEW f \in Frame, Rising(st),
           f.kind = "send" => \A i \in DOMAIN st : st[i].kind = "handler" => st[i].id < f.id
    PROVE  Rising(Append(st, f))
  <1> DEFINE x == Append(st, f)
             n == Len(st)
  <1>1. /\ DOMAIN st = 1..n /\ DOMAIN x = 1..(n + 1) /\ n \in Nat
        /\ \A i \in DOMAIN st : x[i] = st[i]
        /\ x[n + 1] = f
    BY AppendIs
  <1> HIDE DEF x, n
  <1>2. ASSUME NEW i \in DOMAIN x, NEW j \in DOMAIN x, i < j, x[i].kind = "handler",
               x[j].kind = "send"
        PROVE  x[i].id < x[j].id
    <2>1. i \in DOMAIN st
      BY <1>1, <1>2
    <2>2. CASE j = n + 1
      BY <1>1, <1>2, <2>1, <2>2
    <2>3. CASE j # n + 1
      <3>1. j \in DOMAIN st
        BY <1>1, <2>3
      <3> QED BY <1>1, <1>2, <2>1, <3>1 DEF Rising
    <2> QED BY <2>2, <2>3
  <1>3. Rising(x)
    BY <1>2 DEF Rising
  <1> QED BY <1>3 DEF x

-----------------------------------------------------------------------------
(* The steps *)

WInv == Shapes /\ Tells /\ Known /\ Listening /\ Alerts /\ Idle /\ Nested

\* What t's stack st, whose top frame looked for sends, becomes.
ServedAs(t, st, x) ==
    /\ stack' = [stack EXCEPT ![t] = x]
    /\ x \in Seq(Frame) /\ x # <<>> /\ Shape(x)
    /\ Last(x).at \in {"queue", "wait"} => sendlist[t] = <<>>
    /\ Last(x).kind = "loop" => Last(x).at # "wait"
    /\ \A rd : \A w \in BOOLEAN : Alert(st, rd, w) => Alert(x, rd, w)
    /\ Rising(st) => Rising(x)

\* No list grows, and has_sends_ is right.
ListsShrink ==
    \A u \in Thread : /\ ToSet(sendlist'[u]) \subseteq ToSet(sendlist[u])
                      /\ sendlist'[u] # <<>> => has_sends'[u]

LEMMA AfterReceiveIs ==
    ASSUME NEW t \in Thread, NEW st \in Seq(Frame), st # <<>>, Shape(st),
           Last(st).kind # "handler", Last(st).at \in Asleep, sendlist[t] = <<>>,
           stack' = [stack EXCEPT ![t] = AfterReceive(st)]
    PROVE  ServedAs(t, st, AfterReceive(st))
  <1>1. PICK at \in {"queue", "wait"} :
          /\ AfterReceive(st) = Goto(st, at)
          /\ Last(st).kind = "loop" => at = "queue"
    BY DEF AfterReceive
  <1>2. at \in Ats
    BY DEF Ats
  <1> DEFINE x == Goto(st, at)
  <1>3. /\ x \in Seq(Frame) /\ x # <<>>
        /\ Last(x).kind = Last(st).kind /\ Last(x).at = at
    BY <1>2, GotoIs, StackIs
  <1>4. Shape(x)
    BY <1>2, ShapeGoto
  <1>5. /\ \A rd : \A w \in BOOLEAN : Alert(st, rd, w) => Alert(x, rd, w)
        /\ Rising(st) => Rising(x)
    BY <1>2, AlertGoto, RisingGoto
  <1> HIDE DEF x
  <1>6. Last(x).kind = "loop" => Last(x).at # "wait"
    BY <1>1, <1>3
  <1>7. AfterReceive(st) = x
    BY <1>1 DEF x
  <1>8. ServedAs(t, st, x)
    BY <1>3, <1>4, <1>5, <1>6, <1>7 DEF ServedAs
  <1> QED BY <1>7, <1>8

LEMMA ServeIs ==
    ASSUME IInv, Known, NEW t \in Thread, NEW st \in Seq(Frame), st # <<>>, Shape(st),
           Last(st).kind # "handler", Last(st).at \in Asleep, Serve(t, st)
    PROVE  ListsShrink /\ \E x : ServedAs(t, st, x)
  <1>1. /\ sendlist \in [Thread -> Seq(SendId)] /\ NoTwice(sendlist[t])
        /\ sendlist[t] \in Seq(SendId)
    BY DEF IInv, CoreType, Listed
  <1>2. CASE sendlist[t] = <<>>
    <2>1. stack' = [stack EXCEPT ![t] = AfterReceive(st)] /\ sendlist' = sendlist
      BY <1>2 DEF Serve
    <2>2. ListsShrink
      <3>1. has_sends' = [has_sends EXCEPT ![t] = FALSE]
        BY <1>2 DEF Serve
      <3>2. \A u \in Thread : u # t => has_sends'[u] = has_sends[u]
        BY <3>1
      <3> QED BY <1>2, <2>1, <3>2 DEF ListsShrink, Known
    <2> QED BY <1>2, <2>1, <2>2, AfterReceiveIs
  <1>3. CASE sendlist[t] # <<>>
    <2> DEFINE s == Head(sendlist[t])
               g == Goto(st, "serving")
               x == Append(g, Handler(s))
    <2>1. s \in SendId /\ ToSet(Tail(sendlist[t])) \subseteq ToSet(sendlist[t])
      BY <1>1, <1>3, TailList
    <2>2. stack' = [stack EXCEPT ![t] = x] /\ sendlist' = [sendlist EXCEPT ![t] = Tail(sendlist[t])]
      BY <1>3 DEF Serve
    <2>3. ListsShrink
      <3>1. has_sends' = has_sends
        BY <1>3 DEF Serve
      <3>2. \A u \in Thread : sendlist'[u] = IF u = t THEN Tail(sendlist[t]) ELSE sendlist[u]
        BY <1>1, <2>2
      <3> QED BY <1>3, <2>1, <3>1, <3>2 DEF ListsShrink, Known
    <2>4. Handler(s) \in Frame /\ Handler(s).kind = "handler" /\ Handler(s).at = "run"
      BY <2>1, HandlerFrame DEF Handler, FrameOf
    <2>5. g \in Seq(Frame) /\ g # <<>> /\ Last(g).at = "serving" /\ Shape(g)
      BY GotoIs, StackIs, ShapeGoto DEF Ats
    <2>6. /\ \A rd : \A w \in BOOLEAN : Alert(st, rd, w) => Alert(g, rd, w)
          /\ Rising(st) => Rising(g)
      BY AlertGoto, RisingGoto DEF Ats
    <2> HIDE DEF g, s
    <2>7. x \in Seq(Frame) /\ x # <<>> /\ Last(x) = Handler(s)
      BY <2>4, <2>5, AppendIs
    <2>8. Shape(x)
      BY <2>4, <2>5, ShapeAppend
    <2>9. /\ \A rd : \A w \in BOOLEAN : Alert(st, rd, w) => Alert(x, rd, w)
          /\ Rising(st) => Rising(x)
      BY <2>4, <2>5, <2>6, AlertAppend, RisingAppend
    <2> HIDE DEF x
    <2>10. ServedAs(t, st, x)
      BY <2>2, <2>4, <2>7, <2>8, <2>9 DEF ServedAs
    <2> QED BY <2>3, <2>10
  <1> QED BY <1>2, <1>3

LEMMA ReceiveSendsIs ==
    ASSUME IInv, Shapes, Known, NEW t \in Thread, ReceiveSends(t)
    PROVE  ListsShrink /\ \E x : ServedAs(t, stack[t], x)
  <1> DEFINE st == stack[t]
  <1>1. st \in Seq(Frame) /\ st # <<>> /\ Shape(st) /\ Last(st).at = "receive"
    BY OneStack DEF ReceiveSends, Top, Shapes
  <1>2. Last(st).kind # "handler" /\ Last(st).at \in Asleep
    BY <1>1, StackIs DEF Shape, Asleep
  <1>3. CASE has_sends[t]
    <2>1. Serve(t, st)
      BY <1>3 DEF ReceiveSends
    <2> HIDE DEF st
    <2>2. ListsShrink /\ \E x : ServedAs(t, st, x)
      BY <1>1, <1>2, <2>1, ServeIs
    <2> QED BY <2>2 DEF st
  <1>4. CASE ~has_sends[t]
    <2>1. stack' = [stack EXCEPT ![t] = AfterReceive(st)] /\ sendlist' = sendlist
      BY <1>4 DEF ReceiveSends
    <2>2. has_sends' = has_sends /\ sendlist[t] = <<>>
      BY <1>4 DEF ReceiveSends, Known
    <2>3. ListsShrink
      BY <2>1, <2>2 DEF ListsShrink, Known
    <2>4. ServedAs(t, st, AfterReceive(st))
      BY <1>1, <1>2, <2>1, <2>2, AfterReceiveIs
    <2> QED BY <2>3, <2>4
  <1> QED BY <1>3, <1>4

LEMMA TellSenderIs ==
    ASSUME IInv, Shapes, Known, NEW t \in Thread, TellSender(t)
    PROVE  ListsShrink /\ \E x : ServedAs(t, stack[t], x)
  <1> DEFINE st == stack[t]
  <1>1. st \in Seq(Frame) /\ st # <<>> /\ Shape(st) /\ Last(st).at = "serving"
    BY OneStack DEF TellSender, Top, Shapes
  <1>2. Last(st).kind # "handler" /\ Last(st).at \in Asleep
    BY <1>1, StackIs DEF Shape, Asleep
  <1>3. Serve(t, st)
    BY DEF TellSender
  <1> HIDE DEF st
  <1>4. ListsShrink /\ \E x : ServedAs(t, st, x)
    BY <1>1, <1>2, <1>3, ServeIs
  <1> QED BY <1>4 DEF st

-----------------------------------------------------------------------------
(* What one thread's step leaves alone *)

LEMMA StackSet ==
    ASSUME IInv, NEW t \in Thread, NEW x, stack' = [stack EXCEPT ![t] = x]
    PROVE  \A u \in Thread : stack'[u] = IF u = t THEN x ELSE stack[u]
  BY DEF IInv, CoreType

LEMMA ShapesSet ==
    ASSUME IInv, Shapes, NEW t \in Thread, NEW x, stack' = [stack EXCEPT ![t] = x], Shape(x)
    PROVE  Shapes'
  <1>1. \A u \in Thread : stack'[u] = IF u = t THEN x ELSE stack[u]
    BY StackSet
  <1> QED BY <1>1 DEF Shapes

\* Signals are given, and whoever is answered is signalled.
Signalled == \A s \in SendId : told'[s] => told[s] \/ wakeup'[sender[s]]

LEMMA AlertTold ==
    ASSUME IInv, NEW t \in Thread, Alert(stack[t], told, wakeup[t]),
           wakeup[t] => wakeup'[t], Signalled
    PROVE  Alert(stack[t], told', wakeup'[t])
  <1> SUFFICES ASSUME NEW i \in DOMAIN stack[t], stack[t][i].kind = "send",
                      told'[stack[t][i].id], stack[t][i].at \in Asleep, ~wakeup'[t]
               PROVE  \E j \in DOMAIN stack[t] :
                        i < j /\ stack[t][j].kind = "send" /\ stack[t][j].waited
    BY DEF Alert, Asleep
  <1>1. stack[t][i].id \in PushedIn(stack[t]) \cup UnpushedIn(stack[t])
    BY DEF PushedIn, UnpushedIn
  <1>2. stack[t][i].id \in SendId /\ sender[stack[t][i].id] = t
    BY <1>1, OneStack
  <1>3. told[stack[t][i].id] /\ ~wakeup[t]
    BY <1>2 DEF Signalled
  <1> QED BY <1>3 DEF Alert, Asleep

LEMMA AlertsSet ==
    ASSUME IInv, Alerts, NEW t \in Thread, NEW x, stack' = [stack EXCEPT ![t] = x],
           Alert(x, told', wakeup'[t]), Signalled,
           \A u \in Thread : u # t /\ wakeup[u] => wakeup'[u]
    PROVE  Alerts'
  <1>1. \A u \in Thread : stack'[u] = IF u = t THEN x ELSE stack[u]
    BY StackSet
  <1>2. ASSUME NEW u \in Thread PROVE Alert(stack'[u], told', wakeup'[u])
    <2>1. CASE u = t
      BY <1>1, <2>1
    <2>2. CASE u # t
      <3>1. Alert(stack[u], told, wakeup[u]) /\ (wakeup[u] => wakeup'[u])
        BY <2>2 DEF Alerts
      <3>2. Alert(stack[u], told', wakeup'[u])
        BY <3>1, AlertTold
      <3> QED BY <1>1, <2>2, <3>2
    <2> QED BY <2>1, <2>2
  <1> QED BY <1>2 DEF Alerts

LEMMA AlertsStill ==
    ASSUME IInv, Alerts, stack' = stack, Signalled, \A u \in Thread : wakeup[u] => wakeup'[u]
    PROVE  Alerts'
  <1>1. ASSUME NEW u \in Thread PROVE Alert(stack'[u], told', wakeup'[u])
    <2>1. Alert(stack[u], told, wakeup[u]) /\ (wakeup[u] => wakeup'[u])
      BY DEF Alerts
    <2>2. Alert(stack[u], told', wakeup'[u])
      BY <2>1, AlertTold
    <2> QED BY <2>2
  <1> QED BY <1>1 DEF Alerts

LEMMA IdleSet ==
    ASSUME IInv, Idle, NEW t \in Thread, NEW x, stack' = [stack EXCEPT ![t] = x],
           x # <<>> /\ Last(x).kind = "loop" /\ Last(x).at = "wait" /\ ~wakeup'[t] =>
             posted'[t] = 0 /\ ~fStop'[t],
           \A u \in Thread : u # t => /\ wakeup[u] => wakeup'[u]
                                      /\ posted'[u] = posted[u] /\ fStop'[u] = fStop[u]
    PROVE  Idle'
  <1>1. \A u \in Thread : stack'[u] = IF u = t THEN x ELSE stack[u]
    BY DEF IInv, CoreType
  <1>2. ASSUME NEW u \in Thread, stack'[u] # <<>>, Last(stack'[u]).kind = "loop",
               Last(stack'[u]).at = "wait", ~wakeup'[u]
        PROVE  posted'[u] = 0 /\ ~fStop'[u]
    <2>1. CASE u = t
      BY <1>1, <1>2, <2>1
    <2>2. CASE u # t
      BY <1>1, <1>2, <2>2 DEF Idle, Top
    <2> QED BY <2>1, <2>2
  <1> QED BY <1>2 DEF Idle, Top

\* A sender goes on being about to signal while others step.
LEMMA WakingKeeps ==
    ASSUME IInv, NEW t \in Thread, NEW x, stack' = [stack EXCEPT ![t] = x],
           NEW s \in 1..sends, sender'[s] = sender[s], Waking(s),
           sender[s] # t \/ ~Running(t, "send", "wake")
    PROVE  Waking(s)'
  <1>1. sender[s] \in Thread /\ sender[s] # t
    BY BoundsAssumption DEF IInv, CoreType, SendId, Waking
  <1>2. stack'[sender[s]] = stack[sender[s]]
    BY <1>1, StackSet
  <1> QED BY <1>2 DEF Waking, Running, Top

LEMMA ListeningSet ==
    ASSUME IInv, Listening, NEW t \in Thread, NEW x, stack' = [stack EXCEPT ![t] = x],
           x # <<>> /\ Last(x).at \in {"queue", "wait"} /\ ~wakeup'[t] =>
             \A s \in ToSet(sendlist'[t]) : Waking(s)',
           \A u \in Thread : u # t => (wakeup[u] => wakeup'[u]),
           \A u \in Thread : u # t /\ ~wakeup'[u] =>
             \A s \in ToSet(sendlist'[u]) :
                Waking(s)' \/ (s \in ToSet(sendlist[u]) /\ (Waking(s) => Waking(s)'))
    PROVE  Listening'
  <1>1. \A u \in Thread : stack'[u] = IF u = t THEN x ELSE stack[u]
    BY StackSet
  <1>2. ASSUME NEW u \in Thread, stack'[u] # <<>>, Last(stack'[u]).at \in {"queue", "wait"},
               ~wakeup'[u], NEW s \in ToSet(sendlist'[u])
        PROVE  Waking(s)'
    <2>1. CASE u = t
      BY <1>1, <1>2, <2>1
    <2>2. CASE u # t
      <3>1. \A r \in ToSet(sendlist[u]) : Waking(r)
        BY <1>1, <1>2, <2>2 DEF Listening, Top
      <3>2. Waking(s)' \/ (s \in ToSet(sendlist[u]) /\ (Waking(s) => Waking(s)'))
        BY <1>2, <2>2
      <3> QED BY <3>1, <3>2
    <2> QED BY <2>1, <2>2
  <1> QED BY <1>2 DEF Listening, Top

LEMMA ListedAre ==
    ASSUME IInv, NEW u \in Thread, NEW s \in ToSet(sendlist[u])
    PROVE  s \in 1..sends /\ s \in SendId /\ target[s] = u
  <1>1. s \in 1..sends /\ target[s] = u
    BY DEF IInv, Owned
  <1>2. 1..sends \subseteq SendId
    BY BoundsAssumption DEF IInv, CoreType, SendId
  <1> QED BY <1>1, <1>2

\* A step of t that adds to no list, while t is not about to signal.
LEMMA ListeningQuiet ==
    ASSUME IInv, Listening, NEW t \in Thread, NEW x, stack' = [stack EXCEPT ![t] = x],
           x # <<>> /\ Last(x).at \in {"queue", "wait"} /\ ~wakeup'[t] =>
             \A s \in ToSet(sendlist'[t]) : s \in ToSet(sendlist[t]) /\ Waking(s),
           \A u \in Thread : u # t => (wakeup[u] => wakeup'[u]),
           \A u \in Thread : ToSet(sendlist'[u]) \subseteq ToSet(sendlist[u]),
           \A s \in 1..sends : sender'[s] = sender[s],
           ~Running(t, "send", "wake")
    PROVE  Listening'
  <1>1. ASSUME NEW u \in Thread, NEW s \in ToSet(sendlist'[u]), Waking(s)
        PROVE  Waking(s)'
    <2>1. s \in 1..sends
      BY ListedAre
    <2> QED BY <1>1, <2>1, WakingKeeps
  <1> QED BY <1>1, ListeningSet

LEMMA ListeningStill ==
    ASSUME Listening, stack' = stack, sender' = sender,
           \A u \in Thread : wakeup[u] => wakeup'[u],
           \A u \in Thread : ToSet(sendlist'[u]) \subseteq ToSet(sendlist[u])
    PROVE  Listening'
  BY DEF Listening, Waking, Running, Top

-----------------------------------------------------------------------------
(* Each part of the invariant is kept *)

\* The top frame of a thread that takes a step.
LEMMA TopIs ==
    ASSUME IInv, Shapes, NEW t \in Thread, stack[t] # <<>>
    PROVE  /\ stack[t] \in Seq(Frame) /\ Shape(stack[t])
           /\ Top(t) = Last(stack[t]) /\ Top(t) \in Frame
           /\ Top(t).kind \in {"loop", "handler", "send"}
           /\ Top(t).kind = "handler" => Top(t).at = "run"
           /\ Top(t).kind = "send" => Top(t).id \in 1..sends /\ sender[Top(t).id] = t
  <1>1. stack[t] \in Seq(Frame) /\ Shape(stack[t]) /\ Top(t) = Last(stack[t])
    BY OneStack DEF Shapes, Top
  <1>2. Top(t) \in Frame /\ Top(t).kind \in {"loop", "handler", "send"}
    <2>1. Top(t) \in Frame
      BY <1>1, StackIs
    <2> QED BY <2>1 DEF Frame
  <1>3. Top(t).kind = "handler" => Top(t).at = "run"
    BY <1>1, StackIs DEF Shape
  <1>4. ASSUME Top(t).kind = "send"
        PROVE  Top(t).id \in 1..sends /\ sender[Top(t).id] = t
    <2>1. Top(t).id \in PushedIn(stack[t]) \cup UnpushedIn(stack[t])
      BY <1>1, <1>4, StackIs DEF PushedIn, UnpushedIn
    <2> QED BY <2>1, OneStack
  <1> QED BY <1>1, <1>2, <1>3, <1>4

LEMMA WaitIs ==
    ASSUME IInv, Shapes, NEW t \in Thread, Wait(t)
    PROVE  \/ /\ Top(t).kind = "loop" /\ stack' = [stack EXCEPT ![t] = Goto(stack[t], "receive")]
           \/ /\ Top(t).kind = "send"
              /\ stack' = [stack EXCEPT ![t] = Waited(Goto(stack[t], "check"), TRUE)]
  <1>1. stack[t] # <<>> /\ Top(t).at = "wait"
    BY DEF Wait
  <1>2. CASE Top(t).kind = "loop"
    BY <1>2 DEF Wait
  <1>3. CASE Top(t).kind # "loop"
    <2>1. Top(t).kind = "send"
      BY <1>1, <1>3, TopIs
    <2>2. Len(Goto(stack[t], "check")) = Len(stack[t])
      BY <1>1, TopIs, GotoIs DEF Ats
    <2> QED BY <1>3, <2>1, <2>2 DEF Wait, Waited
  <1> QED BY <1>2, <1>3

LEMMA GetIs ==
    ASSUME NEW t \in Thread, Get(t)
    PROVE  \/ stack' = [stack EXCEPT ![t] = Append(Goto(stack[t], "receive"), Handler(0))]
           \/ stack' = [stack EXCEPT ![t] = <<>>]
           \/ /\ stack' = [stack EXCEPT ![t] = Goto(stack[t], "wait")]
              /\ posted[t] = 0 /\ ~fStop[t] /\ posted' = posted
  <1>1. CASE posted[t] > 0 /\ stack' = [stack EXCEPT ![t] =
                                 Append(Goto(stack[t], "receive"), Handler(0))]
    BY <1>1
  <1>2. CASE posted[t] = 0 /\ posted' = posted
             /\ stack' = [stack EXCEPT ![t] = IF fStop[t] THEN <<>> ELSE Goto(stack[t], "wait")]
    <2>1. CASE fStop[t]
      BY <1>2, <2>1
    <2>2. CASE ~fStop[t]
      BY <1>2, <2>2
    <2> QED BY <2>1, <2>2
  <1> QED BY <1>1, <1>2 DEF Get

\* The new stacks of Get.
LEMMA GetStacks ==
    ASSUME NEW st \in Seq(Frame), st # <<>>, Shape(st), Last(st).kind = "loop"
    PROVE  LET y == Append(Goto(st, "receive"), Handler(0)) IN
           /\ Shape(y) /\ Last(y).kind = "handler" /\ Last(y).at = "run"
           /\ \A rd : \A w \in BOOLEAN : Alert(st, rd, w) => Alert(y, rd, w)
  <1> DEFINE g == Goto(st, "receive")
             y == Append(g, Handler(0))
  <1>1. /\ g \in Seq(Frame) /\ g # <<>> /\ Shape(g)
        /\ Last(g).kind = "loop" /\ Last(g).at = "receive"
    BY GotoIs, StackIs, ShapeGoto DEF Ats
  <1>2. /\ Handler(0) \in Frame /\ Handler(0).kind = "handler" /\ Handler(0).id = 0
        /\ Handler(0).at = "run"
    BY HandlerFrame DEF Handler, FrameOf
  <1>3. \A rd : \A w \in BOOLEAN : Alert(st, rd, w) => Alert(g, rd, w)
    BY AlertGoto DEF Ats
  <1> HIDE DEF g
  <1>4. Shape(y) /\ Last(y) = Handler(0)
    BY <1>1, <1>2, ShapeAppend, AppendIs
  <1>5. \A rd : \A w \in BOOLEAN : Alert(st, rd, w) => Alert(y, rd, w)
    BY <1>1, <1>2, <1>3, AlertAppend
  <1>6. Last(y).kind = "handler" /\ Last(y).at = "run"
    BY <1>2, <1>4
  <1> HIDE DEF y
  <1> QED BY <1>4, <1>5, <1>6 DEF g, y

LEMMA SendIs ==
    ASSUME IInv, NEW t \in Thread, NEW u \in Thread, Send(t, u)
    PROVE  \E f \in Frame :
             /\ stack' = [stack EXCEPT ![t] = Append(stack[t], f)]
             /\ f.kind = "handler" => f.id = 0 /\ f.at = "run"
             /\ f.at \in {"run", "push"} /\ f.kind # "loop"
             /\ f.kind = "send" => f.id = sends + 1
  <1>1. CASE u = t
    <2>1. Handler(0) \in Frame /\ Handler(0).kind = "handler" /\ Handler(0).id = 0
          /\ Handler(0).at = "run"
      BY HandlerFrame DEF Handler, FrameOf
    <2>2. stack' = [stack EXCEPT ![t] = Append(stack[t], Handler(0))]
      BY <1>1 DEF Send
    <2> QED BY <2>1, <2>2
  <1>2. CASE u # t
    <2> DEFINE f == FrameOf("send", sends + 1, "push")
    <2>1. f \in Frame /\ f.kind = "send" /\ f.at = "push" /\ f.id = sends + 1
      BY BoundsAssumption DEF IInv, CoreType, Send, FrameOf, Frame
    <2>2. stack' = [stack EXCEPT ![t] = Append(stack[t], f)]
      BY <1>2 DEF Send
    <2> QED BY <2>1, <2>2
  <1> QED BY <1>1, <1>2

LEMMA ShapesKeep ==
    ASSUME IInv, Shapes, Known, [Next]_vars
    PROVE  Shapes'
  <1>1. ASSUME NEW t \in Thread, ReceiveSends(t) PROVE Shapes'
    <2>1. PICK x : ServedAs(t, stack[t], x)
      BY <1>1, ReceiveSendsIs
    <2> QED BY <2>1, ShapesSet DEF ServedAs
  <1>2. ASSUME NEW t \in Thread, HandlerReturns(t) PROVE Shapes'
    <2>1. stack[t] # <<>> /\ stack' = [stack EXCEPT ![t] = Pop(stack[t])]
      BY <1>2 DEF HandlerReturns, Running
    <2>2. Shape(Pop(stack[t]))
      BY <2>1, TopIs, ShapePop
    <2> QED BY <2>1, <2>2, ShapesSet
  <1>11. ASSUME NEW t \in Thread, TellSender(t) PROVE Shapes'
    <2>1. PICK x : ServedAs(t, stack[t], x)
      BY <1>11, TellSenderIs
    <2> QED BY <2>1, ShapesSet DEF ServedAs
  <1>3. ASSUME NEW t \in Thread, NEW at \in Ats, stack[t] # <<>>, Top(t).kind # "handler",
               stack' = [stack EXCEPT ![t] = Goto(stack[t], at)]
        PROVE  Shapes'
    <2>1. Shape(Goto(stack[t], at))
      BY <1>3, TopIs, ShapeGoto
    <2> QED BY <1>3, <2>1, ShapesSet
  <1>4. ASSUME NEW t \in Thread, PushSend(t) \/ WakeTarget(t) PROVE Shapes'
    <2>1. /\ stack[t] # <<>> /\ Top(t).kind = "send"
          /\ \/ stack' = [stack EXCEPT ![t] = Goto(stack[t], "wake")]
             \/ stack' = [stack EXCEPT ![t] = Goto(stack[t], "check")]
      BY <1>4 DEF PushSend, WakeTarget, Running
    <2> QED BY <1>3, <2>1 DEF Ats
  <1>5. ASSUME NEW t \in Thread, CheckReady(t) PROVE Shapes'
    <2>1. /\ stack[t] # <<>> /\ Top(t).kind = "send"
          /\ \/ stack' = [stack EXCEPT ![t] = Goto(stack[t], "receive")]
             \/ stack' = [stack EXCEPT ![t] = Pop(stack[t])]
      BY <1>5 DEF CheckReady, Running
    <2>2. Shape(Pop(stack[t]))
      BY <2>1, TopIs, ShapePop
    <2> QED BY <1>3, <2>1, <2>2, ShapesSet DEF Ats
  <1>6. ASSUME NEW t \in Thread, Wait(t) PROVE Shapes'
    <2>1. stack[t] # <<>>
      BY <1>6 DEF Wait
    <2>2. CASE Top(t).kind = "loop" /\ stack' = [stack EXCEPT ![t] = Goto(stack[t], "receive")]
      BY <1>3, <2>1, <2>2 DEF Ats
    <2>3. CASE Top(t).kind = "send"
               /\ stack' = [stack EXCEPT ![t] = Waited(Goto(stack[t], "check"), TRUE)]
      <3> DEFINE g == Goto(stack[t], "check")
      <3>1. g \in Seq(Frame) /\ g # <<>> /\ Shape(g)
        BY <2>1, <2>3, TopIs, GotoIs, ShapeGoto DEF Ats
      <3> HIDE DEF g
      <3>2. Shape(Waited(g, TRUE))
        BY <3>1, ShapeWaited
      <3> QED BY <2>3, <3>2, ShapesSet DEF g
    <2> QED BY <1>6, <2>2, <2>3, WaitIs
  <1>7. ASSUME NEW t \in Thread, Get(t) PROVE Shapes'
    <2>1. stack[t] # <<>> /\ Top(t).kind = "loop"
      BY <1>7 DEF Get, Running
    <2>2. CASE stack' = [stack EXCEPT ![t] = Append(Goto(stack[t], "receive"), Handler(0))]
      <3>1. Shape(Append(Goto(stack[t], "receive"), Handler(0)))
        BY <2>1, TopIs, GetStacks
      <3> QED BY <2>2, <3>1, ShapesSet
    <2>3. CASE stack' = [stack EXCEPT ![t] = <<>>]
      <3>1. Shape(<<>>)
        BY DEF Shape
      <3> QED BY <2>3, <3>1, ShapesSet
    <2>4. CASE stack' = [stack EXCEPT ![t] = Goto(stack[t], "wait")]
      BY <1>3, <2>1, <2>4 DEF Ats
    <2> QED BY <1>7, <2>2, <2>3, <2>4, GetIs
  <1>8. ASSUME NEW t \in Thread, NEW u \in Thread, Send(t, u) PROVE Shapes'
    <2>1. PICK f \in Frame : /\ stack' = [stack EXCEPT ![t] = Append(stack[t], f)]
                             /\ f.kind = "handler" => f.id = 0 /\ f.at = "run"
      BY <1>8, SendIs
    <2>2. stack[t] # <<>> /\ Top(t).kind = "handler"
      BY <1>8 DEF Send, Running
    <2>3. /\ stack[t] \in Seq(Frame) /\ Shape(stack[t])
          /\ Last(stack[t]).kind = "handler" /\ Last(stack[t]).at = "run"
      BY <2>2, TopIs
    <2>4. Shape(Append(stack[t], f))
      BY <2>1, <2>2, <2>3, ShapeAppend
    <2> QED BY <2>1, <2>4, ShapesSet
  <1>9. ASSUME UNCHANGED stack PROVE Shapes'
    BY <1>9 DEF Shapes
  <1>10. ASSUME NEW u \in Thread, Post(u) \/ Quit(u) \/ ClearHandler(u) \/ Destroy(u)
         PROVE  UNCHANGED stack
    BY <1>10 DEF Post, Quit, ClearHandler, Destroy, ClearSends
  <1> QED BY <1>1, <1>2, <1>4, <1>5, <1>6, <1>7, <1>8, <1>9, <1>10, <1>11
       DEF Next, Step, vars

LEMMA ServeOthers ==
    ASSUME IInv, NEW t \in Thread, NEW st, Serve(t, st)
    PROVE  \A u \in Thread : u # t => stack'[u] = stack[u]
  <1>1. CASE sendlist[t] # <<>>
    BY <1>1 DEF Serve, IInv, CoreType
  <1>2. CASE sendlist[t] = <<>>
    BY <1>2 DEF Serve, IInv, CoreType
  <1> QED BY <1>1, <1>2

LEMMA TellsKeep ==
    ASSUME IInv, PlainType, Shapes, Tells, [Next]_vars
    PROVE  Tells'
  \* A step of t, with nobody to tell, that answers nobody.
  <1>1. ASSUME NEW t \in Thread, telling' = telling, telling[t] = 0,
               \A u \in Thread : u # t => stack'[u] = stack[u]
        PROVE  Tells'
    BY <1>1 DEF Tells, Top
  <1>2. ASSUME NEW t \in Thread,
               \/ ReceiveSends(t) \/ PushSend(t) \/ WakeTarget(t) \/ CheckReady(t)
               \/ Wait(t) \/ Get(t) \/ \E u \in Thread : Send(t, u)
        PROVE  Tells'
    <2>1. telling' = telling /\ Top(t).at # "serving"
      BY <1>2 DEF ReceiveSends, PushSend, WakeTarget, CheckReady, Wait, Get, Send, Running
    <2>2. \A u \in Thread : u # t => stack'[u] = stack[u]
      <3>1. CASE ReceiveSends(t)
        <4>1. Serve(t, stack[t]) \/ stack' = [stack EXCEPT ![t] = AfterReceive(stack[t])]
          BY <3>1 DEF ReceiveSends
        <4> QED BY <4>1, ServeOthers DEF IInv, CoreType
      <3>2. CASE PushSend(t) \/ WakeTarget(t)
        BY <3>2 DEF PushSend, WakeTarget, IInv, CoreType
      <3>3. CASE CheckReady(t)
        BY <3>3 DEF CheckReady, IInv, CoreType
      <3>4. CASE Wait(t)
        BY <3>4 DEF Wait, IInv, CoreType
      <3>5. CASE Get(t)
        BY <3>5 DEF Get, IInv, CoreType
      <3>6. CASE \E u \in Thread : Send(t, u)
        BY <3>6 DEF Send, IInv, CoreType
      <3> QED BY <1>2, <3>1, <3>2, <3>3, <3>4, <3>5, <3>6
    <2>3. telling[t] = 0
      BY <2>1 DEF Tells
    <2> QED BY <1>1, <2>1, <2>2, <2>3
  <1>3. ASSUME NEW t \in Thread, HandlerReturns(t) PROVE Tells'
    <2>1. /\ stack[t] # <<>> /\ Top(t).kind = "handler" /\ Top(t).at = "run"
          /\ stack' = [stack EXCEPT ![t] = Pop(stack[t])]
      BY <1>3 DEF HandlerReturns, Running
    <2>2. /\ stack[t] \in Seq(Frame) /\ Shape(stack[t]) /\ WellStacked(stack[t])
          /\ Top(t) = Last(stack[t])
      BY <2>1, TopIs, OneStack
    <2>3. Pop(stack[t]) # <<>>
      <3>1. Len(stack[t]) # 1
        BY <2>1, <2>2, TopOfStack
      <3>2. Len(Pop(stack[t])) = Len(stack[t]) - 1 /\ Len(stack[t]) \in Nat \ {0}
        BY <2>1, <2>2, PopIs
      <3>3. Len(Pop(stack[t])) # 0
        BY <3>1, <3>2
      <3> QED BY <3>3
    <2>4. \A u \in Thread : stack'[u] = IF u = t THEN Pop(stack[t]) ELSE stack[u]
      BY <2>1, StackSet
    <2>5. telling[t] = 0
      BY <2>1 DEF Tells
    <2>6. \A u \in Thread : u # t => telling'[u] = telling[u]
      <3>1. telling' = telling \/ telling' = [telling EXCEPT ![t] = Top(t).id]
        BY <1>3 DEF HandlerReturns
      <3> QED BY <3>1 DEF PlainType
    <2>7. telling'[t] # 0 => Last(Pop(stack[t])).at = "serving"
      <3>1. Top(t).id = 0 => telling' = telling
        BY <1>3 DEF HandlerReturns
      <3>2. Top(t).id # 0 => Last(Pop(stack[t])).at = "serving"
        BY <2>1, <2>2, <2>3, ShapePop
      <3> QED BY <2>5, <3>1, <3>2
    <2> QED BY <2>3, <2>4, <2>6, <2>7 DEF Tells, Top
  <1>4. ASSUME NEW t \in Thread, TellSender(t) PROVE Tells'
    <2>1. telling' = [telling EXCEPT ![t] = 0]
      BY <1>4 DEF TellSender
    <2>2. \A u \in Thread : u # t => stack'[u] = stack[u]
      BY <1>4, ServeOthers DEF TellSender
    <2> QED BY <2>1, <2>2 DEF Tells, Top, PlainType
  <1>5. ASSUME UNCHANGED stack, UNCHANGED telling PROVE Tells'
    BY <1>5 DEF Tells, Top
  <1>6. ASSUME NEW u \in Thread, Post(u) \/ Quit(u) \/ ClearHandler(u) \/ Destroy(u)
        PROVE  UNCHANGED stack /\ UNCHANGED telling
    BY <1>6 DEF Post, Quit, ClearHandler, Destroy, ClearSends
  <1> QED BY <1>2, <1>3, <1>4, <1>5, <1>6 DEF Next, Step, vars

LEMMA NestedSet ==
    ASSUME IInv, Nested, NEW t \in Thread, NEW x, stack' = [stack EXCEPT ![t] = x],
           Rising(stack[t]) => Rising(x)
    PROVE  Nested'
  <1>1. \A u \in Thread : stack'[u] = IF u = t THEN x ELSE stack[u]
    BY StackSet
  <1> QED BY <1>1 DEF Nested

LEMMA NestedKeeps ==
    ASSUME IInv, Shapes, Known, Nested, [Next]_vars
    PROVE  Nested'
  <1>1. ASSUME NEW t \in Thread, ReceiveSends(t) PROVE Nested'
    <2>1. PICK x : ServedAs(t, stack[t], x)
      BY <1>1, ReceiveSendsIs
    <2> QED BY <2>1, NestedSet DEF ServedAs
  <1>2. ASSUME NEW t \in Thread, stack[t] # <<>>,
               stack' = [stack EXCEPT ![t] = Pop(stack[t])]
        PROVE  Nested'
    BY <1>2, OneStack, RisingPop, NestedSet
  <1>3. ASSUME NEW t \in Thread, HandlerReturns(t) PROVE Nested'
    BY <1>2, <1>3 DEF HandlerReturns, Running
  <1>12. ASSUME NEW t \in Thread, TellSender(t) PROVE Nested'
    <2>1. PICK x : ServedAs(t, stack[t], x)
      BY <1>12, TellSenderIs
    <2> QED BY <2>1, NestedSet DEF ServedAs
  <1>4. ASSUME NEW t \in Thread, NEW at \in Ats, stack[t] # <<>>,
               stack' = [stack EXCEPT ![t] = Goto(stack[t], at)]
        PROVE  Nested'
    BY <1>4, OneStack, RisingGoto, NestedSet
  <1>5. ASSUME NEW t \in Thread, PushSend(t) \/ WakeTarget(t) PROVE Nested'
    <2>1. /\ stack[t] # <<>>
          /\ \/ stack' = [stack EXCEPT ![t] = Goto(stack[t], "wake")]
             \/ stack' = [stack EXCEPT ![t] = Goto(stack[t], "check")]
      BY <1>5 DEF PushSend, WakeTarget, Running
    <2> QED BY <1>4, <2>1 DEF Ats
  <1>6. ASSUME NEW t \in Thread, CheckReady(t) PROVE Nested'
    <2>1. /\ stack[t] # <<>>
          /\ \/ stack' = [stack EXCEPT ![t] = Goto(stack[t], "receive")]
             \/ stack' = [stack EXCEPT ![t] = Pop(stack[t])]
      BY <1>6 DEF CheckReady, Running
    <2> QED BY <1>2, <1>4, <2>1 DEF Ats
  <1>7. ASSUME NEW t \in Thread, Wait(t) PROVE Nested'
    <2>1. stack[t] # <<>> /\ stack[t] \in Seq(Frame)
      BY <1>7, OneStack DEF Wait
    <2>2. CASE stack' = [stack EXCEPT ![t] = Goto(stack[t], "receive")]
      BY <1>4, <2>1, <2>2 DEF Ats
    <2>3. CASE stack' = [stack EXCEPT ![t] = Waited(Goto(stack[t], "check"), TRUE)]
      <3> DEFINE g == Goto(stack[t], "check")
      <3>1. g \in Seq(Frame) /\ g # <<>> /\ (Rising(stack[t]) => Rising(g))
        BY <2>1, GotoIs, RisingGoto DEF Ats
      <3>2. stack' = [stack EXCEPT ![t] = Waited(g, TRUE)]
        BY <2>3
      <3> HIDE DEF g
      <3>3. Rising(stack[t]) => Rising(Waited(g, TRUE))
        BY <3>1, RisingWaited
      <3> QED BY <3>2, <3>3, NestedSet
    <2> QED BY <1>7, <2>2, <2>3, WaitIs
  <1>8. ASSUME NEW t \in Thread, Get(t) PROVE Nested'
    <2>1. stack[t] # <<>> /\ stack[t] \in Seq(Frame)
      BY <1>8, OneStack DEF Get, Running
    <2>2. CASE stack' = [stack EXCEPT ![t] = Append(Goto(stack[t], "receive"), Handler(0))]
      <3> DEFINE g == Goto(stack[t], "receive")
      <3>1. g \in Seq(Frame) /\ (Rising(stack[t]) => Rising(g))
        BY <2>1, GotoIs, RisingGoto DEF Ats
      <3>2. Handler(0) \in Frame /\ Handler(0).kind # "send"
        BY HandlerFrame
      <3>3. stack' = [stack EXCEPT ![t] = Append(g, Handler(0))]
        BY <2>2
      <3> HIDE DEF g
      <3>4. Rising(stack[t]) => Rising(Append(g, Handler(0)))
        BY <3>1, <3>2, RisingAppend
      <3> QED BY <3>3, <3>4, NestedSet
    <2>3. CASE stack' = [stack EXCEPT ![t] = <<>>]
      <3>1. Rising(<<>>)
        BY DEF Rising
      <3> QED BY <2>3, <3>1, NestedSet
    <2>4. CASE stack' = [stack EXCEPT ![t] = Goto(stack[t], "wait")]
      BY <1>4, <2>1, <2>4 DEF Ats
    <2> QED BY <1>8, <2>2, <2>3, <2>4, GetIs
  <1>9. ASSUME NEW t \in Thread, NEW u \in Thread, Send(t, u) PROVE Nested'
    <2>1. stack[t] \in Seq(Frame) /\ sends \in Nat
      BY OneStack, BoundsAssumption DEF IInv, CoreType
    <2>2. PICK f \in Frame : /\ stack' = [stack EXCEPT ![t] = Append(stack[t], f)]
                             /\ f.kind = "send" => f.id = sends + 1
      BY <1>9, SendIs
    <2>3. ASSUME NEW i \in DOMAIN stack[t], stack[t][i].kind = "handler"
          PROVE  stack[t][i].id < sends + 1
      <3>1. CASE stack[t][i].id = 0
        BY <2>1, <3>1
      <3>2. CASE stack[t][i].id # 0
        <4>1. stack[t][i].id \in HandledIn(stack[t])
          BY <2>3, <3>2 DEF HandledIn
        <4>2. stack[t][i].id \in 1..sends
          BY <4>1, OneStack
        <4> QED BY <2>1, <4>2
      <3> QED BY <3>1, <3>2
    <2>4. Rising(stack[t]) => Rising(Append(stack[t], f))
      BY <2>1, <2>2, <2>3, RisingAppend
    <2> QED BY <2>2, <2>4, NestedSet
  <1>10. ASSUME UNCHANGED stack PROVE Nested'
    BY <1>10 DEF Nested
  <1>11. ASSUME NEW u \in Thread, Post(u) \/ Quit(u) \/ ClearHandler(u) \/ Destroy(u)
         PROVE  UNCHANGED stack
    BY <1>11 DEF Post, Quit, ClearHandler, Destroy, ClearSends
  <1> QED BY <1>1, <1>3, <1>5, <1>6, <1>7, <1>8, <1>9, <1>10, <1>11, <1>12
       DEF Next, Step, vars

\* The lists after Clear and ~Thread.
LEMMA ClearShrinks ==
    ASSUME IInv, NEW u \in Thread, ClearHandler(u) \/ Destroy(u)
    PROVE  /\ \A t \in Thread : /\ ToSet(sendlist'[t]) \subseteq ToSet(sendlist[t])
                                /\ sendlist[t] = <<>> => sendlist'[t] = <<>>
           /\ \A t \in Thread : wakeup[t] => wakeup'[t]
           /\ Signalled
           /\ UNCHANGED <<stack, has_sends, posted, fStop, sender, target, sends>>
  <1>1. PICK S : ClearSends(u, S)
    BY DEF ClearHandler, Destroy
  <1>2. PICK q \in Without(sendlist[u], S) : sendlist' = [sendlist EXCEPT ![u] = q]
    BY <1>1 DEF ClearSends
  <1>3. /\ sendlist \in [Thread -> Seq(SendId)] /\ sendlist[u] \in Seq(SendId)
        /\ NoTwice(sendlist[u])
    BY DEF IInv, CoreType, Listed
  <1>4. q \in Seq(SendId) /\ ToSet(q) = ToSet(sendlist[u]) \ S
    BY <1>3, WithoutList
  <1>5. ASSUME sendlist[u] = <<>> PROVE q = <<>>
    <2>1. ToSet(sendlist[u]) = {}
      BY <1>5 DEF ToSet
    <2>2. ToSet(q) = {}
      BY <1>4, <2>1
    <2>3. Len(q) = 0
      <3>1. DOMAIN q = 1..Len(q) /\ Len(q) \in Nat
        BY <1>4
      <3>2. 1 \notin DOMAIN q
        BY <2>2 DEF ToSet
      <3> QED BY <3>1, <3>2
    <2> QED BY <1>4, <2>3
  <1>6. \A t \in Thread : sendlist'[t] = IF t = u THEN q ELSE sendlist[t]
    BY <1>2, <1>3
  <1>7. \A t \in Thread : /\ ToSet(sendlist'[t]) \subseteq ToSet(sendlist[t])
                          /\ sendlist[t] = <<>> => sendlist'[t] = <<>>
    BY <1>4, <1>5, <1>6
  <1>8. \A t \in Thread : wakeup'[t] <=> wakeup[t] \/ \E s \in S : sender[s] = t
    BY <1>1 DEF ClearSends
  <1>9. \A s \in SendId : ready'[s] <=> ready[s] \/ s \in S
    BY <1>1 DEF ClearSends
  <1>10. Signalled
    <2>1. telling' = telling /\ target' = target
      BY <1>1 DEF ClearSends, Others
    <2>2. \A s \in SendId : told'[s] => told[s] \/ s \in S
      BY <1>9, <2>1 DEF told, BeingTold
    <2> QED BY <1>8, <2>2 DEF Signalled, IInv, CoreType
  <1> QED BY <1>1, <1>7, <1>8, <1>10 DEF ClearSends, Others

LEMMA KnownKeeps ==
    ASSUME IInv, PlainType, Shapes, Known, [Next]_vars
    PROVE  Known'
  <1>1. ASSUME NEW t \in Thread, ReceiveSends(t) PROVE Known'
    BY <1>1, ReceiveSendsIs DEF ListsShrink, Known
  <1>2. ASSUME NEW t \in Thread, HandlerReturns(t) PROVE Known'
    BY <1>2 DEF HandlerReturns, Known
  <1>9. ASSUME NEW t \in Thread, TellSender(t) PROVE Known'
    BY <1>9, TellSenderIs DEF ListsShrink, Known
  <1>3. ASSUME NEW t \in Thread, PushSend(t) PROVE Known'
    <2> DEFINE u == target[Top(t).id]
    <2>1. /\ sendlist' = [sendlist EXCEPT ![u] = Append(sendlist[u], Top(t).id)]
          /\ has_sends' = [has_sends EXCEPT ![u] = TRUE]
      BY <1>3 DEF PushSend
    <2>2. \A v \in Thread : v # u => sendlist'[v] = sendlist[v] /\ has_sends'[v] = has_sends[v]
      BY <2>1
    <2>3. u \in Thread => has_sends'[u]
      BY <2>1 DEF PlainType
    <2> QED BY <2>2, <2>3 DEF Known
  <1>4. ASSUME UNCHANGED sendlist, UNCHANGED has_sends PROVE Known'
    BY <1>4 DEF Known
  <1>5. ASSUME NEW t \in Thread, WakeTarget(t) \/ CheckReady(t) \/ Wait(t) \/ Get(t)
        PROVE  Known'
    BY <1>4, <1>5 DEF WakeTarget, CheckReady, Wait, Get
  <1>6. ASSUME NEW t \in Thread, NEW u \in Thread, Send(t, u) PROVE Known'
    BY <1>4, <1>6 DEF Send
  <1>7. ASSUME NEW u \in Thread, Post(u) \/ Quit(u) PROVE Known'
    BY <1>4, <1>7 DEF Post, Quit
  <1>8. ASSUME NEW u \in Thread, ClearHandler(u) \/ Destroy(u) PROVE Known'
    BY <1>8, ClearShrinks DEF Known
  <1> QED BY <1>1, <1>2, <1>3, <1>4, <1>5, <1>6, <1>7, <1>8, <1>9 DEF Next, Step, vars

\* Only a Wait takes a signal, and only its own.
LEMMA SignalsStay ==
    ASSUME PlainType, NEW t \in Thread, Step(t)
    PROVE  \A u \in Thread : wakeup[u] => wakeup'[u] \/ (u = t /\ Wait(t))
  <1>1. CASE ReceiveSends(t) \/ HandlerReturns(t) \/ PushSend(t) \/ Get(t)
    BY <1>1 DEF ReceiveSends, HandlerReturns, PushSend, Get
  <1>2. CASE TellSender(t)
    BY <1>2 DEF TellSender, PlainType
  <1>3. CASE WakeTarget(t)
    BY <1>3 DEF WakeTarget, PlainType
  <1>4. CASE CheckReady(t)
    <2>1. CASE ready[Top(t).id]
      <3>1. wakeup' = [wakeup EXCEPT ![t] = wakeup[t] \/ Top(t).waited]
        BY <1>4, <2>1 DEF CheckReady
      <3>2. \A u \in Thread : wakeup[u] => wakeup'[u]
        BY <3>1 DEF PlainType
      <3> QED BY <3>2
    <2>2. CASE ~ready[Top(t).id]
      BY <1>4, <2>2 DEF CheckReady
    <2> QED BY <2>1, <2>2
  <1>5. CASE Wait(t)
    BY <1>5 DEF Wait, PlainType
  <1> QED BY <1>1, <1>2, <1>3, <1>4, <1>5 DEF Step

LEMMA IdleKeeps ==
    ASSUME IInv, PlainType, Shapes, Known, Idle, [Next]_vars
    PROVE  Idle'
  <1>1. ASSUME NEW t \in Thread, NEW x, Step(t), stack' = [stack EXCEPT ![t] = x],
               x # <<>> /\ Last(x).kind = "loop" /\ Last(x).at = "wait" =>
                 posted'[t] = 0 /\ ~fStop'[t]
        PROVE  Idle'
    <2>1. \A u \in Thread : u # t => (wakeup[u] => wakeup'[u])
      BY <1>1, SignalsStay
    <2>2. /\ fStop' = fStop
          /\ \A u \in Thread : u # t => posted'[u] = posted[u]
      <3>1. CASE Get(t)
        <4>1. posted' = [posted EXCEPT ![t] = posted[t] - 1] \/ posted' = posted
          BY <3>1 DEF Get
        <4>2. fStop' = fStop
          BY <3>1 DEF Get
        <4> QED BY <4>1, <4>2 DEF PlainType
      <3>2. CASE ~Get(t)
        BY <1>1, <3>2 DEF Step, ReceiveSends, HandlerReturns, TellSender, PushSend,
                          WakeTarget, CheckReady, Wait
      <3> QED BY <3>1, <3>2
    <2> QED BY <1>1, <2>1, <2>2, IdleSet
  <1>2. ASSUME NEW t \in Thread, ReceiveSends(t) PROVE Idle'
    <2>1. PICK x : ServedAs(t, stack[t], x)
      BY <1>2, ReceiveSendsIs
    <2> QED BY <1>1, <1>2, <2>1 DEF ServedAs, Step
  <1>3. ASSUME NEW t \in Thread, HandlerReturns(t) PROVE Idle'
    <2>1. stack[t] # <<>> /\ stack' = [stack EXCEPT ![t] = Pop(stack[t])]
      BY <1>3 DEF HandlerReturns, Running
    <2>2. Pop(stack[t]) # <<>> => Last(Pop(stack[t])).at # "wait"
      BY <2>1, TopIs, ShapePop
    <2> QED BY <1>1, <1>3, <2>1, <2>2 DEF Step
  <1>13. ASSUME NEW t \in Thread, TellSender(t) PROVE Idle'
    <2>1. PICK x : ServedAs(t, stack[t], x)
      BY <1>13, TellSenderIs
    <2> QED BY <1>1, <1>13, <2>1 DEF ServedAs, Step
  <1>4. ASSUME NEW t \in Thread, NEW at \in Ats, at # "wait", Step(t), stack[t] # <<>>,
               stack' = [stack EXCEPT ![t] = Goto(stack[t], at)]
        PROVE  Idle'
    <2>1. Last(Goto(stack[t], at)).at = at
      BY <1>4, TopIs, GotoIs, StackIs
    <2> QED BY <1>1, <1>4, <2>1
  <1>5. ASSUME NEW t \in Thread, PushSend(t) \/ WakeTarget(t) PROVE Idle'
    <2>1. /\ stack[t] # <<>> /\ Step(t)
          /\ \/ stack' = [stack EXCEPT ![t] = Goto(stack[t], "wake")]
             \/ stack' = [stack EXCEPT ![t] = Goto(stack[t], "check")]
      BY <1>5 DEF PushSend, WakeTarget, Running, Step
    <2> QED BY <1>4, <2>1 DEF Ats
  <1>6. ASSUME NEW t \in Thread, CheckReady(t) PROVE Idle'
    <2>1. /\ stack[t] # <<>> /\ Step(t)
          /\ \/ stack' = [stack EXCEPT ![t] = Goto(stack[t], "receive")]
             \/ stack' = [stack EXCEPT ![t] = Pop(stack[t])]
      BY <1>6 DEF CheckReady, Running, Step
    <2>2. Pop(stack[t]) # <<>> => Last(Pop(stack[t])).at # "wait"
      BY <2>1, TopIs, ShapePop
    <2> QED BY <1>1, <1>4, <2>1, <2>2 DEF Ats
  <1>7. ASSUME NEW t \in Thread, Wait(t) PROVE Idle'
    <2>1. stack[t] # <<>> /\ Step(t)
      BY <1>7 DEF Wait, Step
    <2>2. CASE stack' = [stack EXCEPT ![t] = Goto(stack[t], "receive")]
      BY <1>4, <2>1, <2>2 DEF Ats
    <2>3. CASE Top(t).kind = "send"
               /\ stack' = [stack EXCEPT ![t] = Waited(Goto(stack[t], "check"), TRUE)]
      <3> DEFINE g == Goto(stack[t], "check")
      <3>1. g \in Seq(Frame) /\ g # <<>> /\ Last(g).at = "check"
        BY <2>1, TopIs, GotoIs, StackIs DEF Ats
      <3> HIDE DEF g
      <3>2. Last(Waited(g, TRUE)).at = "check"
        <4>1. Len(g) \in DOMAIN g /\ g[Len(g)].at = "check"
          BY <3>1, StackIs
        <4>2. Last(Waited(g, TRUE)) = Waited(g, TRUE)[Len(g)]
          BY <3>1, WaitedIs
        <4>3. Waited(g, TRUE)[Len(g)].at = g[Len(g)].at
          BY <3>1, <4>1, WaitedIs
        <4> QED BY <4>1, <4>2, <4>3
      <3>3. stack' = [stack EXCEPT ![t] = Waited(g, TRUE)]
        BY <2>3 DEF g
      <3> QED BY <1>1, <2>1, <3>2, <3>3
    <2> QED BY <1>7, <2>2, <2>3, WaitIs
  <1>8. ASSUME NEW t \in Thread, Get(t) PROVE Idle'
    <2>1. stack[t] # <<>> /\ Top(t).kind = "loop" /\ Step(t)
      BY <1>8 DEF Get, Running, Step
    <2>2. CASE stack' = [stack EXCEPT ![t] = Append(Goto(stack[t], "receive"), Handler(0))]
      <3>1. Last(Append(Goto(stack[t], "receive"), Handler(0))).at = "run"
        BY <2>1, TopIs, GetStacks
      <3> QED BY <1>1, <2>1, <2>2, <3>1
    <2>3. CASE stack' = [stack EXCEPT ![t] = <<>>]
      BY <1>1, <2>1, <2>3
    <2>4. CASE /\ stack' = [stack EXCEPT ![t] = Goto(stack[t], "wait")]
               /\ posted[t] = 0 /\ ~fStop[t] /\ posted' = posted
      <3>1. fStop' = fStop
        BY <1>8 DEF Get
      <3> QED BY <1>1, <2>1, <2>4, <3>1
    <2> QED BY <1>8, <2>2, <2>3, <2>4, GetIs
  <1>9. ASSUME NEW t \in Thread, NEW u \in Thread, Send(t, u) PROVE Idle'
    <2>1. PICK f \in Frame : /\ stack' = [stack EXCEPT ![t] = Append(stack[t], f)]
                             /\ f.kind # "loop"
      BY <1>9, SendIs
    <2>2. stack[t] \in Seq(Frame)
      BY OneStack
    <2>3. Last(Append(stack[t], f)).kind # "loop"
      BY <2>1, <2>2, AppendIs
    <2>4. wakeup' = wakeup /\ posted' = posted /\ fStop' = fStop
      BY <1>9 DEF Send
    <2> QED BY <2>1, <2>3, <2>4, IdleSet
  <1>10. ASSUME NEW u \in Thread, Post(u) \/ Quit(u) PROVE Idle'
    <2>1. /\ stack' = stack
          /\ \A v \in Thread : v # u => wakeup'[v] = wakeup[v] /\ posted'[v] = posted[v]
                                        /\ fStop'[v] = fStop[v]
          /\ wakeup'[u]
      BY <1>10 DEF Post, Quit, PlainType
    <2> QED BY <2>1 DEF Idle, Top
  <1>11. ASSUME NEW u \in Thread, ClearHandler(u) \/ Destroy(u) PROVE Idle'
    BY <1>11, ClearShrinks DEF Idle, Top
  <1>12. CASE UNCHANGED vars
    BY <1>12 DEF vars, Idle, Top
  <1> QED BY <1>2, <1>3, <1>5, <1>6, <1>7, <1>8, <1>9, <1>10, <1>11, <1>12,
       <1>13 DEF Next, Step

\* A step that tells nobody.
LEMMA NobodyTold ==
    ASSUME ready' = ready, telling' = telling,
           \A s \in SendId : ready[s] => target'[s] = target[s]
    PROVE  told' = told /\ Signalled
  <1>1. \A s \in SendId : (ready'[s] /\ ~BeingTold(s)') <=> (ready[s] /\ ~BeingTold(s))
    BY DEF BeingTold
  <1>2. told' = told
    BY <1>1 DEF told
  <1> QED BY <1>2 DEF Signalled

LEMMA QuietSteps ==
    ASSUME IInv, NEW t \in Thread,
           \/ ReceiveSends(t) \/ PushSend(t) \/ WakeTarget(t) \/ CheckReady(t)
           \/ Wait(t) \/ Get(t) \/ Post(t) \/ Quit(t)
    PROVE  told' = told /\ Signalled
  <1>1. ready' = ready /\ telling' = telling /\ target' = target
    BY DEF ReceiveSends, PushSend, WakeTarget, CheckReady, Wait, Get, Post, Quit, Others
  <1> QED BY <1>1, NobodyTold

LEMMA QuietSend ==
    ASSUME IInv, NEW t \in Thread, NEW u \in Thread, Send(t, u)
    PROVE  told' = told /\ Signalled
  <1>1. ready' = ready /\ telling' = telling
    BY DEF Send
  <1>2. target' = target \/ target' = [target EXCEPT ![sends + 1] = u]
    BY DEF Send
  <1>3. \A s \in SendId : ready[s] => s # sends + 1
    <2>1. sends \in Nat /\ Fresh /\ SendId \subseteq Nat
      BY BoundsAssumption DEF IInv, CoreType, SendId
    <2> QED BY <2>1 DEF Fresh
  <1>4. \A s \in SendId : ready[s] => target'[s] = target[s]
    <2>1. PICK n : n = sends + 1
      OBVIOUS
    <2>2. target \in [SendId -> Thread]
      BY DEF IInv, CoreType
    <2> QED BY <1>2, <1>3, <2>1, <2>2
  <1> QED BY <1>1, <1>4, NobodyTold

LEMMA AlertsKeep ==
    ASSUME IInv, PlainType, Shapes, Tells, Known, Alerts, [Next]_vars
    PROVE  Alerts'
  <1>0. \A t \in Thread : wakeup[t] \in BOOLEAN
    BY DEF PlainType
  <1>1. ASSUME NEW t \in Thread, ReceiveSends(t) PROVE Alerts'
    <2>1. told' = told /\ Signalled /\ wakeup' = wakeup
      BY <1>1, QuietSteps DEF ReceiveSends
    <2>2. PICK x : ServedAs(t, stack[t], x)
      BY <1>1, ReceiveSendsIs
    <2>3. Alert(x, told, wakeup[t])
      BY <1>0, <2>2 DEF ServedAs, Alerts
    <2> QED BY <2>1, <2>2, <2>3, AlertsSet DEF ServedAs
  <1>2. ASSUME NEW t \in Thread, HandlerReturns(t) PROVE Alerts'
    <2>1. /\ stack[t] # <<>> /\ Top(t).kind = "handler" /\ wakeup' = wakeup
          /\ stack' = [stack EXCEPT ![t] = Pop(stack[t])] /\ target' = target
          /\ Top(t).at = "run"
      BY <1>2 DEF HandlerReturns, Running, Others
    <2>2. /\ stack[t] \in Seq(Frame) /\ Last(stack[t]).kind # "send"
          /\ WellStacked(stack[t]) /\ Top(t) = Last(stack[t])
      BY <2>1, TopIs, OneStack
    <2>3. told' = told /\ Signalled
      <3> DEFINE s == Top(t).id
      <3>1. CASE s = 0
        BY <1>2, <2>1, <3>1, NobodyTold DEF HandlerReturns
      <3>2. CASE s # 0
        <4>1. ready' = [ready EXCEPT ![s] = TRUE] /\ telling' = [telling EXCEPT ![t] = s]
          BY <1>2, <3>2 DEF HandlerReturns
        <4>2. s \in HandledIn(stack[t])
          BY <2>1, <2>2, <3>2, TopOfStack
        <4>3. s \in SendId /\ s \in 1..sends /\ target[s] = t
          BY <4>2, OneStack
        <4>4. ~ready[s]
          BY <4>2, <4>3 DEF IInv, Placed, InHandler
        <4>5. telling[t] = 0 /\ telling'[t] = s
          BY <2>1, <4>1 DEF Tells, PlainType
        <4> HIDE DEF s
        <4>6. ASSUME NEW r \in SendId
              PROVE  (ready'[r] /\ ~BeingTold(r)') <=> (ready[r] /\ ~BeingTold(r))
          <5>1. CASE r = s
            BY <2>1, <4>3, <4>4, <4>5, <5>1 DEF BeingTold
          <5>2. CASE r # s
            <6>1. (ready'[r] <=> ready[r]) /\ r # 0
              BY <4>1, <5>2 DEF SendId
            <6>2. BeingTold(r)' <=> BeingTold(r)
              <7>1. CASE target[r] = t
                BY <2>1, <4>5, <5>2, <6>1, <7>1 DEF BeingTold
              <7>2. CASE target[r] # t
                BY <2>1, <4>1, <7>2 DEF BeingTold
              <7> QED BY <7>1, <7>2
            <6> QED BY <6>1, <6>2
          <5> QED BY <5>1, <5>2
        <4>7. told' = told
          BY <4>6 DEF told
        <4> QED BY <4>7 DEF Signalled
      <3> QED BY <3>1, <3>2
    <2>4. Alert(stack[t], told, wakeup[t])
      BY DEF Alerts
    <2>5. Alert(Pop(stack[t]), told, wakeup[t])
      BY <1>0, <2>1, <2>2, <2>4, AlertPop
    <2> QED BY <2>1, <2>3, <2>5, AlertsSet
  <1>12. ASSUME NEW t \in Thread, TellSender(t) PROVE Alerts'
    <2>1. /\ wakeup' = [wakeup EXCEPT ![sender[telling[t]]] = TRUE]
          /\ telling' = [telling EXCEPT ![t] = 0] /\ ready' = ready /\ target' = target
      BY <1>12 DEF TellSender, Others
    <2>2. wakeup'[t] \in BOOLEAN /\ \A u \in Thread : wakeup[u] => wakeup'[u]
      BY <2>1 DEF PlainType
    <2>3. Signalled
      <3> SUFFICES ASSUME NEW s \in SendId, told'[s], ~told[s]
                   PROVE  wakeup'[sender[s]]
        BY DEF Signalled
      <3>1. ready[s] /\ telling[target[s]] = s
        BY <2>1 DEF told, BeingTold
      <3>2. telling'[target[s]] # s
        BY <2>1 DEF told, BeingTold
      <3>3. target[s] = t
        BY <2>1, <3>1, <3>2
      <3>4. sender[s] \in Thread
        BY DEF IInv, CoreType
      <3> QED BY <2>1, <3>1, <3>3, <3>4 DEF PlainType
    <2>4. Alert(stack[t], told', wakeup'[t])
      BY <2>2, <2>3, AlertTold DEF Alerts
    <2>5. PICK x : ServedAs(t, stack[t], x)
      BY <1>12, TellSenderIs
    <2>6. Alert(x, told', wakeup'[t])
      BY <2>2, <2>4, <2>5 DEF ServedAs
    <2> QED BY <2>2, <2>3, <2>5, <2>6, AlertsSet DEF ServedAs
  <1>3. ASSUME NEW t \in Thread, PushSend(t) PROVE Alerts'
    <2>1. /\ stack[t] # <<>> /\ stack' = [stack EXCEPT ![t] = Goto(stack[t], "wake")]
          /\ told' = told /\ Signalled /\ wakeup' = wakeup
      BY <1>3, QuietSteps DEF PushSend, Running
    <2>2. stack[t] \in Seq(Frame) /\ Alert(stack[t], told, wakeup[t])
      BY <2>1, TopIs DEF Alerts
    <2>3. Alert(Goto(stack[t], "wake"), told, wakeup[t])
      BY <1>0, <2>1, <2>2, AlertGoto DEF Ats, Asleep
    <2> QED BY <2>1, <2>3, AlertsSet
  <1>4. ASSUME NEW t \in Thread, WakeTarget(t) PROVE Alerts'
    <2>1. /\ stack[t] # <<>> /\ stack' = [stack EXCEPT ![t] = Goto(stack[t], "check")]
          /\ told' = told /\ Signalled
      BY <1>4, QuietSteps DEF WakeTarget, Running
    <2>2. wakeup' = [wakeup EXCEPT ![target[Top(t).id]] = TRUE]
      BY <1>4 DEF WakeTarget
    <2>3. wakeup'[t] \in BOOLEAN /\ \A u \in Thread : wakeup[u] => wakeup'[u]
      BY <2>2 DEF PlainType
    <2>4. Signalled
      BY <2>1
    <2>5. stack[t] \in Seq(Frame) /\ Alert(stack[t], told', wakeup'[t])
      BY <2>1, <2>3, <2>4, TopIs, AlertTold DEF Alerts
    <2>6. Alert(Goto(stack[t], "check"), told', wakeup'[t])
      BY <2>1, <2>3, <2>5, AlertGoto DEF Ats, Asleep
    <2> QED BY <2>1, <2>3, <2>4, <2>6, AlertsSet
  <1>5. ASSUME NEW t \in Thread, CheckReady(t) PROVE Alerts'
    <2>1. stack[t] # <<>> /\ Top(t).kind = "send" /\ told' = told /\ Signalled
      BY <1>5, QuietSteps DEF CheckReady, Running
    <2>2. /\ stack[t] \in Seq(Frame) /\ Top(t) = Last(stack[t])
          /\ Alert(stack[t], told, wakeup[t])
      BY <2>1, TopIs DEF Alerts
    <2>3. CASE ready[Top(t).id]
      <3>1. /\ stack' = [stack EXCEPT ![t] = Pop(stack[t])]
            /\ wakeup' = [wakeup EXCEPT ![t] = wakeup[t] \/ Top(t).waited]
        BY <1>5, <2>3 DEF CheckReady
      <3>2. /\ wakeup'[t] <=> wakeup[t] \/ Top(t).waited
            /\ \A u \in Thread : u # t => wakeup'[u] = wakeup[u]
        BY <3>1 DEF PlainType
      <3>3. wakeup'[t] \in BOOLEAN
        <4>1. (wakeup[t] \/ Top(t).waited) \in BOOLEAN
          OBVIOUS
        <4> QED BY <3>1, <4>1 DEF PlainType
      <3>4. Alert(Pop(stack[t]), told, wakeup'[t])
        BY <1>0, <2>1, <2>2, <3>2, <3>3, AlertPop
      <3> QED BY <2>1, <3>1, <3>2, <3>4, AlertsSet
    <2>4. CASE ~ready[Top(t).id]
      <3>1. stack' = [stack EXCEPT ![t] = Goto(stack[t], "receive")] /\ wakeup' = wakeup
        BY <1>5, <2>4 DEF CheckReady
      <3>3. Top(t).id \in SendId
        BY <2>1, TopIs, BoundsAssumption DEF IInv, CoreType, SendId
      <3>4. ~told[Top(t).id]
        BY <2>4, <3>3 DEF told
      <3>2. Alert(Goto(stack[t], "receive"), told, wakeup[t])
        BY <1>0, <2>1, <2>2, <3>4, AlertGoto DEF Ats
      <3> QED BY <2>1, <3>1, <3>2, AlertsSet
    <2> QED BY <2>3, <2>4
  <1>6. ASSUME NEW t \in Thread, Wait(t) PROVE Alerts'
    <2>1. /\ stack[t] # <<>> /\ Top(t).at = "wait" /\ told' = told /\ Signalled
          /\ wakeup' = [wakeup EXCEPT ![t] = FALSE]
      BY <1>6, QuietSteps DEF Wait
    <2>2. \A u \in Thread : u # t /\ wakeup[u] => wakeup'[u]
      BY <2>1
    <2>3. stack[t] \in Seq(Frame) /\ Top(t) = Last(stack[t]) /\ WellStacked(stack[t])
      BY <2>1, TopIs, OneStack
    <2>4. CASE Top(t).kind = "loop" /\ stack' = [stack EXCEPT ![t] = Goto(stack[t], "receive")]
      <3> DEFINE g == Goto(stack[t], "receive")
      <3>1. /\ DOMAIN g = DOMAIN stack[t]
            /\ \A i \in DOMAIN stack[t] : g[i].kind = stack[t][i].kind
        BY <2>1, <2>3, GotoIs DEF Ats
      <3>2. DOMAIN stack[t] = {1}
        BY <2>1, <2>3, <2>4, TopOfStack, StackIs
      <3>3. \A i \in DOMAIN g : g[i].kind = "loop"
        BY <2>3, <3>1, <3>2 DEF WellStacked
      <3> HIDE DEF g
      <3>4. Alert(g, told', wakeup'[t])
        BY <3>3 DEF Alert
      <3> QED BY <2>1, <2>2, <2>4, <3>4, AlertsSet DEF g
    <2>5. CASE Top(t).kind = "send"
               /\ stack' = [stack EXCEPT ![t] = Waited(Goto(stack[t], "check"), TRUE)]
      <3> DEFINE g == Goto(stack[t], "check")
      <3>1. g \in Seq(Frame) /\ g # <<>> /\ Last(g).at = "check" /\ Last(g).kind = "send"
        BY <2>1, <2>3, <2>5, GotoIs, StackIs DEF Ats
      <3> HIDE DEF g
      <3>2. Alert(Waited(g, TRUE), told', wakeup'[t])
        BY <3>1, AlertWaited DEF Asleep
      <3> QED BY <2>1, <2>2, <2>5, <3>2, AlertsSet DEF g
    <2> QED BY <1>6, <2>4, <2>5, WaitIs
  <1>7. ASSUME NEW t \in Thread, Get(t) PROVE Alerts'
    <2>1. stack[t] # <<>> /\ Top(t).kind = "loop" /\ told' = told /\ Signalled /\ wakeup' = wakeup
      BY <1>7, QuietSteps DEF Get, Running
    <2>2. /\ stack[t] \in Seq(Frame) /\ Last(stack[t]).kind = "loop" /\ Shape(stack[t])
          /\ Alert(stack[t], told, wakeup[t])
      BY <2>1, TopIs DEF Alerts
    <2>3. ASSUME NEW x, stack' = [stack EXCEPT ![t] = x], Alert(x, told, wakeup[t])
          PROVE  Alerts'
      BY <2>1, <2>3, AlertsSet
    <2>4. Alert(Append(Goto(stack[t], "receive"), Handler(0)), told, wakeup[t])
      BY <1>0, <2>1, <2>2, GetStacks
    <2>5. Alert(<<>>, told, wakeup[t])
      BY DEF Alert
    <2>6. Alert(Goto(stack[t], "wait"), told, wakeup[t])
      BY <1>0, <2>1, <2>2, AlertGoto DEF Ats
    <2> QED BY <1>7, <2>3, <2>4, <2>5, <2>6, GetIs
  <1>8. ASSUME NEW t \in Thread, NEW u \in Thread, Send(t, u) PROVE Alerts'
    <2>1. PICK f \in Frame : /\ stack' = [stack EXCEPT ![t] = Append(stack[t], f)]
                             /\ f.at \in {"run", "push"}
      BY <1>8, SendIs
    <2>2. told' = told /\ Signalled /\ wakeup' = wakeup
      BY <1>8, QuietSend DEF Send
    <2>3. stack[t] \in Seq(Frame) /\ Alert(stack[t], told, wakeup[t])
      BY OneStack DEF Alerts
    <2>4. Alert(Append(stack[t], f), told, wakeup[t])
      BY <1>0, <2>1, <2>3, AlertAppend DEF Asleep
    <2> QED BY <2>1, <2>2, <2>4, AlertsSet
  <1>9. ASSUME NEW u \in Thread, Post(u) \/ Quit(u) PROVE Alerts'
    <2>1. stack' = stack /\ told' = told /\ Signalled /\ \A v \in Thread : wakeup[v] => wakeup'[v]
      BY <1>9, QuietSteps DEF Post, Quit, PlainType
    <2> QED BY <2>1, AlertsStill
  <1>10. ASSUME NEW u \in Thread, ClearHandler(u) \/ Destroy(u) PROVE Alerts'
    BY <1>10, ClearShrinks, AlertsStill
  <1>11. CASE UNCHANGED vars
    <2>1. stack' = stack /\ told' = told /\ Signalled /\ wakeup' = wakeup
      BY <1>11, NobodyTold DEF vars
    <2> QED BY <2>1, AlertsStill
  <1> QED BY <1>1, <1>2, <1>3, <1>4, <1>5, <1>6, <1>7, <1>8, <1>9, <1>10, <1>11, <1>12
       DEF Next, Step

LEMMA ListeningKeeps ==
    ASSUME IInv, PlainType, Shapes, Known, Listening, [Next]_vars
    PROVE  Listening'
  \* A step that adds to no list and puts x on the stack.
  <1>1. ASSUME NEW t \in Thread, NEW x, Step(t), stack' = [stack EXCEPT ![t] = x],
               ~Running(t, "send", "wake"),
               x # <<>> /\ Last(x).at \in {"queue", "wait"} =>
                 \/ sendlist[t] = <<>>
                 \/ /\ ~wakeup'[t] => ~wakeup[t]
                    /\ stack[t] # <<>> /\ Top(t).at = "queue",
               \A u \in Thread : ToSet(sendlist'[u]) \subseteq ToSet(sendlist[u])
        PROVE  Listening'
    <2>1. \A u \in Thread : u # t => (wakeup[u] => wakeup'[u])
      BY <1>1, SignalsStay
    <2>2. sender' = sender
      BY <1>1 DEF Step, ReceiveSends, HandlerReturns, TellSender, PushSend, WakeTarget,
                  CheckReady, Wait, Get, Others
    <2>3. ASSUME x # <<>>, Last(x).at \in {"queue", "wait"}, ~wakeup'[t],
                 NEW s \in ToSet(sendlist'[t])
          PROVE  s \in ToSet(sendlist[t]) /\ Waking(s)
      <3>1. s \in ToSet(sendlist[t])
        BY <1>1
      <3>2. sendlist[t] # <<>>
        BY <3>1 DEF ToSet
      <3> QED BY <1>1, <2>3, <3>1, <3>2 DEF Listening
    <2> QED BY <1>1, <2>1, <2>2, <2>3, ListeningQuiet
  <1>2. ASSUME NEW t \in Thread, ReceiveSends(t) PROVE Listening'
    <2>1. PICK x : ServedAs(t, stack[t], x)
      BY <1>2, ReceiveSendsIs
    <2>2. ~Running(t, "send", "wake") /\ Step(t)
      BY <1>2 DEF ReceiveSends, Running, Step
    <2>3. \A u \in Thread : ToSet(sendlist'[u]) \subseteq ToSet(sendlist[u])
      BY <1>2, ReceiveSendsIs DEF ListsShrink
    <2> QED BY <1>1, <2>1, <2>2, <2>3 DEF ServedAs
  <1>3. ASSUME NEW t \in Thread, HandlerReturns(t) PROVE Listening'
    <2>1. /\ ~Running(t, "send", "wake") /\ Step(t) /\ stack[t] # <<>>
          /\ stack' = [stack EXCEPT ![t] = Pop(stack[t])] /\ sendlist' = sendlist
      BY <1>3 DEF HandlerReturns, Running, Step
    <2>2. Pop(stack[t]) # <<>> => Last(Pop(stack[t])).at \notin {"queue", "wait"}
      BY <2>1, TopIs, ShapePop
    <2> QED BY <1>1, <2>1, <2>2
  <1>13. ASSUME NEW t \in Thread, TellSender(t) PROVE Listening'
    <2>1. PICK x : ServedAs(t, stack[t], x)
      BY <1>13, TellSenderIs
    <2>2. ~Running(t, "send", "wake") /\ Step(t)
      BY <1>13 DEF TellSender, Running, Step
    <2>3. \A u \in Thread : ToSet(sendlist'[u]) \subseteq ToSet(sendlist[u])
      BY <1>13, TellSenderIs DEF ListsShrink
    <2> QED BY <1>1, <2>1, <2>2, <2>3 DEF ServedAs
  <1>4. ASSUME NEW t \in Thread, PushSend(t) PROVE Listening'
    <2>0. stack[t] # <<>> /\ Top(t).kind = "send" /\ Top(t).at = "push"
      BY <1>4 DEF PushSend, Running
    <2>a. PICK s \in 1..sends : s = Top(t).id /\ sender[s] = t
      BY <2>0, TopIs
    <2> DEFINE u == target[s]
               x == Goto(stack[t], "wake")
    <2>1. /\ stack[t] # <<>> /\ Top(t).kind = "send" /\ Top(t).at = "push"
          /\ stack' = [stack EXCEPT ![t] = x]
          /\ sendlist' = [sendlist EXCEPT ![u] = Append(sendlist[u], s)]
          /\ wakeup' = wakeup /\ sender' = sender
      BY <1>4, <2>0, <2>a DEF PushSend, Others
    <2>2. s \in 1..sends /\ s \in SendId /\ sender[s] = t /\ u \in Thread
      <3>1. s \in SendId
        BY BoundsAssumption DEF IInv, CoreType, SendId
      <3> QED BY <2>a, <3>1 DEF IInv, CoreType
    <2>3. /\ x # <<>> /\ Last(x).at = "wake" /\ Last(x).kind = "send" /\ Last(x).id = s
          /\ stack'[t] = x
      <3>1. stack[t] \in Seq(Frame) /\ Top(t) = Last(stack[t])
        BY <2>1, TopIs
      <3>2. /\ x # <<>> /\ Last(x).at = "wake" /\ Last(x).kind = "send" /\ Last(x).id = s
        BY <2>1, <2>a, <3>1, GotoIs, StackIs DEF Ats
      <3> HIDE DEF x
      <3>3. stack'[t] = x
        BY <2>1 DEF IInv, CoreType
      <3> QED BY <3>2, <3>3
    <2>4. Waking(s)'
      <3> HIDE DEF x
      <3>1. sender'[s] = t
        BY <2>1, <2>2
      <3> QED BY <2>3, <3>1 DEF Waking, Running, Top
    <2>5. ASSUME NEW v \in Thread, NEW r \in ToSet(sendlist'[v]), r # s
          PROVE  r \in ToSet(sendlist[v]) /\ (Waking(r) => Waking(r)')
      <3> HIDE DEF u
      <3>1. sendlist \in [Thread -> Seq(SendId)] /\ NoTwice(sendlist[v])
        BY DEF IInv, CoreType, Listed
      <3>2. r \in ToSet(sendlist[v])
        <4>1. CASE v = u
          <5>1. sendlist'[v] = Append(sendlist[v], s)
            BY <2>1, <3>1, <4>1
          <5>2. sendlist[v] \in Seq(SendId)
            BY <3>1
          <5>3. PICK i \in DOMAIN sendlist'[v] : sendlist'[v][i] = r
            BY DEF ToSet
          <5>4. i # Len(sendlist[v]) + 1 /\ i \in 1..(Len(sendlist[v]) + 1)
            BY <2>2, <2>5, <5>1, <5>2, <5>3
          <5>5. i \in DOMAIN sendlist[v] /\ sendlist[v][i] = r
            BY <2>2, <5>1, <5>2, <5>3, <5>4
          <5> QED BY <5>5 DEF ToSet
        <4>2. CASE v # u
          BY <2>1, <4>2
        <4> QED BY <4>1, <4>2
      <3>3. r \in 1..sends
        BY <3>2, ListedAre
      <3>4. ~Running(t, "send", "wake") /\ sender'[r] = sender[r]
        BY <2>1 DEF Running
      <3> HIDE DEF x
      <3>5. Waking(r) => Waking(r)'
        BY <2>1, <3>3, <3>4, WakingKeeps
      <3> QED BY <3>2, <3>5
    <2>6. \A v \in Thread : \A r \in ToSet(sendlist'[v]) :
            Waking(r)' \/ (r \in ToSet(sendlist[v]) /\ (Waking(r) => Waking(r)'))
      BY <2>4, <2>5
    <2>7. Last(x).at \notin {"queue", "wait"}
      BY <2>3
    <2> HIDE DEF x, u
    <2> QED BY <2>1, <2>6, <2>7, ListeningSet
  <1>5. ASSUME NEW t \in Thread, WakeTarget(t) PROVE Listening'
    <2> DEFINE s == Top(t).id
               x == Goto(stack[t], "check")
    <2>1. /\ stack[t] # <<>> /\ Top(t).kind = "send"
          /\ stack' = [stack EXCEPT ![t] = x]
          /\ wakeup' = [wakeup EXCEPT ![target[s]] = TRUE]
          /\ sendlist' = sendlist /\ sender' = sender
      BY <1>5 DEF WakeTarget, Running, Others
    <2>2. \A u \in Thread : wakeup[u] => wakeup'[u]
      BY <2>1 DEF PlainType
    <2>3. Last(x).at = "check"
      BY <2>1, TopIs, GotoIs, StackIs DEF Ats
    <2> HIDE DEF x
    <2>4. ASSUME NEW u \in Thread, ~wakeup'[u], NEW r \in ToSet(sendlist'[u]), Waking(r)
          PROVE  r \in ToSet(sendlist[u]) /\ Waking(r)'
      <3>1. r \in ToSet(sendlist[u])
        BY <2>1
      <3>2. r \in 1..sends /\ target[r] = u
        BY <3>1, ListedAre
      <3>3. sender[r] # t
        <4>1. SUFFICES ASSUME sender[r] = t PROVE FALSE
          OBVIOUS
        <4>2. s = r
          BY <2>4, <4>1 DEF Waking
        <4>3. wakeup'[u]
          BY <2>1, <3>2, <4>2 DEF PlainType
        <4> QED BY <2>4, <4>3
      <3>4. Waking(r)'
        BY <2>1, <2>4, <3>2, <3>3, WakingKeeps
      <3> QED BY <3>1, <3>4
    <2>5. \A u \in Thread : u # t /\ ~wakeup'[u] =>
            \A r \in ToSet(sendlist'[u]) :
              Waking(r)' \/ (r \in ToSet(sendlist[u]) /\ (Waking(r) => Waking(r)'))
      BY <2>1, <2>4
    <2> QED BY <2>1, <2>2, <2>3, <2>5, ListeningSet
  <1>6. ASSUME NEW t \in Thread, CheckReady(t) PROVE Listening'
    <2>1. /\ stack[t] # <<>> /\ ~Running(t, "send", "wake") /\ Step(t) /\ sendlist' = sendlist
          /\ \/ stack' = [stack EXCEPT ![t] = Goto(stack[t], "receive")]
             \/ stack' = [stack EXCEPT ![t] = Pop(stack[t])]
      BY <1>6 DEF CheckReady, Running, Step
    <2>2. Pop(stack[t]) # <<>> => Last(Pop(stack[t])).at \notin {"queue", "wait"}
      BY <2>1, TopIs, ShapePop
    <2>3. Last(Goto(stack[t], "receive")).at = "receive"
      BY <2>1, TopIs, GotoIs, StackIs DEF Ats
    <2> QED BY <1>1, <2>1, <2>2, <2>3
  <1>7. ASSUME NEW t \in Thread, Wait(t) PROVE Listening'
    <2>1. stack[t] # <<>> /\ ~Running(t, "send", "wake") /\ Step(t) /\ sendlist' = sendlist
      BY <1>7 DEF Wait, Running, Step
    <2>2. CASE stack' = [stack EXCEPT ![t] = Goto(stack[t], "receive")]
      <3>1. Last(Goto(stack[t], "receive")).at = "receive"
        BY <2>1, TopIs, GotoIs, StackIs DEF Ats
      <3> QED BY <1>1, <2>1, <2>2, <3>1
    <2>3. CASE stack' = [stack EXCEPT ![t] = Waited(Goto(stack[t], "check"), TRUE)]
      <3> DEFINE g == Goto(stack[t], "check")
      <3>1. g \in Seq(Frame) /\ g # <<>> /\ Last(g).at = "check"
        BY <2>1, TopIs, GotoIs, StackIs DEF Ats
      <3>2. stack' = [stack EXCEPT ![t] = Waited(g, TRUE)]
        BY <2>3
      <3> HIDE DEF g
      <3>3. Last(Waited(g, TRUE)).at = "check"
        <4>1. Len(g) \in DOMAIN g /\ g[Len(g)].at = "check"
          BY <3>1, StackIs
        <4>2. Last(Waited(g, TRUE)) = Waited(g, TRUE)[Len(g)]
          BY <3>1, WaitedIs
        <4>3. Waited(g, TRUE)[Len(g)].at = g[Len(g)].at
          BY <3>1, <4>1, WaitedIs
        <4> QED BY <4>1, <4>2, <4>3
      <3> QED BY <1>1, <2>1, <3>2, <3>3
    <2> QED BY <1>7, <2>2, <2>3, WaitIs
  <1>8. ASSUME NEW t \in Thread, Get(t) PROVE Listening'
    <2>1. /\ stack[t] # <<>> /\ Top(t).kind = "loop" /\ Top(t).at = "queue"
          /\ ~Running(t, "send", "wake") /\ Step(t) /\ sendlist' = sendlist /\ wakeup' = wakeup
      BY <1>8 DEF Get, Running, Step
    <2>2. CASE stack' = [stack EXCEPT ![t] = Append(Goto(stack[t], "receive"), Handler(0))]
      <3>1. Last(Append(Goto(stack[t], "receive"), Handler(0))).at = "run"
        BY <2>1, TopIs, GetStacks
      <3> QED BY <1>1, <2>1, <2>2, <3>1
    <2>3. CASE stack' = [stack EXCEPT ![t] = <<>>]
      BY <1>1, <2>1, <2>3
    <2>4. CASE stack' = [stack EXCEPT ![t] = Goto(stack[t], "wait")]
      BY <1>1, <2>1, <2>4
    <2> QED BY <1>8, <2>2, <2>3, <2>4, GetIs
  <1>9. ASSUME NEW t \in Thread, NEW u \in Thread, Send(t, u) PROVE Listening'
    <2>1. PICK f \in Frame : /\ stack' = [stack EXCEPT ![t] = Append(stack[t], f)]
                             /\ f.at \in {"run", "push"}
      BY <1>9, SendIs
    <2>2. Last(Append(stack[t], f)).at \notin {"queue", "wait"}
      BY <2>1, OneStack, AppendIs
    <2>3. wakeup' = wakeup /\ sendlist' = sendlist /\ ~Running(t, "send", "wake")
      BY <1>9 DEF Send, Running
    <2>4. \A s \in 1..sends : sender'[s] = sender[s]
      <3>1. sender' = sender \/ sender' = [sender EXCEPT ![sends + 1] = t]
        BY <1>9 DEF Send
      <3>2. sends \in Nat /\ sender \in [SendId -> Thread]
        BY BoundsAssumption DEF IInv, CoreType
      <3>3. \A s \in 1..sends : s # sends + 1 /\ s \in SendId
        BY BoundsAssumption DEF IInv, CoreType, SendId
      <3> QED BY <3>1, <3>2, <3>3
    <2> QED BY <2>1, <2>2, <2>3, <2>4, ListeningQuiet
  <1>10. ASSUME NEW u \in Thread, Post(u) \/ Quit(u) PROVE Listening'
    <2>1. /\ stack' = stack /\ sender' = sender /\ sendlist' = sendlist
          /\ \A v \in Thread : wakeup[v] => wakeup'[v]
      BY <1>10 DEF Post, Quit, PlainType, Others
    <2> QED BY <2>1, ListeningStill
  <1>11. ASSUME NEW u \in Thread, ClearHandler(u) \/ Destroy(u) PROVE Listening'
    BY <1>11, ClearShrinks, ListeningStill
  <1>12. CASE UNCHANGED vars
    <2>1. stack' = stack /\ sender' = sender /\ sendlist' = sendlist /\ wakeup' = wakeup
      BY <1>12 DEF vars
    <2> QED BY <2>1, ListeningStill
  <1> QED BY <1>2, <1>3, <1>4, <1>5, <1>6, <1>7, <1>8, <1>9, <1>10, <1>11, <1>12,
       <1>13 DEF Next, Step

-----------------------------------------------------------------------------
(* The theorems *)

LEMMA WakesStart ==
    ASSUME Init
    PROVE  WInv
  <1>1. /\ \A t \in Thread : stack[t] = <<Loop>> /\ sendlist[t] = <<>>
        /\ Loop.kind = "loop" /\ Loop.at = "receive"
    BY DEF Init, Loop, FrameOf
  <1>2. /\ DOMAIN <<Loop>> = {1} /\ Len(<<Loop>>) = 1 /\ <<Loop>>[1] = Loop
        /\ Last(<<Loop>>) = Loop
    BY DEF Last
  <1>3. Shapes /\ Alerts /\ Nested
    BY <1>1, <1>2 DEF Shapes, Shape, Alerts, Alert, Nested, Rising
  <1>6. Tells
    BY DEF Init, Tells
  <1>4. Known
    BY <1>1 DEF Known
  <1>5. Listening /\ Idle
    BY <1>1, <1>2 DEF Listening, Idle, Top
  <1> QED BY <1>3, <1>4, <1>5, <1>6 DEF WInv

LEMMA WakesAlways == Spec => [](IInv /\ WInv)
  <1>1. IInv /\ PlainType /\ WInv /\ [Next]_vars => WInv'
    BY ShapesKeep, TellsKeep, KnownKeeps, ListeningKeeps, AlertsKeep, IdleKeeps, NestedKeeps DEF WInv
  <1> QED BY <1>1, WakesStart, Always, PTL DEF Spec

LEMMA NothingMissed ==
    ASSUME IInv, WInv
    PROVE  NoLostWakeup
  <1> SUFFICES ASSUME NEW t \in Thread, stack[t] # <<>>, Top(t).at = "wait", ~wakeup[t]
               PROVE  /\ \A i \in DOMAIN sendlist[t] :
                            Running(sender[sendlist[t][i]], "send", "wake")
                      /\ IF Top(t).kind = "loop" THEN posted[t] = 0 /\ ~fStop[t]
                         ELSE ready[Top(t).id] => BeingTold(Top(t).id)
    BY DEF NoLostWakeup
  <1>1. \A i \in DOMAIN sendlist[t] : Running(sender[sendlist[t][i]], "send", "wake")
    BY DEF WInv, Listening, Waking, ToSet
  <1>2. CASE Top(t).kind = "loop"
    BY <1>1, <1>2 DEF WInv, Idle
  <1>3. CASE Top(t).kind # "loop"
    <2>1. Shapes /\ Alert(stack[t], told, wakeup[t])
      BY DEF WInv, Alerts
    <2>2. Top(t).kind = "send" /\ stack[t] \in Seq(Frame) /\ Top(t) = Last(stack[t])
      BY <1>3, <2>1, TopIs
    <2>3. /\ Len(stack[t]) \in DOMAIN stack[t] /\ Top(t) = stack[t][Len(stack[t])]
          /\ \A j \in DOMAIN stack[t] : ~(Len(stack[t]) < j)
      BY <2>2, StackIs
    <2>4. ~told[Top(t).id]
      BY <2>1, <2>2, <2>3 DEF Alert
    <2>5. Top(t).id \in SendId
      <3>1. Top(t).id \in 1..sends
        BY <2>1, <2>2, TopIs
      <3> QED BY <3>1, BoundsAssumption DEF IInv, CoreType, SendId
    <2>6. ready[Top(t).id] => BeingTold(Top(t).id)
      BY <2>4, <2>5 DEF told
    <2> QED BY <1>1, <1>3, <2>6
  <1> QED BY <1>2, <1>3

\* A thread sleeps only while nothing is there for it: every send on its list
\* is about to signal it, its loop has nothing to dispatch, and a send of it
\* is not answered, or whoever answered it is about to signal it.  Nested sends
\* take each other's signals and give them back.
THEOREM NoWakeupIsLost == Spec => []NoLostWakeup
  BY NothingMissed, WakesAlways, PTL

LEMMA Largest ==
    ASSUME NEW n \in Nat, NEW M \in SUBSET (1..n), M # {}
    PROVE  \E m \in M : \A k \in M : k <= m
  <1> DEFINE T == {n - k : k \in M}
  <1>1. T \subseteq Nat /\ T # {}
    <2>1. \A k \in M : n - k \in Nat
      <3>1. \A k \in 1..n : n - k \in Nat
        OBVIOUS
      <3> QED BY <3>1
    <2>2. PICK k \in M : TRUE
      OBVIOUS
    <2> QED BY <2>1, <2>2
  <1> DEFINE R == OpToRel(<, Nat)
  <1>2. IsWellFoundedOn(R, Nat)
    BY NatLessThanWellFounded
  <1>3. \A x, y \in Nat : y < x => <<y, x>> \in R
    BY DEF OpToRel
  <1> HIDE DEF R
  <1>4. PICK x \in T : \A y \in T : ~(<<y, x>> \in R)
    BY <1>1, <1>2, WFMin
  <1>5. \A y \in T : ~(y < x)
    BY <1>1, <1>3, <1>4
  <1>6. PICK m \in M : x = n - m
    BY <1>4
  <1>7. \A k \in M : n - k \in T
    OBVIOUS
  <1> HIDE DEF T
  <1>8. \A k \in M : k <= m
    BY <1>5, <1>6, <1>7
  <1> QED BY <1>8

\* A thread that waits for a thread that sleeps waits for a younger send: its
\* own is not on the list of the sleeper, so its handler is below a send there.
LEMMA WaitsForYounger ==
    ASSUME IInv, WInv, NEW t \in Thread, Sleeping(t), Top(t).kind = "send",
           Sleeping(target[Top(t).id])
    PROVE  LET u == target[Top(t).id] IN
           Top(u).kind = "send" /\ Top(t).id < Top(u).id
  <1> DEFINE m == Top(t).id
             u == target[m]
             st == stack[u]
  <1>1. NoLostWakeup /\ Shapes /\ Nested
    BY NothingMissed DEF WInv
  <1>2. m \in 1..sends /\ sender[m] = t /\ u \in Thread
    <2>1. m \in 1..sends /\ sender[m] = t
      BY <1>1, TopIs DEF Sleeping
    <2>2. 1..sends \subseteq SendId
      BY BoundsAssumption DEF IInv, CoreType, SendId
    <2> QED BY <2>1, <2>2 DEF IInv, CoreType
  <1>3. Pushed(m) /\ ~ready[m]
    <2>1. stack[t] \in Seq(Frame) /\ stack[t] # <<>> /\ Top(t) = Last(stack[t])
      BY <1>1, TopIs DEF Sleeping
    <2>2. m \in PushedIn(stack[t])
      BY <2>1, StackIs DEF PushedIn, Sleeping
    <2>3. ~ready[m]
      <3>1. ready[m] => BeingTold(m)
        BY <1>1 DEF NoLostWakeup, Sleeping
      <3>2. telling[u] = 0
        BY <1>2 DEF WInv, Tells, Sleeping
      <3>3. m # 0
        BY <1>2
      <3> QED BY <3>1, <3>2, <3>3 DEF BeingTold
    <2> QED BY <1>2, <2>2, <2>3 DEF Pushed
  <1>4. ~Queued(m)
    <2>1. SUFFICES ASSUME Queued(m) PROVE FALSE
      OBVIOUS
    <2>2. PICK i \in DOMAIN sendlist[u] : sendlist[u][i] = m
      BY <2>1 DEF Queued, ToSet
    <2>3. Running(t, "send", "wake")
      BY <1>1, <1>2, <2>2 DEF NoLostWakeup, Sleeping
    <2> QED BY <2>3 DEF Running, Sleeping
  <1>5. InHandler(m)
    BY <1>2, <1>3, <1>4 DEF IInv, Placed
  <1>6. PICK i \in DOMAIN st : st[i].kind = "handler" /\ st[i].id = m
    BY <1>5 DEF InHandler, HandledIn
  <1>7. /\ st \in Seq(Frame) /\ st # <<>> /\ Top(u) = Last(st) /\ WellStacked(st) /\ Shape(st)
        /\ Top(u).kind \in {"loop", "handler", "send"}
        /\ Top(u).kind # "handler"
    BY <1>1, <1>2, TopIs, OneStack DEF Sleeping
  <1> HIDE DEF m, st, u
  <1>8. DOMAIN st = 1..Len(st) /\ Len(st) \in Nat \ {0} /\ Top(u) = st[Len(st)]
    BY <1>7, StackIs
  <1>9. Top(u).kind = "send"
    <2>1. \A k \in DOMAIN st : st[k].kind = "loop" <=> k = 1
      BY <1>7 DEF WellStacked
    <2>2. SUFFICES ASSUME Top(u).kind = "loop" PROVE FALSE
      BY <1>7
    <2>3. Len(st) = 1
      BY <1>8, <2>1, <2>2
    <2>4. i = 1
      BY <1>6, <1>8, <2>3
    <2> QED BY <1>6, <2>1, <2>4
  <1>10. i < Len(st)
    <2>1. i # Len(st)
      BY <1>6, <1>8, <1>9
    <2> QED BY <1>8, <2>1
  <1>11. m < Top(u).id
    <2>1. Rising(st)
      BY <1>1, <1>2 DEF Nested, st
    <2> QED BY <1>6, <1>8, <1>9, <1>10, <2>1 DEF Rising
  <1> QED BY <1>9, <1>11 DEF m, u

\* Among threads that sleep and wait only for each other there is no send: the
\* youngest of their sends would wait for a younger one.
THEOREM NobodyWaitsInACircle == Spec => []NoDeadlock
  <1>1. ASSUME IInv, WInv PROVE NoDeadlock
    <2> SUFFICES ASSUME NEW S \in SUBSET {t \in Thread : Sleeping(t)},
                        \A t \in S : Top(t).kind = "send" => target[Top(t).id] \in S,
                        NEW t \in S, Top(t).kind # "loop"
                 PROVE  FALSE
      BY DEF NoDeadlock
    <2> DEFINE M == {Top(v).id : v \in {w \in S : Top(w).kind = "send"}}
    <2>1. Top(t).kind = "send"
      BY <1>1, TopIs DEF WInv, Sleeping
    <2>2. M # {}
      BY <2>1
    <2>3. M \in SUBSET (1..sends) /\ sends \in Nat
      <3>1. \A v \in S : Top(v).kind = "send" => Top(v).id \in 1..sends
        BY <1>1, TopIs DEF WInv, Sleeping
      <3>2. M \subseteq 1..sends
        BY <3>1
      <3> QED BY <1>1, <3>2, BoundsAssumption DEF IInv, CoreType
    <2>4. PICK m \in M : \A k \in M : k <= m
      BY <2>2, <2>3, Largest
    <2>5. PICK v \in S : Top(v).kind = "send" /\ Top(v).id = m
      BY <2>4
    <2> DEFINE u == target[Top(v).id]
    <2>6. u \in S
      BY <2>5
    <2>7. Top(u).kind = "send" /\ m < Top(u).id
      BY <1>1, <2>5, <2>6, WaitsForYounger
    <2>8. Top(u).id \in M
      BY <2>6, <2>7
    <2> HIDE DEF M, u
    <2>9. Top(u).id <= m
      BY <2>4, <2>8
    <2>10. \A k \in M : k \in Nat
      BY <2>3
    <2>11. m \in Nat /\ Top(u).id \in Nat
      BY <2>8, <2>10
    <2>12. \A k, n \in Nat : k <= n => ~(n < k)
      OBVIOUS
    <2> QED BY <2>7, <2>9, <2>11, <2>12
  <1> QED BY <1>1, WakesAlways, PTL

=============================================================================
