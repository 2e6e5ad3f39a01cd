-------------------------- MODULE ThreadSendProofs --------------------------
(***************************************************************************)
(* Theorems about ThreadSend, for every set of threads and every bound.    *)
(***************************************************************************)
EXTENDS ThreadSend, FiniteSetTheorems, TLAPS

(* The inductive invariant.  It says of each send in which stack and on which *)
(* list it may be, and of each stack how its frames lie.                      *)

\* The sends of a stack that are pushed, and those that are not yet; the sends
\* it has the handlers of.
PushedIn(st) == {st[i].id : i \in {k \in DOMAIN st : st[k].kind = "send" /\ st[k].at # "push"}}
UnpushedIn(st) == {st[i].id : i \in {k \in DOMAIN st : st[k].kind = "send" /\ st[k].at = "push"}}
HandledIn(st) == {st[i].id : i \in {k \in DOMAIN st : st[k].kind = "handler" /\ st[k].id # 0}}

\* The loop is at the bottom, a frame that is about to push is on top, and no
\* send and no handler is there twice.
WellStacked(st) ==
    /\ \A i \in DOMAIN st : st[i].kind = "loop" <=> i = 1
    /\ \A i \in DOMAIN st : st[i].kind = "send" /\ st[i].at = "push" => i = Len(st)
    /\ \A i, j \in DOMAIN st :
         st[i].kind = st[j].kind /\ st[i].id = st[j].id /\ st[i].id # 0 => i = j
    /\ \A i \in DOMAIN st : st[i].kind = "send" => st[i].id # 0

Stacks == \A t \in Thread : WellStacked(stack[t])

NoTwice(q) == \A i, j \in DOMAIN q : q[i] = q[j] => i = j

Listed == \A u \in Thread : NoTwice(sendlist[u])

\* Frames and lists are about sends that were made by, or for, their thread.
Owned ==
    \A t \in Thread :
        /\ \A s \in PushedIn(stack[t]) \cup UnpushedIn(stack[t]) :
              s \in 1..sends /\ sender[s] = t
        /\ \A s \in HandledIn(stack[t]) \cup ToSet(sendlist[t]) :
              s \in 1..sends /\ target[s] = t

Pushed(s) == s \in PushedIn(stack[sender[s]])
Unpushed(s) == s \in UnpushedIn(stack[sender[s]])
InHandler(s) == s \in HandledIn(stack[target[s]])

Placed ==
    \A s \in 1..sends :
        /\ Queued(s) => Pushed(s) /\ ~InHandler(s) /\ ~ready[s]
        /\ InHandler(s) => Pushed(s) /\ ~ready[s]
        /\ Pushed(s) => Queued(s) \/ InHandler(s) \/ ready[s]
        /\ Unpushed(s) => ~Pushed(s) /\ ~ready[s]

Fresh == \A s \in SendId : s > sends => ~ready[s]

\* The types of what the sends are about.
CoreType ==
    /\ stack \in [Thread -> Seq(Frame)]
    /\ sendlist \in [Thread -> Seq(SendId)]
    /\ sender \in [SendId -> Thread]
    /\ target \in [SendId -> Thread]
    /\ ready \in [SendId -> BOOLEAN]
    /\ sends \in 0..MaxSends

IInv == CoreType /\ Stacks /\ Listed /\ Owned /\ Placed /\ Fresh

-----------------------------------------------------------------------------
(* Stacks *)

Ats == {"receive", "serving", "queue", "wait", "wake", "check", "run"}

LEMMA GotoStack ==
    ASSUME NEW st \in Seq(Frame), st # <<>>, WellStacked(st), NEW at \in Ats
    PROVE  /\ Goto(st, at) \in Seq(Frame) /\ Goto(st, at) # <<>>
           /\ WellStacked(Goto(st, at))
           /\ HandledIn(Goto(st, at)) = HandledIn(st)
           /\ UnpushedIn(Goto(st, at)) = {}
           /\ PushedIn(Goto(st, at)) = PushedIn(st) \cup UnpushedIn(st)
  <1> DEFINE new == Goto(st, at)
  <1>1. /\ DOMAIN st = 1..Len(st) /\ Len(st) \in Nat \ {0}
        /\ \A i \in DOMAIN st : st[i] \in Frame
    OBVIOUS
  <1>2. /\ DOMAIN new = DOMAIN st /\ Len(new) = Len(st)
        /\ \A i \in DOMAIN st : i # Len(st) => new[i] = st[i]
        /\ new[Len(st)] = [st[Len(st)] EXCEPT !.at = at]
    BY <1>1 DEF Goto
  <1>3. \A i \in DOMAIN st :
          /\ new[i].kind = st[i].kind /\ new[i].id = st[i].id /\ new[i] \in Frame
          /\ new[i].at = IF i = Len(st) THEN at ELSE st[i].at
    BY <1>1, <1>2 DEF Frame, Ats
  <1>4. new \in Seq(Frame) /\ new # <<>>
    BY <1>1, <1>2, <1>3 DEF Goto
  <1> HIDE DEF new
  <1>5. at # "push" /\ \A i \in DOMAIN st :
          st[i].kind = "send" /\ st[i].at = "push" => i = Len(st)
    BY DEF WellStacked, Ats
  <1>6. WellStacked(new)
    BY <1>2, <1>3, <1>5 DEF WellStacked
  <1>7. HandledIn(new) = HandledIn(st)
    BY <1>2, <1>3 DEF HandledIn
  <1>8. UnpushedIn(new) = {}
    BY <1>2, <1>3, <1>5 DEF UnpushedIn
  <1>9. PushedIn(new) = PushedIn(st) \cup UnpushedIn(st)
    <2>1. \A i \in DOMAIN st : st[i].kind = "send" => new[i].kind = "send" /\ new[i].at # "push"
      BY <1>3, <1>5
    <2>2. PushedIn(st) \cup UnpushedIn(st) \subseteq PushedIn(new)
      BY <1>2, <1>3, <2>1 DEF PushedIn, UnpushedIn
    <2>3. PushedIn(new) \subseteq PushedIn(st) \cup UnpushedIn(st)
      BY <1>2, <1>3 DEF PushedIn, UnpushedIn
    <2> QED BY <2>2, <2>3
  <1> QED BY <1>4, <1>6, <1>7, <1>8, <1>9 DEF new

LEMMA PopStack ==
    ASSUME NEW st \in Seq(Frame), st # <<>>, WellStacked(st)
    PROVE  /\ Pop(st) \in Seq(Frame)
           /\ WellStacked(Pop(st))
           /\ UnpushedIn(Pop(st)) = {}
           /\ Last(st).kind = "handler" =>
                /\ HandledIn(Pop(st)) = HandledIn(st) \ {Last(st).id}
                /\ PushedIn(Pop(st)) = PushedIn(st)
           /\ Last(st).kind = "send" =>
                /\ HandledIn(Pop(st)) = HandledIn(st)
                /\ PushedIn(Pop(st)) = PushedIn(st) \ {Last(st).id}
  <1> DEFINE new == Pop(st)
             n == Len(st)
  <1>1. DOMAIN st = 1..n /\ n \in Nat \ {0} /\ Last(st) = st[n]
    BY DEF Last
  <1>2. /\ new \in Seq(Frame) /\ Len(new) = n - 1
        /\ \A i \in 1..(n - 1) : new[i] = st[i]
    BY <1>1 DEF Pop, Front
  <1>3. DOMAIN new = 1..(n - 1)
    BY <1>1, <1>2
  <1> HIDE DEF new
  <1>4. /\ \A i \in DOMAIN new : i \in DOMAIN st /\ i # n /\ new[i] = st[i]
        /\ \A i \in DOMAIN st : i # n => i \in DOMAIN new
        /\ n \in DOMAIN st
    BY <1>1, <1>2, <1>3
  <1> HIDE DEF n
  <1>5. \A i \in DOMAIN new : ~(new[i].kind = "send" /\ new[i].at = "push")
    BY <1>4 DEF WellStacked, n
  <1>6. WellStacked(new)
    BY <1>4, <1>5 DEF WellStacked
  <1>7. UnpushedIn(new) = {}
    BY <1>5 DEF UnpushedIn
  <1>8. \A i, j \in DOMAIN st :
          st[i].kind = st[j].kind /\ st[i].id = st[j].id /\ st[i].id # 0 => i = j
    BY DEF WellStacked
  <1>9. CASE st[n].kind = "handler"
    <2>1. HandledIn(new) = HandledIn(st) \ {st[n].id}
      BY <1>4, <1>8, <1>9 DEF HandledIn
    <2>2. PushedIn(new) = PushedIn(st)
      BY <1>4, <1>9 DEF PushedIn
    <2> QED BY <1>1, <1>2, <1>6, <1>7, <1>9, <2>1, <2>2 DEF new
  <1>10. CASE st[n].kind = "send"
    <2>1. HandledIn(new) = HandledIn(st)
      BY <1>4, <1>10 DEF HandledIn
    <2>2. \A i \in DOMAIN st : st[i].kind = "send" => st[i].id # 0
      BY DEF WellStacked
    <2>3. PushedIn(new) = PushedIn(st) \ {st[n].id}
      BY <1>4, <1>8, <1>10, <2>2 DEF PushedIn
    <2> QED BY <1>1, <1>2, <1>6, <1>7, <1>10, <2>1, <2>3 DEF new
  <1> QED BY <1>1, <1>2, <1>6, <1>7, <1>9, <1>10 DEF new

LEMMA AppendStack ==
    ASSUME NEW st \in Seq(Frame), st # <<>>, WellStacked(st), UnpushedIn(st) = {},
           NEW f \in Frame
    PROVE  /\ Append(st, f) \in Seq(Frame) /\ Append(st, f) # <<>>
           /\ f.kind = "handler" /\ f.id \notin HandledIn(st) =>
                /\ WellStacked(Append(st, f))
                /\ HandledIn(Append(st, f)) = HandledIn(st) \cup ({f.id} \ {0})
                /\ PushedIn(Append(st, f)) = PushedIn(st)
                /\ UnpushedIn(Append(st, f)) = {}
           /\ f.kind = "send" /\ f.at = "push" /\ f.id # 0 /\ f.id \notin PushedIn(st) =>
                /\ WellStacked(Append(st, f))
                /\ HandledIn(Append(st, f)) = HandledIn(st)
                /\ PushedIn(Append(st, f)) = PushedIn(st)
                /\ UnpushedIn(Append(st, f)) = {f.id}
  <1> DEFINE new == Append(st, f)
             n == Len(st) + 1
  <1>1. DOMAIN st = 1..Len(st) /\ Len(st) \in Nat \ {0}
    OBVIOUS
  <1>2. /\ new \in Seq(Frame) /\ new # <<>> /\ Len(new) = n /\ DOMAIN new = 1..n
        /\ \A i \in 1..Len(st) : new[i] = st[i]
        /\ new[n] = f
    BY <1>1
  <1> HIDE DEF new
  <1>3. /\ \A i \in DOMAIN st : i \in DOMAIN new /\ i # n /\ new[i] = st[i]
        /\ \A i \in DOMAIN new : i # n => i \in DOMAIN st
        /\ n \in DOMAIN new /\ n # 1
    BY <1>1, <1>2
  <1> HIDE DEF n
  <1>4. \A i \in DOMAIN st : ~(st[i].kind = "send" /\ st[i].at = "push")
    BY DEF UnpushedIn
  <1>5. CASE f.kind = "handler" /\ f.id \notin HandledIn(st)
    <2>1. \A i \in DOMAIN st : st[i].kind = "handler" /\ st[i].id # 0 => st[i].id # f.id
      BY <1>5 DEF HandledIn
    <2>2. WellStacked(new)
      BY <1>2, <1>3, <1>4, <1>5, <2>1 DEF WellStacked
    <2>3. HandledIn(new) = HandledIn(st) \cup ({f.id} \ {0})
      BY <1>2, <1>3, <1>5 DEF HandledIn
    <2>4. PushedIn(new) = PushedIn(st) /\ UnpushedIn(new) = {}
      <3>1. PushedIn(new) = PushedIn(st)
        BY <1>2, <1>3, <1>5 DEF PushedIn
      <3>2. UnpushedIn(new) = {}
        BY <1>2, <1>3, <1>4, <1>5 DEF UnpushedIn
      <3> QED BY <3>1, <3>2
    <2> QED BY <1>2, <1>5, <2>2, <2>3, <2>4 DEF new
  <1>6. CASE f.kind = "send" /\ f.at = "push" /\ f.id # 0 /\ f.id \notin PushedIn(st)
    <2>1. \A i \in DOMAIN st : st[i].kind = "send" => st[i].id # f.id
      BY <1>4, <1>6 DEF PushedIn
    <2>2. WellStacked(new)
      BY <1>2, <1>3, <1>4, <1>6, <2>1 DEF WellStacked
    <2>3. HandledIn(new) = HandledIn(st)
      BY <1>2, <1>3, <1>6 DEF HandledIn
    <2>4. PushedIn(new) = PushedIn(st)
      BY <1>2, <1>3, <1>6 DEF PushedIn
    <2>5. UnpushedIn(new) = {f.id}
      BY <1>2, <1>3, <1>4, <1>6 DEF UnpushedIn
    <2> QED BY <1>2, <1>6, <2>2, <2>3, <2>4, <2>5 DEF new
  <1> QED BY <1>2, <1>5, <1>6 DEF new

LEMMA TopOfStack ==
    ASSUME NEW st \in Seq(Frame), st # <<>>, WellStacked(st)
    PROVE  /\ Last(st) \in Frame
           /\ ~(Last(st).kind = "send" /\ Last(st).at = "push") => UnpushedIn(st) = {}
           /\ Last(st).kind = "send" /\ Last(st).at = "push" => UnpushedIn(st) = {Last(st).id}
           /\ Last(st).kind = "send" => Last(st).id # 0
           /\ Last(st).kind = "handler" => /\ Len(st) # 1
                                           /\ Last(st).id # 0 => Last(st).id \in HandledIn(st)
           /\ Last(st).kind = "loop" => Len(st) = 1
           /\ 0 \notin HandledIn(st)
  <1>1. /\ DOMAIN st = 1..Len(st) /\ Len(st) \in Nat \ {0} /\ Last(st) = st[Len(st)]
        /\ Len(st) \in DOMAIN st
    BY DEF Last
  <1>2. \A i \in DOMAIN st : st[i].kind = "send" /\ st[i].at = "push" => i = Len(st)
    BY DEF WellStacked
  <1>3. ~(Last(st).kind = "send" /\ Last(st).at = "push") => UnpushedIn(st) = {}
    BY <1>1, <1>2 DEF UnpushedIn
  <1>4. Last(st).kind = "send" /\ Last(st).at = "push" => UnpushedIn(st) = {Last(st).id}
    BY <1>1, <1>2 DEF UnpushedIn
  <1>5. /\ Last(st).kind = "send" => Last(st).id # 0
        /\ Last(st).kind = "handler" => Len(st) # 1
        /\ Last(st).kind = "loop" => Len(st) = 1
    BY <1>1 DEF WellStacked
  <1>6. /\ Last(st).kind = "handler" /\ Last(st).id # 0 => Last(st).id \in HandledIn(st)
        /\ 0 \notin HandledIn(st)
    BY <1>1 DEF HandledIn
  <1>7. Last(st) \in Frame
    BY <1>1
  <1> QED BY <1>3, <1>4, <1>5, <1>6, <1>7

LEMMA EmptyStack ==
    /\ <<>> \in Seq(Frame) /\ WellStacked(<<>>)
    /\ PushedIn(<<>>) = {} /\ UnpushedIn(<<>>) = {} /\ HandledIn(<<>>) = {}
  BY DEF WellStacked, PushedIn, UnpushedIn, HandledIn

\* A loop that is on top is alone.
LEMMA OnlyLoop ==
    ASSUME NEW st \in Seq(Frame), st # <<>>, WellStacked(st), Last(st).kind = "loop"
    PROVE  PushedIn(st) = {} /\ UnpushedIn(st) = {} /\ HandledIn(st) = {}
  <1>1. DOMAIN st = 1..Len(st) /\ Len(st) = 1
    BY TopOfStack
  <1>2. \A i \in DOMAIN st : st[i].kind = "loop"
    BY <1>1 DEF WellStacked
  <1> QED BY <1>2 DEF PushedIn, UnpushedIn, HandledIn

LEMMA HandlerFrame ==
    ASSUME NEW s \in SendId \cup {0}
    PROVE  /\ Handler(s) \in Frame /\ Handler(s).kind = "handler" /\ Handler(s).id = s
  BY BoundsAssumption DEF Handler, FrameOf, Frame, SendId

-----------------------------------------------------------------------------
(* Lists *)

LEMMA TailList ==
    ASSUME NEW q \in Seq(SendId), q # <<>>, NoTwice(q)
    PROVE  /\ Tail(q) \in Seq(SendId) /\ NoTwice(Tail(q))
           /\ Head(q) \in ToSet(q) /\ Head(q) \in SendId
           /\ ToSet(Tail(q)) = ToSet(q) \ {Head(q)}
  <1>1. /\ DOMAIN q = 1..Len(q) /\ Len(q) \in Nat \ {0} /\ Head(q) = q[1]
        /\ Tail(q) \in Seq(SendId) /\ Len(Tail(q)) = Len(q) - 1
        /\ DOMAIN Tail(q) = 1..(Len(q) - 1)
    OBVIOUS
  <1>2. /\ \A i \in DOMAIN Tail(q) : i + 1 \in DOMAIN q /\ i + 1 # 1 /\ Tail(q)[i] = q[i + 1]
        /\ \A i \in DOMAIN q : i # 1 => i - 1 \in DOMAIN Tail(q) /\ Tail(q)[i - 1] = q[i]
        /\ 1 \in DOMAIN q
        /\ \A i, j \in DOMAIN Tail(q) : i + 1 = j + 1 => i = j
    BY <1>1
  <1>3. NoTwice(Tail(q))
    BY <1>2 DEF NoTwice
  <1>4. ToSet(Tail(q)) \subseteq ToSet(q) \ {Head(q)}
    <2> SUFFICES ASSUME NEW i \in DOMAIN Tail(q)
                 PROVE  Tail(q)[i] \in ToSet(q) /\ Tail(q)[i] # Head(q)
      BY DEF ToSet
    <2>1. i + 1 \in DOMAIN q /\ i + 1 # 1 /\ Tail(q)[i] = q[i + 1]
      BY <1>2
    <2> QED BY <1>1, <1>2, <2>1 DEF ToSet, NoTwice
  <1>5. ToSet(q) \ {Head(q)} \subseteq ToSet(Tail(q))
    <2> SUFFICES ASSUME NEW i \in DOMAIN q, q[i] # Head(q)
                 PROVE  q[i] \in ToSet(Tail(q))
      BY DEF ToSet
    <2>1. i - 1 \in DOMAIN Tail(q) /\ Tail(q)[i - 1] = q[i]
      BY <1>1, <1>2
    <2> QED BY <2>1 DEF ToSet
  <1>6. Head(q) \in ToSet(q) /\ Head(q) \in SendId
    BY <1>1, <1>2 DEF ToSet
  <1> QED BY <1>1, <1>3, <1>4, <1>5, <1>6

LEMMA AppendList ==
    ASSUME NEW q \in Seq(SendId), NoTwice(q), NEW s \in SendId, s \notin ToSet(q)
    PROVE  /\ Append(q, s) \in Seq(SendId) /\ NoTwice(Append(q, s))
           /\ ToSet(Append(q, s)) = ToSet(q) \cup {s}
  <1>1. /\ DOMAIN q = 1..Len(q) /\ Len(q) \in Nat
        /\ Append(q, s) \in Seq(SendId) /\ DOMAIN Append(q, s) = 1..(Len(q) + 1)
        /\ \A i \in 1..Len(q) : Append(q, s)[i] = q[i]
        /\ Append(q, s)[Len(q) + 1] = s
    OBVIOUS
  <1>2. \A i \in DOMAIN q : q[i] # s
    BY DEF ToSet
  <1>3. NoTwice(Append(q, s))
    BY <1>1, <1>2 DEF NoTwice
  <1>4. ToSet(Append(q, s)) \subseteq ToSet(q) \cup {s}
    BY <1>1 DEF ToSet
  <1>5. ToSet(q) \cup {s} \subseteq ToSet(Append(q, s))
    BY <1>1 DEF ToSet
  <1> QED BY <1>1, <1>3, <1>4, <1>5

LEMMA WithoutList ==
    ASSUME NEW q \in Seq(SendId), NoTwice(q), NEW S, NEW r \in Without(q, S)
    PROVE  /\ r \in Seq(SendId) /\ NoTwice(r)
           /\ ToSet(r) = ToSet(q) \ S
  <1>1. /\ DOMAIN q = 1..Len(q) /\ Len(q) \in Nat
        /\ ToSet(q) \subseteq SendId
    BY DEF ToSet
  <1>2. PICK n \in 0..Len(q) : r \in [1..n -> ToSet(q) \ S]
    BY DEF Without
  <1>3. r \in Seq(SendId) /\ DOMAIN r = 1..n /\ n \in Nat
    BY <1>1, <1>2
  <1>4. ToSet(r) = ToSet(q) \ S
    BY DEF Without
  <1>5. \A i, j \in DOMAIN r : i < j =>
          \E k, l \in DOMAIN q : k < l /\ q[k] = r[i] /\ q[l] = r[j]
    BY DEF Without
  <1>6. \A i, j \in DOMAIN r : i < j => r[i] # r[j]
    <2> SUFFICES ASSUME NEW i \in DOMAIN r, NEW j \in DOMAIN r, i < j
                 PROVE  r[i] # r[j]
      OBVIOUS
    <2>1. PICK k \in DOMAIN q, l \in DOMAIN q : k < l /\ q[k] = r[i] /\ q[l] = r[j]
      BY <1>5
    <2>2. k # l
      BY <1>1, <2>1
    <2> QED BY <2>1, <2>2 DEF NoTwice
  <1>7. NoTwice(r)
    <2> SUFFICES ASSUME NEW i \in DOMAIN r, NEW j \in DOMAIN r, i # j
                 PROVE  r[i] # r[j]
      BY DEF NoTwice
    <2>1. i < j \/ j < i
      BY <1>3
    <2> QED BY <1>6, <2>1
  <1> QED BY <1>3, <1>4, <1>7

-----------------------------------------------------------------------------
(* What the kinds of steps do to the sends *)

\* The stack of t becomes x, and only that.
StackBecomes(t, x) == /\ stack' = [stack EXCEPT ![t] = x]
                      /\ x \in Seq(Frame) /\ WellStacked(x)

SameSends == /\ UNCHANGED sender /\ UNCHANGED target /\ UNCHANGED sends

LEMMA OthersSame == Others => SameSends
  BY DEF Others, SameSends

\* A step that moves no send.
LEMMA QuietKeeps ==
    ASSUME IInv, NEW t \in Thread, NEW x, StackBecomes(t, x), SameSends,
           UNCHANGED sendlist, UNCHANGED ready,
           PushedIn(x) = PushedIn(stack[t]), UnpushedIn(x) = UnpushedIn(stack[t]),
           HandledIn(x) = HandledIn(stack[t])
    PROVE  IInv'
  <1>1. CoreType /\ Stacks /\ Listed /\ Owned /\ Placed /\ Fresh
    BY DEF IInv
  <1>2. CoreType'
    BY <1>1 DEF CoreType, StackBecomes, SameSends
  <1>3. \A u \in Thread : stack'[u] = IF u = t THEN x ELSE stack[u]
    BY <1>1 DEF CoreType, StackBecomes
  <1>4. \A u \in Thread : /\ PushedIn(stack'[u]) = PushedIn(stack[u])
                          /\ UnpushedIn(stack'[u]) = UnpushedIn(stack[u])
                          /\ HandledIn(stack'[u]) = HandledIn(stack[u])
    BY <1>3
  <1>5. Stacks'
    BY <1>1, <1>3 DEF Stacks, StackBecomes
  <1>6. Listed' /\ Fresh'
    BY <1>1 DEF Listed, Fresh, SameSends
  <1>7. Owned'
    BY <1>1, <1>4 DEF Owned, SameSends
  <1>8. ASSUME NEW s \in 1..sends
        PROVE  /\ Pushed(s)' <=> Pushed(s)
               /\ Unpushed(s)' <=> Unpushed(s)
               /\ InHandler(s)' <=> InHandler(s)
               /\ Queued(s)' <=> Queued(s)
    <2>1. sender[s] \in Thread /\ target[s] \in Thread
      BY <1>1, BoundsAssumption DEF CoreType, SendId
    <2> QED BY <1>4, <2>1 DEF Pushed, Unpushed, InHandler, Queued, SameSends
  <1>9. Placed'
    BY <1>1, <1>8 DEF Placed, SameSends
  <1> QED BY <1>2, <1>5, <1>6, <1>7, <1>9 DEF IInv

\* What Serve(t, st) does: the sends in D, none or one, go from the list to the
\* stack.
LEMMA ServeMoves ==
    ASSUME IInv, NEW t \in Thread, NEW st \in Seq(Frame), st # <<>>, WellStacked(st),
           HandledIn(st) \cap ToSet(sendlist[t]) = {}, Serve(t, st)
    PROVE  \E x, q, D :
             /\ StackBecomes(t, x) /\ D \subseteq ToSet(sendlist[t])
             /\ sendlist' = [sendlist EXCEPT ![t] = q]
             /\ q \in Seq(SendId) /\ NoTwice(q) /\ ToSet(q) = ToSet(sendlist[t]) \ D
             /\ HandledIn(x) = HandledIn(st) \cup D
             /\ PushedIn(x) = PushedIn(st) \cup UnpushedIn(st) /\ UnpushedIn(x) = {}
  <1>1. sendlist[t] \in Seq(SendId) /\ NoTwice(sendlist[t]) /\ sendlist \in [Thread -> Seq(SendId)]
    BY DEF IInv, CoreType, Listed
  <1>2. CASE sendlist[t] # <<>>
    <2> DEFINE s == Head(sendlist[t])
               g == Goto(st, "serving")
               x == Append(g, Handler(s))
               q == Tail(sendlist[t])
    <2>1. /\ q \in Seq(SendId) /\ NoTwice(q) /\ s \in ToSet(sendlist[t]) /\ s \in SendId
          /\ ToSet(q) = ToSet(sendlist[t]) \ {s}
      BY <1>1, <1>2, TailList
    <2>2. stack' = [stack EXCEPT ![t] = x] /\ sendlist' = [sendlist EXCEPT ![t] = q]
      BY <1>2 DEF Serve
    <2>3. /\ g \in Seq(Frame) /\ g # <<>> /\ WellStacked(g)
          /\ HandledIn(g) = HandledIn(st) /\ UnpushedIn(g) = {}
          /\ PushedIn(g) = PushedIn(st) \cup UnpushedIn(st)
      BY GotoStack DEF Ats
    <2>4. Handler(s) \in Frame /\ Handler(s).kind = "handler" /\ Handler(s).id = s
      BY <2>1, HandlerFrame
    <2>5. s \notin HandledIn(g) /\ s # 0
      BY <2>1, <2>3 DEF SendId
    <2> HIDE DEF g, s
    <2>6. /\ x \in Seq(Frame) /\ WellStacked(x)
          /\ HandledIn(x) = HandledIn(g) \cup ({s} \ {0})
          /\ PushedIn(x) = PushedIn(g) /\ UnpushedIn(x) = {}
      BY <2>3, <2>4, <2>5, AppendStack
    <2>7. HandledIn(x) = HandledIn(st) \cup {s} /\ {s} \subseteq ToSet(sendlist[t])
      BY <2>1, <2>3, <2>5, <2>6
    <2>8. StackBecomes(t, x)
      BY <2>2, <2>6 DEF StackBecomes
    <2> HIDE DEF x, q
    <2> QED BY <2>1, <2>2, <2>3, <2>6, <2>7, <2>8
  <1>3. CASE sendlist[t] = <<>>
    <2> DEFINE x == AfterReceive(st)
    <2>1. stack' = [stack EXCEPT ![t] = x] /\ sendlist' = sendlist
      BY <1>3 DEF Serve
    <2>2. /\ x \in Seq(Frame) /\ WellStacked(x)
          /\ HandledIn(x) = HandledIn(st) /\ UnpushedIn(x) = {}
          /\ PushedIn(x) = PushedIn(st) \cup UnpushedIn(st)
      BY GotoStack DEF Ats, AfterReceive
    <2>3. StackBecomes(t, x)
      BY <2>1, <2>2 DEF StackBecomes
    <2>4. sendlist' = [sendlist EXCEPT ![t] = sendlist[t]]
      BY <1>1, <2>1
    <2> HIDE DEF x
    <2>5. /\ HandledIn(x) = HandledIn(st) \cup {}
          /\ ToSet(sendlist[t]) = ToSet(sendlist[t]) \ {}
      BY <2>2
    <2> QED BY <1>1, <2>2, <2>3, <2>4, <2>5
  <1> QED BY <1>2, <1>3

\* A step that takes the sends in D from t's list into its stack, and the
\* handlers of the sends in R, which are told, from its stack.
LEMMA ServedKeeps ==
    ASSUME IInv, NEW t \in Thread, NEW x, NEW q, NEW D, NEW R, StackBecomes(t, x), SameSends,
           D \subseteq ToSet(sendlist[t]), R \subseteq HandledIn(stack[t]),
           sendlist' = [sendlist EXCEPT ![t] = q],
           q \in Seq(SendId), NoTwice(q), ToSet(q) = ToSet(sendlist[t]) \ D,
           HandledIn(x) = (HandledIn(stack[t]) \ R) \cup D,
           PushedIn(x) = PushedIn(stack[t]), UnpushedIn(x) = UnpushedIn(stack[t]),
           ready' \in [SendId -> BOOLEAN],
           \A s \in SendId : ready'[s] <=> ready[s] \/ s \in R
    PROVE  IInv'
  <1>1. CoreType /\ Stacks /\ Listed /\ Owned /\ Placed /\ Fresh
    BY DEF IInv
  <1>2. CoreType'
    BY <1>1 DEF CoreType, StackBecomes, SameSends
  <1>3. \A u \in Thread : /\ stack'[u] = IF u = t THEN x ELSE stack[u]
                          /\ sendlist'[u] = IF u = t THEN q ELSE sendlist[u]
    BY <1>1 DEF CoreType, StackBecomes
  <1>4. \A u \in Thread : /\ PushedIn(stack'[u]) = PushedIn(stack[u])
                          /\ UnpushedIn(stack'[u]) = UnpushedIn(stack[u])
    BY <1>3
  <1>5. \A u \in Thread :
          /\ HandledIn(stack'[u]) = IF u = t THEN (HandledIn(stack[t]) \ R) \cup D
                                    ELSE HandledIn(stack[u])
          /\ ToSet(sendlist'[u]) = IF u = t THEN ToSet(sendlist[t]) \ D
                                   ELSE ToSet(sendlist[u])
    <2> TAKE u \in Thread
    <2>1. CASE u = t
      <3>1. stack'[u] = x /\ sendlist'[u] = q
        BY <1>3, <2>1
      <3> QED BY <2>1, <3>1
    <2>2. CASE u # t
      <3>1. stack'[u] = stack[u] /\ sendlist'[u] = sendlist[u]
        BY <1>3, <2>2
      <3> QED BY <2>2, <3>1
    <2> QED BY <2>1, <2>2
  <1>6. Stacks' /\ Listed'
    BY <1>1, <1>3 DEF Stacks, Listed, StackBecomes
  <1>7. \A s \in R \cup D : s \in 1..sends /\ target[s] = t
    BY <1>1 DEF Owned
  <1>8. Fresh'
    <2>1. \A s \in R : ~(s > sends)
      BY <1>1, <1>7 DEF CoreType
    <2> QED BY <1>1, <2>1 DEF Fresh, SameSends
  <1>9. Owned'
    <2>1. \A u \in Thread : HandledIn(stack'[u]) \cup ToSet(sendlist'[u])
                              \subseteq HandledIn(stack[u]) \cup ToSet(sendlist[u])
      BY <1>5
    <2> QED BY <1>1, <1>4, <2>1 DEF Owned, SameSends
  <1>10. ASSUME NEW s \in 1..sends
         PROVE  /\ Pushed(s)' <=> Pushed(s)
                /\ Unpushed(s)' <=> Unpushed(s)
                /\ InHandler(s)' <=> (InHandler(s) /\ s \notin R) \/ s \in D
                /\ Queued(s)' <=> Queued(s) /\ s \notin D
                /\ ready'[s] <=> ready[s] \/ s \in R
                /\ s \in D => Queued(s)
                /\ s \in R => InHandler(s)
    <2>1. sender[s] \in Thread /\ target[s] \in Thread /\ s \in SendId
      BY <1>1, BoundsAssumption DEF CoreType, SendId
    <2>2. (Pushed(s)' <=> Pushed(s)) /\ (Unpushed(s)' <=> Unpushed(s))
      BY <1>4, <2>1 DEF Pushed, Unpushed, SameSends
    <2>3. /\ InHandler(s)' <=> (InHandler(s) /\ s \notin R) \/ s \in D
          /\ Queued(s)' <=> Queued(s) /\ s \notin D
      BY <1>5, <1>7, <2>1 DEF InHandler, Queued, SameSends
    <2>4. /\ s \in D => Queued(s)
          /\ s \in R => InHandler(s)
      BY <1>7 DEF InHandler, Queued
    <2> QED BY <2>1, <2>2, <2>3, <2>4
  <1>11. Placed'
    BY <1>1, <1>10 DEF Placed, SameSends
  <1> QED BY <1>2, <1>6, <1>8, <1>9, <1>11 DEF IInv

\* The sends in S are taken off u's list, and told.
LEMMA ClearKeepsOrder ==
    ASSUME IInv, NEW u \in Thread, NEW S \in SUBSET ToSet(sendlist[u]), ClearSends(u, S)
    PROVE  IInv'
  <1>1. PICK q \in Without(sendlist[u], S) : sendlist' = [sendlist EXCEPT ![u] = q]
    BY DEF ClearSends
  <1>2. /\ CoreType /\ Stacks /\ Listed /\ Owned /\ Placed /\ Fresh
        /\ sendlist[u] \in Seq(SendId) /\ NoTwice(sendlist[u])
    BY DEF IInv, CoreType, Listed
  <1>3. q \in Seq(SendId) /\ NoTwice(q) /\ ToSet(q) = ToSet(sendlist[u]) \ S
    BY <1>2, WithoutList
  <1>4. /\ ready' = [s \in SendId |-> ready[s] \/ s \in S]
        /\ UNCHANGED stack /\ SameSends
    BY OthersSame DEF ClearSends
  <1>5. \A v \in Thread : sendlist'[v] = IF v = u THEN q ELSE sendlist[v]
    BY <1>1, <1>2 DEF CoreType
  <1>6. \A v \in Thread : ToSet(sendlist'[v]) = IF v = u THEN ToSet(sendlist[u]) \ S
                                                ELSE ToSet(sendlist[v])
    <2> TAKE v \in Thread
    <2>1. CASE v = u
      BY <1>3, <1>5, <2>1
    <2>2. CASE v # u
      BY <1>5, <2>2
    <2> QED BY <2>1, <2>2
  <1>7. \A s \in S : s \in 1..sends /\ target[s] = u
    BY <1>2 DEF Owned
  <1>8. /\ ready' \in [SendId -> BOOLEAN]
        /\ \A s \in SendId : ready'[s] <=> ready[s] \/ s \in S
    <2>1. \A s \in SendId : (ready[s] \/ s \in S) \in BOOLEAN
      OBVIOUS
    <2> QED BY <1>4, <2>1
  <1>9. CoreType'
    BY <1>1, <1>2, <1>3, <1>4, <1>8 DEF CoreType, SameSends
  <1>10. Stacks' /\ Listed'
    BY <1>2, <1>3, <1>4, <1>5 DEF Stacks, Listed
  <1>11. Fresh'
    <2>1. \A s \in S : ~(s > sends)
      BY <1>2, <1>7 DEF CoreType
    <2> QED BY <1>2, <1>4, <1>8, <2>1 DEF Fresh, SameSends
  <1>12. Owned'
    <2>1. \A v \in Thread : ToSet(sendlist'[v]) \subseteq ToSet(sendlist[v])
      BY <1>6
    <2> QED BY <1>2, <1>4, <2>1 DEF Owned, SameSends
  <1>13. ASSUME NEW s \in 1..sends
         PROVE  /\ Pushed(s)' <=> Pushed(s)
                /\ Unpushed(s)' <=> Unpushed(s)
                /\ InHandler(s)' <=> InHandler(s)
                /\ Queued(s)' <=> Queued(s) /\ s \notin S
                /\ ready'[s] <=> ready[s] \/ s \in S
                /\ s \in S => Queued(s)
    <2>1. sender[s] \in Thread /\ target[s] \in Thread /\ s \in SendId
      BY <1>2, BoundsAssumption DEF CoreType, SendId
    <2>2. /\ Pushed(s)' <=> Pushed(s)
          /\ Unpushed(s)' <=> Unpushed(s)
          /\ InHandler(s)' <=> InHandler(s)
      BY <1>4 DEF Pushed, Unpushed, InHandler, SameSends
    <2>3. Queued(s)' <=> Queued(s) /\ s \notin S
      BY <1>4, <1>6, <1>7, <2>1 DEF Queued, SameSends
    <2>4. s \in S => Queued(s)
      BY <1>7 DEF Queued
    <2> QED BY <1>8, <2>1, <2>2, <2>3, <2>4
  <1>14. Placed'
    BY <1>2, <1>4, <1>13 DEF Placed, SameSends
  <1> QED BY <1>9, <1>10, <1>11, <1>12, <1>14 DEF IInv

-----------------------------------------------------------------------------
(* The steps *)

\* What the invariant says of the stack of a thread that has one.
LEMMA OneStack ==
    ASSUME IInv, NEW t \in Thread
    PROVE  /\ stack[t] \in Seq(Frame) /\ WellStacked(stack[t])
           /\ HandledIn(stack[t]) \cap ToSet(sendlist[t]) = {}
           /\ \A s \in PushedIn(stack[t]) \cup UnpushedIn(stack[t]) :
                 s \in 1..sends /\ s \in SendId /\ sender[s] = t
           /\ \A s \in HandledIn(stack[t]) : s \in 1..sends /\ s \in SendId /\ target[s] = t
  <1>1. CoreType /\ Stacks /\ Owned /\ Placed
    BY DEF IInv
  <1>2. stack[t] \in Seq(Frame) /\ WellStacked(stack[t]) /\ 1..sends \subseteq SendId
    BY <1>1, BoundsAssumption DEF CoreType, Stacks, SendId
  <1>3. \A s \in HandledIn(stack[t]) : s \in 1..sends /\ target[s] = t
    BY <1>1 DEF Owned
  <1>4. \A s \in PushedIn(stack[t]) \cup UnpushedIn(stack[t]) : s \in 1..sends /\ sender[s] = t
    BY <1>1 DEF Owned
  <1>5. HandledIn(stack[t]) \cap ToSet(sendlist[t]) = {}
    BY <1>1, <1>3 DEF Placed, Queued, InHandler
  <1> QED BY <1>2, <1>3, <1>4, <1>5

\* A frame that goes on to another place, and is not about to push.
LEMMA GotoKeeps ==
    ASSUME IInv, NEW t \in Thread, stack[t] # <<>>,
           ~(Top(t).kind = "send" /\ Top(t).at = "push"), NEW at \in Ats,
           stack' = [stack EXCEPT ![t] = Goto(stack[t], at)],
           UNCHANGED sendlist, UNCHANGED ready, SameSends
    PROVE  IInv'
  <1>1. stack[t] \in Seq(Frame) /\ WellStacked(stack[t])
    BY OneStack
  <1>2. UnpushedIn(stack[t]) = {}
    BY <1>1, TopOfStack DEF Top
  <1> DEFINE x == Goto(stack[t], at)
  <1>3. /\ x \in Seq(Frame) /\ WellStacked(x)
        /\ HandledIn(x) = HandledIn(stack[t]) /\ UnpushedIn(x) = UnpushedIn(stack[t])
        /\ PushedIn(x) = PushedIn(stack[t])
    <2>1. /\ x \in Seq(Frame) /\ WellStacked(x)
          /\ HandledIn(x) = HandledIn(stack[t]) /\ UnpushedIn(x) = {}
          /\ PushedIn(x) = PushedIn(stack[t]) \cup UnpushedIn(stack[t])
      BY <1>1, GotoStack
    <2> QED BY <1>2, <2>1
  <1>4. StackBecomes(t, x)
    BY <1>3 DEF StackBecomes
  <1> HIDE DEF x
  <1> QED BY <1>3, <1>4, QuietKeeps

LEMMA UnchangedKeeps ==
    ASSUME IInv, UNCHANGED stack, UNCHANGED sendlist, UNCHANGED ready, SameSends
    PROVE  IInv'
  <1>1. /\ CoreType' /\ Stacks' /\ Listed'
    BY DEF IInv, CoreType, Stacks, Listed, SameSends
  <1>2. /\ Owned' /\ Fresh'
    BY DEF IInv, Owned, Fresh, SameSends
  <1>3. Placed'
    BY DEF IInv, Placed, Pushed, Unpushed, InHandler, Queued, SameSends
  <1> QED BY <1>1, <1>2, <1>3 DEF IInv

\* The next turn of the loop in ReceiveSends.
LEMMA ServeKeepsAll ==
    ASSUME IInv, NEW t \in Thread, stack[t] # <<>>, Top(t).at # "push",
           Serve(t, stack[t]), UNCHANGED ready, SameSends
    PROVE  IInv'
  <1>1. /\ stack[t] \in Seq(Frame) /\ WellStacked(stack[t])
        /\ HandledIn(stack[t]) \cap ToSet(sendlist[t]) = {}
    BY OneStack
  <1>2. UnpushedIn(stack[t]) = {}
    BY <1>1, TopOfStack DEF Top
  <1> DEFINE st == stack[t]
  <1>3. /\ st \in Seq(Frame) /\ st # <<>> /\ WellStacked(st) /\ Serve(t, st)
        /\ HandledIn(st) \cap ToSet(sendlist[t]) = {}
    BY <1>1
  <1> HIDE DEF st
  <1>4. PICK x, q, D :
           /\ StackBecomes(t, x) /\ D \subseteq ToSet(sendlist[t])
           /\ sendlist' = [sendlist EXCEPT ![t] = q]
           /\ q \in Seq(SendId) /\ NoTwice(q) /\ ToSet(q) = ToSet(sendlist[t]) \ D
           /\ HandledIn(x) = HandledIn(st) \cup D
           /\ PushedIn(x) = PushedIn(st) \cup UnpushedIn(st) /\ UnpushedIn(x) = {}
    BY <1>3, ServeMoves
  <1>5. /\ HandledIn(x) = (HandledIn(stack[t]) \ {}) \cup D
        /\ PushedIn(x) = PushedIn(stack[t]) /\ UnpushedIn(x) = UnpushedIn(stack[t])
        /\ {} \subseteq HandledIn(stack[t])
    BY <1>2, <1>4 DEF st
  <1>6. /\ ready' \in [SendId -> BOOLEAN]
        /\ \A s \in SendId : ready'[s] <=> ready[s] \/ s \in {}
    BY DEF IInv, CoreType
  <1> QED BY <1>4, <1>5, <1>6, ServedKeeps

LEMMA ReceiveSendsKeeps ==
    ASSUME IInv, NEW t \in Thread, ReceiveSends(t)
    PROVE  IInv'
  <1>1. stack[t] # <<>> /\ Top(t).at = "receive" /\ UNCHANGED ready /\ SameSends
    BY OthersSame DEF ReceiveSends
  <1>2. CASE has_sends[t]
    <2>1. Serve(t, stack[t])
      BY <1>2 DEF ReceiveSends
    <2> QED BY <1>1, <2>1, ServeKeepsAll
  <1>3. CASE ~has_sends[t]
    <2>1. stack' = [stack EXCEPT ![t] = AfterReceive(stack[t])] /\ UNCHANGED sendlist
      BY <1>3 DEF ReceiveSends
    <2>2. PICK at \in {"queue", "wait"} : AfterReceive(stack[t]) = Goto(stack[t], at)
      BY DEF AfterReceive
    <2>3. at \in Ats
      BY DEF Ats
    <2> QED BY <1>1, <2>1, <2>2, <2>3, GotoKeeps
  <1> QED BY <1>2, <1>3

LEMMA TellSenderKeeps ==
    ASSUME IInv, NEW t \in Thread, TellSender(t)
    PROVE  IInv'
  <1>1. /\ stack[t] # <<>> /\ Top(t).at = "serving" /\ UNCHANGED ready /\ SameSends
        /\ Serve(t, stack[t])
    BY OthersSame DEF TellSender
  <1> QED BY <1>1, ServeKeepsAll

\* The handlers of the sends in R leave t's stack, and the sends are answered.
LEMMA ReturnedKeeps ==
    ASSUME IInv, NEW t \in Thread, NEW x, NEW R, StackBecomes(t, x), SameSends,
           UNCHANGED sendlist, R \subseteq HandledIn(stack[t]),
           HandledIn(x) = HandledIn(stack[t]) \ R,
           PushedIn(x) = PushedIn(stack[t]), UnpushedIn(x) = UnpushedIn(stack[t]),
           ready' \in [SendId -> BOOLEAN],
           \A s \in SendId : ready'[s] <=> ready[s] \/ s \in R
    PROVE  IInv'
  <1>1. PICK q, D : q = sendlist[t] /\ D = {}
    OBVIOUS
  <1>2. /\ sendlist \in [Thread -> Seq(SendId)] /\ q \in Seq(SendId) /\ NoTwice(q)
    BY <1>1 DEF IInv, CoreType, Listed
  <1>3. /\ sendlist' = [sendlist EXCEPT ![t] = q]
        /\ D \subseteq ToSet(sendlist[t]) /\ ToSet(q) = ToSet(sendlist[t]) \ D
        /\ HandledIn(x) = (HandledIn(stack[t]) \ R) \cup D
    BY <1>1, <1>2
  <1> QED BY <1>2, <1>3, ServedKeeps

LEMMA HandlerReturnsKeeps ==
    ASSUME IInv, NEW t \in Thread, HandlerReturns(t)
    PROVE  IInv'
  <1> DEFINE s == Top(t).id
             st == Pop(stack[t])
  <1>1. /\ stack[t] # <<>> /\ Top(t).kind = "handler" /\ Top(t).at = "run" /\ SameSends
        /\ UNCHANGED sendlist
    BY OthersSame DEF HandlerReturns, Running
  <1>2. /\ stack[t] \in Seq(Frame) /\ WellStacked(stack[t])
        /\ \A r \in HandledIn(stack[t]) : r \in SendId
    BY OneStack
  <1>3. /\ UnpushedIn(stack[t]) = {} /\ 0 \notin HandledIn(stack[t])
        /\ s # 0 => s \in HandledIn(stack[t])
    BY <1>1, <1>2, TopOfStack DEF Top
  <1>4. /\ st \in Seq(Frame) /\ WellStacked(st) /\ UnpushedIn(st) = UnpushedIn(stack[t])
        /\ HandledIn(st) = HandledIn(stack[t]) \ {s} /\ PushedIn(st) = PushedIn(stack[t])
    BY <1>1, <1>2, <1>3, PopStack DEF Top
  <1>5. StackBecomes(t, st)
    BY <1>4 DEF HandlerReturns, StackBecomes
  <1> HIDE DEF st
  <1>6. CASE s = 0
    <2>1. UNCHANGED ready
      BY <1>6 DEF HandlerReturns
    <2>2. HandledIn(st) = HandledIn(stack[t])
      BY <1>3, <1>4, <1>6
    <2> QED BY <1>1, <1>4, <1>5, <2>1, <2>2, QuietKeeps
  <1>7. CASE s # 0
    <2>1. ready' = [ready EXCEPT ![s] = TRUE] /\ {s} \subseteq HandledIn(stack[t])
      BY <1>3, <1>7 DEF HandlerReturns
    <2>2. /\ ready' \in [SendId -> BOOLEAN]
          /\ \A r \in SendId : ready'[r] <=> ready[r] \/ r \in {s}
      BY <1>2, <2>1 DEF IInv, CoreType
    <2> HIDE DEF s
    <2> QED BY <1>1, <1>4, <1>5, <2>1, <2>2, ReturnedKeeps
  <1> QED BY <1>6, <1>7

LEMMA SendKeeps ==
    ASSUME IInv, NEW t \in Thread, NEW u \in Thread, Send(t, u)
    PROVE  IInv'
  <1>1. /\ stack[t] # <<>> /\ Top(t).kind = "handler" /\ sends < MaxSends
        /\ sends' = sends + 1 /\ UNCHANGED sendlist /\ UNCHANGED ready
    BY DEF Send, Running
  <1>2. /\ stack[t] \in Seq(Frame) /\ WellStacked(stack[t])
        /\ \A s \in PushedIn(stack[t]) : s \in 1..sends
    BY OneStack
  <1>3. UnpushedIn(stack[t]) = {} /\ 0 \notin HandledIn(stack[t])
    BY <1>1, <1>2, TopOfStack DEF Top
  <1>4. /\ CoreType /\ Stacks /\ Listed /\ Owned /\ Placed /\ Fresh
        /\ sends \in Nat /\ MaxSends \in Nat /\ 1..sends \subseteq SendId
        /\ 1..sends \subseteq 1..sends'
    BY <1>1, BoundsAssumption DEF IInv, CoreType, SendId
  <1>0. PICK n : n = sends + 1
    OBVIOUS
  <1>5. /\ n \in SendId /\ n \notin 1..sends /\ n # 0 /\ sends' \in 0..MaxSends
        /\ \A s \in 1..sends' : s \in 1..sends \/ s = n
        /\ n \in 0..MaxSends /\ n > sends
    BY <1>0, <1>1, <1>4 DEF SendId
  <1>6. ~ready[n] /\ \A s \in SendId : s > sends' => s > sends
    BY <1>1, <1>4, <1>5 DEF Fresh, SendId
  <1>7. CASE u = t
    <2> DEFINE x == Append(stack[t], Handler(0))
    <2>1. stack' = [stack EXCEPT ![t] = x] /\ UNCHANGED sender /\ UNCHANGED target
      BY <1>7 DEF Send
    <2>2. Handler(0) \in Frame /\ Handler(0).kind = "handler" /\ Handler(0).id = 0
      BY HandlerFrame
    <2>3. /\ x \in Seq(Frame) /\ WellStacked(x)
          /\ HandledIn(x) = HandledIn(stack[t]) \cup ({0} \ {0})
          /\ PushedIn(x) = PushedIn(stack[t]) /\ UnpushedIn(x) = {}
      BY <1>1, <1>2, <1>3, <2>2, AppendStack
    <2> HIDE DEF x
    <2>4. /\ HandledIn(x) = HandledIn(stack[t]) /\ PushedIn(x) = PushedIn(stack[t])
          /\ UnpushedIn(x) = UnpushedIn(stack[t])
      BY <1>3, <2>3
    <2>5. \A v \in Thread : stack'[v] = IF v = t THEN x ELSE stack[v]
      BY <1>4, <2>1 DEF CoreType
    <2>6. \A v \in Thread : /\ PushedIn(stack'[v]) = PushedIn(stack[v])
                            /\ UnpushedIn(stack'[v]) = UnpushedIn(stack[v])
                            /\ HandledIn(stack'[v]) = HandledIn(stack[v])
      BY <2>4, <2>5
    <2>7. CoreType'
      BY <1>1, <1>4, <1>5, <2>1, <2>3 DEF CoreType
    <2>8. Stacks' /\ Listed'
      BY <1>1, <1>4, <2>3, <2>5 DEF Stacks, Listed
    <2>9. Fresh'
      BY <1>1, <1>4, <1>6 DEF Fresh
    <2>10. Owned'
      BY <1>1, <1>4, <2>1, <2>6 DEF Owned
    <2>11. \A s \in SendId : /\ Pushed(s)' <=> Pushed(s)
                             /\ Unpushed(s)' <=> Unpushed(s)
                             /\ InHandler(s)' <=> InHandler(s)
                             /\ Queued(s)' <=> Queued(s)
      BY <1>1, <1>4, <2>1, <2>6 DEF Pushed, Unpushed, InHandler, Queued, CoreType
    <2>12. ~Queued(n) /\ ~InHandler(n) /\ ~Pushed(n) /\ ~Unpushed(n)
      BY <1>4, <1>5 DEF Owned, Queued, InHandler, Pushed, Unpushed, CoreType
    <2>13. Placed'
      <3> SUFFICES ASSUME NEW s \in 1..sends'
                   PROVE  /\ Queued(s)' => Pushed(s)' /\ ~InHandler(s)' /\ ~ready'[s]
                          /\ InHandler(s)' => Pushed(s)' /\ ~ready'[s]
                          /\ Pushed(s)' => Queued(s)' \/ InHandler(s)' \/ ready'[s]
                          /\ Unpushed(s)' => ~Pushed(s)' /\ ~ready'[s]
        BY DEF Placed
      <3>1. CASE s \in 1..sends
        BY <1>1, <1>4, <2>11, <3>1 DEF Placed
      <3>2. CASE s = n
        BY <1>5, <2>11, <2>12, <3>2
      <3> QED BY <1>5, <3>1, <3>2
    <2> QED BY <2>7, <2>8, <2>9, <2>10, <2>13 DEF IInv
  <1>8. CASE u # t
    <2> DEFINE f == FrameOf("send", n, "push")
               x == Append(stack[t], f)
    <2>1. /\ stack' = [stack EXCEPT ![t] = x]
          /\ sender' = [sender EXCEPT ![n] = t] /\ target' = [target EXCEPT ![n] = u]
      BY <1>0, <1>8 DEF Send
    <2>2. f \in Frame /\ f.kind = "send" /\ f.at = "push" /\ f.id = n
      BY <1>5 DEF FrameOf, Frame
    <2> HIDE DEF f
    <2>3. n \notin PushedIn(stack[t])
      BY <1>2, <1>5
    <2>4. /\ x \in Seq(Frame) /\ WellStacked(x)
          /\ HandledIn(x) = HandledIn(stack[t])
          /\ PushedIn(x) = PushedIn(stack[t]) /\ UnpushedIn(x) = {n}
      BY <1>1, <1>2, <1>3, <1>5, <2>2, <2>3, AppendStack
    <2> HIDE DEF x
    <2>5. \A v \in Thread : stack'[v] = IF v = t THEN x ELSE stack[v]
      BY <1>4, <2>1 DEF CoreType
    <2>6. \A v \in Thread : /\ PushedIn(stack'[v]) = PushedIn(stack[v])
                            /\ HandledIn(stack'[v]) = HandledIn(stack[v])
                            /\ v # t => UnpushedIn(stack'[v]) = UnpushedIn(stack[v])
      BY <2>4, <2>5
    <2>7. UnpushedIn(stack'[t]) = {n} /\ UnpushedIn(stack[t]) = {}
      BY <1>3, <2>4, <2>5
    <2>8. CoreType'
      BY <1>1, <1>4, <1>5, <2>1, <2>4 DEF CoreType
    <2>9. Stacks' /\ Listed'
      BY <1>1, <1>4, <2>4, <2>5 DEF Stacks, Listed
    <2>10. Fresh'
      BY <1>1, <1>4, <1>6 DEF Fresh
    <2>11. /\ \A s \in 1..sends : sender'[s] = sender[s] /\ target'[s] = target[s]
           /\ sender'[n] = t /\ target'[n] = u /\ n \in 1..sends'
      BY <1>0, <1>1, <1>4, <1>5, <2>1 DEF CoreType
    <2>12. Owned'
      <3> SUFFICES ASSUME NEW v \in Thread
                   PROVE  /\ \A s \in PushedIn(stack'[v]) \cup UnpushedIn(stack'[v]) :
                                s \in 1..sends' /\ sender'[s] = v
                          /\ \A s \in HandledIn(stack'[v]) \cup ToSet(sendlist'[v]) :
                                s \in 1..sends' /\ target'[s] = v
        BY DEF Owned
      <3>1. /\ \A s \in PushedIn(stack[v]) \cup UnpushedIn(stack[v]) :
                  s \in 1..sends /\ sender[s] = v
            /\ \A s \in HandledIn(stack[v]) \cup ToSet(sendlist[v]) :
                  s \in 1..sends /\ target[s] = v
        BY <1>4 DEF Owned
      <3>2. \A s \in HandledIn(stack'[v]) \cup ToSet(sendlist'[v]) :
              s \in 1..sends' /\ target'[s] = v
        BY <1>1, <1>4, <2>6, <2>11, <3>1
      <3>3. \A s \in PushedIn(stack'[v]) : s \in 1..sends' /\ sender'[s] = v
        BY <1>4, <2>6, <2>11, <3>1
      <3>4. \A s \in UnpushedIn(stack'[v]) : s \in 1..sends' /\ sender'[s] = v
        <4>1. CASE v = t
          BY <2>7, <2>11, <4>1
        <4>2. CASE v # t
          BY <1>4, <2>6, <2>11, <3>1, <4>2
        <4> QED BY <4>1, <4>2
      <3> QED BY <3>2, <3>3, <3>4
    <2>13. ASSUME NEW s \in 1..sends
           PROVE  /\ Pushed(s)' <=> Pushed(s)
                  /\ Unpushed(s)' <=> Unpushed(s)
                  /\ InHandler(s)' <=> InHandler(s)
                  /\ Queued(s)' <=> Queued(s)
      <3>1. /\ sender[s] \in Thread /\ target[s] \in Thread /\ s # n
            /\ sender'[s] = sender[s] /\ target'[s] = target[s]
        BY <1>4, <1>5, <2>11 DEF CoreType
      <3>2. Unpushed(s)' <=> Unpushed(s)
        BY <2>6, <2>7, <3>1 DEF Unpushed
      <3> QED BY <1>1, <2>6, <3>1, <3>2 DEF Pushed, InHandler, Queued
    <2>14. ~Queued(n)' /\ ~InHandler(n)' /\ ~Pushed(n)'
      <3>1. /\ n \notin ToSet(sendlist[u]) /\ n \notin HandledIn(stack[u])
            /\ n \notin PushedIn(stack[t])
        BY <1>4, <1>5, <2>3 DEF Owned
      <3> QED BY <1>1, <1>4, <1>5, <2>4, <2>6, <2>11, <3>1 DEF Queued, InHandler, Pushed
    <2>15. Placed'
      BY <1>1, <1>4, <1>5, <1>6, <2>13, <2>14 DEF Placed
    <2> QED BY <2>8, <2>9, <2>10, <2>12, <2>15 DEF IInv
  <1> QED BY <1>7, <1>8

LEMMA PushSendKeeps ==
    ASSUME IInv, NEW t \in Thread, PushSend(t)
    PROVE  IInv'
  <1>1. /\ stack[t] # <<>> /\ Top(t).kind = "send" /\ Top(t).at = "push"
        /\ UNCHANGED ready /\ SameSends
    BY OthersSame DEF PushSend, Running
  <1>2. /\ stack[t] \in Seq(Frame) /\ WellStacked(stack[t])
        /\ \A r \in UnpushedIn(stack[t]) : r \in 1..sends /\ r \in SendId /\ sender[r] = t
    BY OneStack
  <1>3. PICK s : s = Top(t).id
    OBVIOUS
  <1>4. UnpushedIn(stack[t]) = {s}
    BY <1>1, <1>2, <1>3, TopOfStack DEF Top
  <1>5. s \in 1..sends /\ s \in SendId /\ sender[s] = t
    BY <1>2, <1>4
  <1>6. CoreType /\ Stacks /\ Listed /\ Owned /\ Placed /\ Fresh
    BY DEF IInv
  <1>7. PICK u \in Thread : u = target[s]
    BY <1>5, <1>6 DEF CoreType
  <1>8. Unpushed(s) /\ ~Pushed(s) /\ ~ready[s] /\ ~Queued(s) /\ ~InHandler(s)
    BY <1>4, <1>5, <1>6 DEF Unpushed, Placed
  <1> DEFINE x == Goto(stack[t], "wake")
             q == Append(sendlist[u], s)
  <1>9. /\ stack' = [stack EXCEPT ![t] = x] /\ sendlist' = [sendlist EXCEPT ![u] = q]
    BY <1>3, <1>7 DEF PushSend
  <1>10. /\ x \in Seq(Frame) /\ WellStacked(x)
         /\ HandledIn(x) = HandledIn(stack[t]) /\ UnpushedIn(x) = {}
         /\ PushedIn(x) = PushedIn(stack[t]) \cup UnpushedIn(stack[t])
    BY <1>1, <1>2, GotoStack DEF Ats
  <1>11. s \notin ToSet(sendlist[u]) /\ sendlist[u] \in Seq(SendId) /\ NoTwice(sendlist[u])
    BY <1>6, <1>7, <1>8 DEF Queued, CoreType, Listed
  <1>12. q \in Seq(SendId) /\ NoTwice(q) /\ ToSet(q) = ToSet(sendlist[u]) \cup {s}
    BY <1>5, <1>11, AppendList
  <1> HIDE DEF x, q
  <1>13. \A v \in Thread : /\ stack'[v] = IF v = t THEN x ELSE stack[v]
                           /\ sendlist'[v] = IF v = u THEN q ELSE sendlist[v]
    BY <1>6, <1>9 DEF CoreType
  <1>14. /\ \A v \in Thread : HandledIn(stack'[v]) = HandledIn(stack[v])
         /\ \A v \in Thread : v # t => /\ PushedIn(stack'[v]) = PushedIn(stack[v])
                                       /\ UnpushedIn(stack'[v]) = UnpushedIn(stack[v])
         /\ PushedIn(stack'[t]) = PushedIn(stack[t]) \cup {s}
         /\ UnpushedIn(stack'[t]) = {}
    BY <1>4, <1>10, <1>13
  <1>15. /\ \A v \in Thread : v # u => ToSet(sendlist'[v]) = ToSet(sendlist[v])
         /\ ToSet(sendlist'[u]) = ToSet(sendlist[u]) \cup {s}
    BY <1>12, <1>13
  <1>16. CoreType'
    BY <1>1, <1>6, <1>9, <1>10, <1>12 DEF CoreType, SameSends
  <1>17. Stacks' /\ Listed' /\ Fresh'
    BY <1>1, <1>6, <1>10, <1>12, <1>13 DEF Stacks, Listed, Fresh, SameSends
  <1>18. Owned'
    <2> SUFFICES ASSUME NEW v \in Thread
                 PROVE  /\ \A r \in PushedIn(stack'[v]) \cup UnpushedIn(stack'[v]) :
                              r \in 1..sends /\ sender[r] = v
                        /\ \A r \in HandledIn(stack'[v]) \cup ToSet(sendlist'[v]) :
                              r \in 1..sends /\ target[r] = v
      BY <1>1 DEF Owned, SameSends
    <2>1. /\ \A r \in PushedIn(stack[v]) \cup UnpushedIn(stack[v]) :
                r \in 1..sends /\ sender[r] = v
          /\ \A r \in HandledIn(stack[v]) \cup ToSet(sendlist[v]) :
                r \in 1..sends /\ target[r] = v
      BY <1>6 DEF Owned
    <2>2. \A r \in PushedIn(stack'[v]) \cup UnpushedIn(stack'[v]) :
            r \in 1..sends /\ sender[r] = v
      <3>1. CASE v = t
        BY <1>5, <1>14, <2>1, <3>1
      <3>2. CASE v # t
        BY <1>14, <2>1, <3>2
      <3> QED BY <3>1, <3>2
    <2>3. \A r \in HandledIn(stack'[v]) \cup ToSet(sendlist'[v]) :
            r \in 1..sends /\ target[r] = v
      <3>1. CASE v = u
        BY <1>5, <1>7, <1>14, <1>15, <2>1, <3>1
      <3>2. CASE v # u
        BY <1>14, <1>15, <2>1, <3>2
      <3> QED BY <3>1, <3>2
    <2> QED BY <2>2, <2>3
  <1>19. ASSUME NEW r \in 1..sends
         PROVE  /\ Pushed(r)' <=> Pushed(r) \/ r = s
                /\ Unpushed(r)' <=> Unpushed(r) /\ r # s
                /\ InHandler(r)' <=> InHandler(r)
                /\ Queued(r)' <=> Queued(r) \/ r = s
    <2>1. sender[r] \in Thread /\ target[r] \in Thread
      BY <1>6, BoundsAssumption DEF CoreType, SendId
    <2>2. /\ Pushed(r)' <=> Pushed(r) \/ r = s
          /\ Unpushed(r)' <=> Unpushed(r) /\ r # s
      <3>1. CASE sender[r] = t
        BY <1>1, <1>4, <1>14, <3>1 DEF Pushed, Unpushed, SameSends
      <3>2. CASE sender[r] # t
        BY <1>1, <1>5, <1>14, <2>1, <3>2 DEF Pushed, Unpushed, SameSends
      <3> QED BY <3>1, <3>2
    <2>3. InHandler(r)' <=> InHandler(r)
      BY <1>1, <1>14, <2>1 DEF InHandler, SameSends
    <2>4. Queued(r)' <=> Queued(r) \/ r = s
      <3>1. CASE target[r] = u
        BY <1>1, <1>15, <3>1 DEF Queued, SameSends
      <3>2. CASE target[r] # u
        BY <1>1, <1>7, <1>15, <2>1, <3>2 DEF Queued, SameSends
      <3> QED BY <3>1, <3>2
    <2> QED BY <2>2, <2>3, <2>4
  <1>20. Placed'
    BY <1>1, <1>6, <1>8, <1>19 DEF Placed, SameSends
  <1> QED BY <1>16, <1>17, <1>18, <1>20 DEF IInv

LEMMA WakeTargetKeeps ==
    ASSUME IInv, NEW t \in Thread, WakeTarget(t)
    PROVE  IInv'
  <1>1. /\ stack[t] # <<>> /\ Top(t).at # "push" /\ "check" \in Ats
        /\ stack' = [stack EXCEPT ![t] = Goto(stack[t], "check")]
        /\ UNCHANGED sendlist /\ UNCHANGED ready /\ SameSends
    BY OthersSame DEF WakeTarget, Running, Ats
  <1> QED BY <1>1, GotoKeeps

LEMMA CheckReadyKeeps ==
    ASSUME IInv, NEW t \in Thread, CheckReady(t)
    PROVE  IInv'
  <1>1. /\ stack[t] # <<>> /\ Top(t).kind = "send" /\ Top(t).at = "check"
        /\ UNCHANGED sendlist /\ UNCHANGED ready /\ SameSends
    BY OthersSame DEF CheckReady, Running
  <1>2. PICK s : s = Top(t).id
    OBVIOUS
  <1>3. CASE ~ready[s]
    <2>1. stack' = [stack EXCEPT ![t] = Goto(stack[t], "receive")] /\ "receive" \in Ats
      BY <1>2, <1>3 DEF CheckReady, Ats
    <2> QED BY <1>1, <2>1, GotoKeeps
  <1>4. CASE ready[s]
    <2> DEFINE x == Pop(stack[t])
    <2>1. stack' = [stack EXCEPT ![t] = x]
      BY <1>2, <1>4 DEF CheckReady
    <2>2. stack[t] \in Seq(Frame) /\ WellStacked(stack[t])
      BY OneStack
    <2>3. UnpushedIn(stack[t]) = {}
      BY <1>1, <2>2, TopOfStack DEF Top
    <2>4. /\ x \in Seq(Frame) /\ WellStacked(x) /\ UnpushedIn(x) = {}
          /\ HandledIn(x) = HandledIn(stack[t]) /\ PushedIn(x) = PushedIn(stack[t]) \ {s}
      BY <1>1, <1>2, <2>2, PopStack DEF Top
    <2> HIDE DEF x
    <2>5. CoreType /\ Stacks /\ Listed /\ Owned /\ Placed /\ Fresh
      BY DEF IInv
    <2>6. \A v \in Thread : stack'[v] = IF v = t THEN x ELSE stack[v]
      BY <2>1, <2>5 DEF CoreType
    <2>7. /\ \A v \in Thread : /\ HandledIn(stack'[v]) = HandledIn(stack[v])
                               /\ UnpushedIn(stack'[v]) = UnpushedIn(stack[v])
                               /\ v # t => PushedIn(stack'[v]) = PushedIn(stack[v])
          /\ PushedIn(stack'[t]) = PushedIn(stack[t]) \ {s}
      BY <2>3, <2>4, <2>6
    <2>8. \A v \in Thread : PushedIn(stack'[v]) \subseteq PushedIn(stack[v])
      BY <2>7
    <2>9. CoreType'
      BY <1>1, <2>1, <2>4, <2>5 DEF CoreType, SameSends
    <2>10. Stacks' /\ Listed' /\ Fresh'
      BY <1>1, <2>4, <2>5, <2>6 DEF Stacks, Listed, Fresh, SameSends
    <2>11. Owned'
      BY <1>1, <2>5, <2>7, <2>8 DEF Owned, SameSends
    <2>12. ASSUME NEW r \in 1..sends
           PROVE  /\ Pushed(r)' => Pushed(r)
                  /\ Pushed(r) /\ r # s => Pushed(r)'
                  /\ Unpushed(r)' <=> Unpushed(r)
                  /\ InHandler(r)' <=> InHandler(r)
                  /\ Queued(r)' <=> Queued(r)
      <3>1. sender[r] \in Thread /\ target[r] \in Thread
        BY <2>5, BoundsAssumption DEF CoreType, SendId
      <3>2. /\ Unpushed(r)' <=> Unpushed(r)
            /\ InHandler(r)' <=> InHandler(r)
            /\ Queued(r)' <=> Queued(r)
        BY <1>1, <2>7, <3>1 DEF Unpushed, InHandler, Queued, SameSends
      <3>3. Pushed(r)' => Pushed(r)
        BY <1>1, <2>8, <3>1 DEF Pushed, SameSends
      <3>4. Pushed(r) /\ r # s => Pushed(r)'
        <4>1. CASE sender[r] = t
          BY <1>1, <2>7, <4>1 DEF Pushed, SameSends
        <4>2. CASE sender[r] # t
          BY <1>1, <2>7, <3>1, <4>2 DEF Pushed, SameSends
        <4> QED BY <4>1, <4>2
      <3> QED BY <3>2, <3>3, <3>4
    <2>13. Placed'
      BY <1>1, <1>4, <2>5, <2>12 DEF Placed, SameSends
    <2> QED BY <2>9, <2>10, <2>11, <2>13 DEF IInv
  <1> QED BY <1>3, <1>4

\* Whether a send frame has waited says nothing of where its send is.
Waited(st, v) == [st EXCEPT ![Len(st)].waited = v]

LEMMA WaitedStack ==
    ASSUME NEW st \in Seq(Frame), st # <<>>, WellStacked(st), NEW v \in BOOLEAN
    PROVE  /\ Waited(st, v) \in Seq(Frame) /\ WellStacked(Waited(st, v))
           /\ HandledIn(Waited(st, v)) = HandledIn(st)
           /\ UnpushedIn(Waited(st, v)) = UnpushedIn(st)
           /\ PushedIn(Waited(st, v)) = PushedIn(st)
  <1> DEFINE x == Waited(st, v)
  <1>1. /\ DOMAIN st = 1..Len(st) /\ Len(st) \in Nat \ {0}
        /\ \A i \in DOMAIN st : st[i] \in Frame
    OBVIOUS
  <1>2. /\ DOMAIN x = DOMAIN st /\ Len(x) = Len(st)
        /\ \A i \in DOMAIN st : i # Len(st) => x[i] = st[i]
        /\ x[Len(st)] = [st[Len(st)] EXCEPT !.waited = v]
    BY <1>1 DEF Waited
  <1>3. \A i \in DOMAIN st :
          /\ x[i].kind = st[i].kind /\ x[i].id = st[i].id /\ x[i].at = st[i].at
          /\ x[i] \in Frame
    BY <1>1, <1>2 DEF Frame
  <1>4. x \in Seq(Frame)
    BY <1>1, <1>2, <1>3 DEF Waited
  <1> HIDE DEF x
  <1>5. WellStacked(x)
    BY <1>2, <1>3, <1>4 DEF WellStacked
  <1>6. HandledIn(x) = HandledIn(st)
    BY <1>2, <1>3 DEF HandledIn
  <1>7. UnpushedIn(x) = UnpushedIn(st)
    BY <1>2, <1>3 DEF UnpushedIn
  <1>8. PushedIn(x) = PushedIn(st)
    BY <1>2, <1>3 DEF PushedIn
  <1> QED BY <1>4, <1>5, <1>6, <1>7, <1>8 DEF x

LEMMA WaitKeeps ==
    ASSUME IInv, NEW t \in Thread, Wait(t)
    PROVE  IInv'
  <1>1. /\ stack[t] # <<>> /\ Top(t).at = "wait" /\ "receive" \in Ats /\ "check" \in Ats
        /\ UNCHANGED sendlist /\ UNCHANGED ready /\ SameSends
    BY OthersSame DEF Wait, Ats
  <1>2. CASE Top(t).kind = "loop"
    <2>1. stack' = [stack EXCEPT ![t] = Goto(stack[t], "receive")]
      BY <1>2 DEF Wait
    <2> QED BY <1>1, <2>1, GotoKeeps
  <1>3. CASE Top(t).kind # "loop"
    <2> DEFINE g == Goto(stack[t], "check")
               x == Waited(g, TRUE)
    <2>1. stack[t] \in Seq(Frame) /\ WellStacked(stack[t])
      BY OneStack
    <2>2. UnpushedIn(stack[t]) = {}
      BY <1>1, <2>1, TopOfStack DEF Top
    <2>3. /\ g \in Seq(Frame) /\ g # <<>> /\ WellStacked(g)
          /\ HandledIn(g) = HandledIn(stack[t]) /\ UnpushedIn(g) = {}
          /\ PushedIn(g) = PushedIn(stack[t]) \cup UnpushedIn(stack[t])
      BY <1>1, <2>1, GotoStack
    <2>4. Len(g) = Len(stack[t])
      BY <2>1 DEF Goto
    <2>5. stack' = [stack EXCEPT ![t] = x]
      BY <1>3, <2>4 DEF Wait, Waited
    <2> HIDE DEF g
    <2>6. /\ x \in Seq(Frame) /\ WellStacked(x)
          /\ HandledIn(x) = HandledIn(g) /\ UnpushedIn(x) = UnpushedIn(g)
          /\ PushedIn(x) = PushedIn(g)
      BY <2>3, WaitedStack
    <2> HIDE DEF x
    <2>7. /\ HandledIn(x) = HandledIn(stack[t]) /\ UnpushedIn(x) = UnpushedIn(stack[t])
          /\ PushedIn(x) = PushedIn(stack[t])
      BY <2>2, <2>3, <2>6
    <2>8. StackBecomes(t, x)
      BY <2>5, <2>6 DEF StackBecomes
    <2> QED BY <1>1, <2>7, <2>8, QuietKeeps
  <1> QED BY <1>2, <1>3

LEMMA GetKeeps ==
    ASSUME IInv, NEW t \in Thread, Get(t)
    PROVE  IInv'
  <1>1. /\ stack[t] # <<>> /\ Top(t).kind = "loop"
        /\ UNCHANGED sendlist /\ UNCHANGED ready /\ SameSends
    BY OthersSame DEF Get, Running
  <1>2. stack[t] \in Seq(Frame) /\ WellStacked(stack[t])
    BY OneStack
  <1>3. PushedIn(stack[t]) = {} /\ UnpushedIn(stack[t]) = {} /\ HandledIn(stack[t]) = {}
    BY <1>1, <1>2, OnlyLoop DEF Top
  <1> DEFINE g == Goto(stack[t], "receive")
             y == Append(g, Handler(0))
  <1>4. \/ stack' = [stack EXCEPT ![t] = y]
        \/ stack' = [stack EXCEPT ![t] = <<>>]
        \/ stack' = [stack EXCEPT ![t] = Goto(stack[t], "wait")]
    <2>1. CASE posted[t] > 0 /\ stack' = [stack EXCEPT ![t] = y]
      BY <2>1
    <2>2. CASE stack' = [stack EXCEPT ![t] = IF fStop[t] THEN <<>>
                                             ELSE Goto(stack[t], "wait")]
      <3>1. CASE fStop[t]
        BY <2>2, <3>1
      <3>2. CASE ~fStop[t]
        BY <2>2, <3>2
      <3> QED BY <3>1, <3>2
    <2> QED BY <2>1, <2>2 DEF Get
  <1>5. CASE stack' = [stack EXCEPT ![t] = y]
    <2>1. /\ g \in Seq(Frame) /\ g # <<>> /\ WellStacked(g)
          /\ HandledIn(g) = HandledIn(stack[t]) /\ UnpushedIn(g) = {}
          /\ PushedIn(g) = PushedIn(stack[t]) \cup UnpushedIn(stack[t])
      BY <1>1, <1>2, GotoStack DEF Ats
    <2> HIDE DEF g
    <2>2. Handler(0) \in Frame /\ Handler(0).kind = "handler" /\ Handler(0).id = 0
      BY HandlerFrame
    <2>3. 0 \notin HandledIn(g)
      BY <1>3, <2>1
    <2>4. /\ y \in Seq(Frame) /\ WellStacked(y)
          /\ HandledIn(y) = HandledIn(g) \cup ({0} \ {0})
          /\ PushedIn(y) = PushedIn(g) /\ UnpushedIn(y) = {}
      BY <2>1, <2>2, <2>3, AppendStack
    <2> HIDE DEF y
    <2>5. /\ HandledIn(y) = HandledIn(stack[t]) /\ UnpushedIn(y) = UnpushedIn(stack[t])
          /\ PushedIn(y) = PushedIn(stack[t])
      BY <1>3, <2>1, <2>4
    <2>6. StackBecomes(t, y)
      BY <1>5, <2>4 DEF StackBecomes
    <2> QED BY <1>1, <2>5, <2>6, QuietKeeps
  <1>6. CASE stack' = [stack EXCEPT ![t] = <<>>]
    <2>1. StackBecomes(t, <<>>)
      BY <1>6, EmptyStack DEF StackBecomes
    <2> QED BY <1>1, <1>3, <2>1, EmptyStack, QuietKeeps
  <1>7. CASE stack' = [stack EXCEPT ![t] = Goto(stack[t], "wait")]
    <2>1. Top(t).kind # "send" /\ "wait" \in Ats
      BY <1>1 DEF Ats
    <2> QED BY <1>1, <1>7, <2>1, GotoKeeps
  <1> QED BY <1>4, <1>5, <1>6, <1>7

LEMMA ClearKeepsAll ==
    ASSUME IInv, NEW u \in Thread, ClearHandler(u) \/ Destroy(u)
    PROVE  IInv'
  <1>1. CASE ClearHandler(u)
    <2>1. PICK i \in DOMAIN sendlist[u] : ClearSends(u, {sendlist[u][i]})
      BY <1>1 DEF ClearHandler
    <2>2. {sendlist[u][i]} \in SUBSET ToSet(sendlist[u])
      BY DEF ToSet
    <2> QED BY <2>1, <2>2, ClearKeepsOrder
  <1>2. CASE Destroy(u)
    <2>1. ClearSends(u, ToSet(sendlist[u]))
      BY <1>2 DEF Destroy
    <2> QED BY <2>1, ClearKeepsOrder
  <1> QED BY <1>1, <1>2

-----------------------------------------------------------------------------
(* Types *)

\* The variables that the invariant of the sends does not mention.
PlainType ==
    /\ has_sends \in [Thread -> BOOLEAN]
    /\ posted \in [Thread -> Nat]
    /\ fStop \in [Thread -> BOOLEAN]
    /\ wakeup \in [Thread -> BOOLEAN]
    /\ gone \subseteq Thread
    /\ telling \in [Thread -> 0..MaxSends]
    /\ posts \in 0..MaxPosts

LEMMA PlainTypeNext ==
    ASSUME PlainType, CoreType, [Next]_vars
    PROVE  PlainType'
  <1>1. ASSUME NEW t \in Thread, ReceiveSends(t) PROVE PlainType'
    <2>1. has_sends' \in [Thread -> BOOLEAN]
      BY <1>1 DEF ReceiveSends, Serve, PlainType
    <2> QED BY <1>1, <2>1 DEF ReceiveSends, PlainType
  <1>2. ASSUME NEW t \in Thread, HandlerReturns(t) PROVE PlainType'
    <2>1. Top(t).id \in 0..MaxSends
      <3>1. stack[t] \in Seq(Frame) /\ stack[t] # <<>>
        BY <1>2 DEF HandlerReturns, Running, CoreType
      <3>2. Last(stack[t]) \in Frame
        BY <3>1 DEF Last
      <3> QED BY <3>2 DEF Top, Frame
    <2>2. telling' \in [Thread -> 0..MaxSends]
      BY <1>2, <2>1 DEF HandlerReturns, PlainType
    <2> QED BY <1>2, <2>2 DEF HandlerReturns, PlainType
  <1>13. ASSUME NEW t \in Thread, TellSender(t) PROVE PlainType'
    <2>1. has_sends' \in [Thread -> BOOLEAN]
      BY <1>13 DEF TellSender, Serve, PlainType
    <2>2. wakeup' \in [Thread -> BOOLEAN]
      BY <1>13 DEF TellSender, PlainType
    <2>3. telling' \in [Thread -> 0..MaxSends]
      BY <1>13, BoundsAssumption DEF TellSender, PlainType
    <2> QED BY <1>13, <2>1, <2>2, <2>3 DEF TellSender, PlainType
  <1>3. ASSUME NEW t \in Thread, PushSend(t) PROVE PlainType'
    BY <1>3 DEF PushSend, PlainType
  <1>4. ASSUME NEW t \in Thread, WakeTarget(t) PROVE PlainType'
    BY <1>4 DEF WakeTarget, PlainType
  <1>5. ASSUME NEW t \in Thread, CheckReady(t) PROVE PlainType'
    <2>1. wakeup' \in [Thread -> BOOLEAN]
      <3>1. CASE ready[Top(t).id]
        <4>1. wakeup' = [wakeup EXCEPT ![t] = wakeup[t] \/ Top(t).waited]
          BY <1>5, <3>1 DEF CheckReady
        <4>2. (wakeup[t] \/ Top(t).waited) \in BOOLEAN
          OBVIOUS
        <4> QED BY <4>1, <4>2 DEF PlainType
      <3>2. CASE ~ready[Top(t).id]
        BY <1>5, <3>2 DEF CheckReady, PlainType
      <3> QED BY <3>1, <3>2
    <2> QED BY <1>5, <2>1 DEF CheckReady, PlainType
  <1>6. ASSUME NEW t \in Thread, Wait(t) PROVE PlainType'
    BY <1>6 DEF Wait, PlainType
  <1>7. ASSUME NEW t \in Thread, Get(t) PROVE PlainType'
    <2>1. posted' \in [Thread -> Nat]
      <3>1. posted \in [Thread -> Nat]
        BY DEF PlainType
      <3>2. CASE posted[t] > 0 /\ posted' = [posted EXCEPT ![t] = posted[t] - 1]
        BY <3>1, <3>2
      <3>3. CASE posted' = posted
        BY <3>1, <3>3
      <3> QED BY <1>7, <3>2, <3>3 DEF Get
    <2> QED BY <1>7, <2>1 DEF Get, PlainType
  <1>8. ASSUME NEW t \in Thread, NEW u \in Thread, Send(t, u) PROVE PlainType'
    BY <1>8 DEF Send, PlainType
  <1>9. ASSUME NEW u \in Thread, Post(u) PROVE PlainType'
    <2>1. posts' \in 0..MaxPosts /\ posted' \in [Thread -> Nat]
      BY <1>9, BoundsAssumption DEF Post, PlainType
    <2> QED BY <1>9, <2>1 DEF Post, PlainType
  <1>10. ASSUME NEW u \in Thread, Quit(u) PROVE PlainType'
    BY <1>10 DEF Quit, PlainType
  <1>11. ASSUME NEW u \in Thread, ClearHandler(u) \/ Destroy(u) PROVE PlainType'
    <2>1. PICK S : ClearSends(u, S)
      BY <1>11 DEF ClearHandler, Destroy
    <2>2. wakeup' \in [Thread -> BOOLEAN]
      <3>1. \A t \in Thread : (wakeup[t] \/ \E s \in S : sender[s] = t) \in BOOLEAN
        OBVIOUS
      <3> QED BY <2>1, <3>1 DEF ClearSends
    <2>3. gone' \subseteq Thread
      BY <1>11 DEF ClearHandler, Destroy, PlainType
    <2> QED BY <2>1, <2>2, <2>3 DEF ClearSends, PlainType
  <1>12. CASE UNCHANGED vars
    BY <1>12 DEF vars, PlainType
  <1> QED BY <1>1, <1>2, <1>3, <1>4, <1>5, <1>6, <1>7, <1>8, <1>9, <1>10, <1>11, <1>12,
       <1>13 DEF Next, Step

-----------------------------------------------------------------------------
(* The theorems *)

LEMMA Start ==
    ASSUME Init
    PROVE  IInv /\ PlainType
  <1> DEFINE first == <<Loop>>
  <1>1. Loop \in Frame /\ Loop.kind = "loop"
    BY BoundsAssumption DEF Loop, FrameOf, Frame
  <1>2. first \in Seq(Frame) /\ Len(first) = 1 /\ DOMAIN first = {1} /\ first[1] = Loop
    BY <1>1
  <1> HIDE DEF first
  <1>3. WellStacked(first)
    BY <1>1, <1>2 DEF WellStacked
  <1>4. PushedIn(first) = {} /\ UnpushedIn(first) = {} /\ HandledIn(first) = {}
    BY <1>1, <1>2 DEF PushedIn, UnpushedIn, HandledIn
  <1>5. (CHOOSE t \in Thread : TRUE) \in Thread
    BY BoundsAssumption
  <1>6. stack = [t \in Thread |-> first]
    BY DEF Init, first
  <1>7. CoreType
    <2>1. stack \in [Thread -> Seq(Frame)]
      BY <1>2, <1>6
    <2>2. sender \in [SendId -> Thread] /\ target \in [SendId -> Thread]
      BY <1>5 DEF Init
    <2>3. sendlist \in [Thread -> Seq(SendId)] /\ ready \in [SendId -> BOOLEAN]
      BY DEF Init
    <2>4. sends \in 0..MaxSends
      BY BoundsAssumption DEF Init
    <2> QED BY <2>1, <2>2, <2>3, <2>4 DEF CoreType
  <1>8. PlainType
    BY BoundsAssumption DEF Init, PlainType
  <1>9. Stacks
    BY <1>3, <1>6 DEF Stacks
  <1>10. Listed /\ Fresh
    BY BoundsAssumption DEF Init, Listed, NoTwice, Fresh, SendId
  <1>11. sends = 0 /\ \A t \in Thread : ToSet(sendlist[t]) = {}
    BY DEF Init, ToSet
  <1>12. Owned
    BY <1>4, <1>6, <1>11 DEF Owned
  <1>13. Placed
    BY <1>11 DEF Placed
  <1> QED BY <1>7, <1>8, <1>9, <1>10, <1>12, <1>13 DEF IInv

LEMMA Keeps ==
    ASSUME IInv, [Next]_vars
    PROVE  IInv'
  <1>1. ASSUME NEW t \in Thread, Step(t) PROVE IInv'
    BY <1>1, ReceiveSendsKeeps, HandlerReturnsKeeps, TellSenderKeeps, PushSendKeeps,
       WakeTargetKeeps, CheckReadyKeeps, WaitKeeps, GetKeeps DEF Step
  <1>2. ASSUME NEW t \in Thread, NEW u \in Thread, Send(t, u) PROVE IInv'
    BY <1>2, SendKeeps
  <1>3. ASSUME NEW u \in Thread, Post(u) \/ Quit(u) PROVE IInv'
    <2>1. UNCHANGED stack /\ UNCHANGED sendlist /\ UNCHANGED ready /\ SameSends
      BY <1>3, OthersSame DEF Post, Quit
    <2> QED BY <2>1, UnchangedKeeps
  <1>4. ASSUME NEW u \in Thread, ClearHandler(u) \/ Destroy(u) PROVE IInv'
    BY <1>4, ClearKeepsAll
  <1>5. CASE UNCHANGED vars
    <2>1. UNCHANGED stack /\ UNCHANGED sendlist /\ UNCHANGED ready /\ SameSends
      BY <1>5 DEF vars, SameSends
    <2> QED BY <2>1, UnchangedKeeps
  <1> QED BY <1>1, <1>2, <1>3, <1>4, <1>5 DEF Next

LEMMA Always == Spec => [](IInv /\ PlainType)
  <1>1. IInv /\ PlainType /\ [Next]_vars => (IInv /\ PlainType)'
    <2> SUFFICES ASSUME IInv, PlainType, [Next]_vars
                 PROVE  IInv' /\ PlainType'
      OBVIOUS
    <2>1. CoreType
      BY DEF IInv
    <2> QED BY <2>1, Keeps, PlainTypeNext
  <1> QED BY <1>1, Start, PTL DEF Spec

\* The frames of the properties and those of the invariant.
LEMMA FramesAre ==
    ASSUME IInv, NEW s \in 1..sends
    PROVE  /\ Handled(s) <=> InHandler(s)
           /\ Waits(s) <=> Pushed(s) \/ Unpushed(s)
  <1>1. s # 0 /\ sender[s] \in Thread /\ target[s] \in Thread
    BY BoundsAssumption DEF IInv, CoreType, SendId
  <1> DEFINE st == stack[target[s]]
             wt == stack[sender[s]]
  <1>2. st \in Seq(Frame) /\ wt \in Seq(Frame)
    BY <1>1 DEF IInv, CoreType
  <1> HIDE DEF st, wt
  <1>3. Handled(s) <=> \E i \in DOMAIN st : st[i].kind = "handler" /\ st[i].id = s
    BY <1>2 DEF Handled, Frames, ToSet, st
  <1>4. Waits(s) <=> \E i \in DOMAIN wt : wt[i].kind = "send" /\ wt[i].id = s
    BY <1>2 DEF Waits, Frames, ToSet, wt
  <1>5. InHandler(s) <=> \E i \in DOMAIN st : st[i].kind = "handler" /\ st[i].id = s
    BY <1>1 DEF InHandler, HandledIn, st
  <1>6. /\ Pushed(s) <=> \E i \in DOMAIN wt :
              wt[i].kind = "send" /\ wt[i].at # "push" /\ wt[i].id = s
        /\ Unpushed(s) <=> \E i \in DOMAIN wt :
              wt[i].kind = "send" /\ wt[i].at = "push" /\ wt[i].id = s
    BY DEF Pushed, Unpushed, PushedIn, UnpushedIn, wt
  <1> QED BY <1>3, <1>4, <1>5, <1>6

\* Every variable has its type.
THEOREM TypeCorrectness == Spec => []TypeOK
  <1>1. IInv /\ PlainType => TypeOK
    BY DEF IInv, CoreType, PlainType, TypeOK
  <1> QED BY <1>1, Always, PTL

\* A send is queued or handled only while its sender waits on the flag of it:
\* a handler, and whoever sets the flag, finds the frame of its sender.
THEOREM SendersWait == Spec => []SenderWaits
  <1>1. IInv => SenderWaits
    BY FramesAre DEF SenderWaits, IInv, Placed
  <1> QED BY <1>1, Always, PTL

\* A send that was pushed is queued, handled or answered, and only one of them.
THEOREM SendsAreInOnePlace == Spec => []InOnePlace
  <1>1. ASSUME IInv, NEW s \in 1..sends, Waits(s), ~Running(sender[s], "send", "push")
        PROVE  Cardinality({p \in {"queued", "handled", "answered"} :
                        CASE p = "queued" -> Queued(s)
                          [] p = "handled" -> Handled(s)
                          [] p = "answered" -> ready[s]}) = 1
    <2> DEFINE P == {p \in {"queued", "handled", "answered"} :
                        CASE p = "queued" -> Queued(s)
                          [] p = "handled" -> Handled(s)
                          [] p = "answered" -> ready[s]}
    <2>1. sender[s] \in Thread
      BY <1>1, BoundsAssumption DEF IInv, CoreType, SendId
    <2>2. stack[sender[s]] \in Seq(Frame) /\ WellStacked(stack[sender[s]])
      BY <1>1, <2>1, OneStack
    <2>3. ~Unpushed(s)
      <3>1. SUFFICES ASSUME Unpushed(s) PROVE FALSE
        OBVIOUS
      <3>2. stack[sender[s]] # <<>>
        BY <3>1, EmptyStack DEF Unpushed
      <3>3. ~(Top(sender[s]).kind = "send" /\ Top(sender[s]).at = "push")
        BY <1>1, <3>2 DEF Running
      <3> QED BY <2>2, <3>1, <3>2, <3>3, TopOfStack DEF Unpushed, Top
    <2>4. Pushed(s) /\ (Handled(s) <=> InHandler(s))
      BY <1>1, <2>3, FramesAre
    <2>5. /\ Queued(s) => ~Handled(s) /\ ~ready[s]
          /\ Handled(s) => ~ready[s]
          /\ Queued(s) \/ Handled(s) \/ ready[s]
      BY <1>1, <2>4 DEF IInv, Placed
    <2>6. /\ "queued" \in P <=> Queued(s)
          /\ "handled" \in P <=> Handled(s)
          /\ "answered" \in P <=> ready[s]
          /\ P \subseteq {"queued", "handled", "answered"}
      OBVIOUS
    <2> HIDE DEF P
    <2>7. P = {"queued"} \/ P = {"handled"} \/ P = {"answered"}
      BY <2>5, <2>6
    <2>8. Cardinality(P) = 1
      BY <2>7, FS_Singleton
    <2> QED BY <2>8 DEF P
  <1>2. IInv => InOnePlace
    BY <1>1 DEF InOnePlace
  <1> QED BY <1>2, Always, PTL

=============================================================================
